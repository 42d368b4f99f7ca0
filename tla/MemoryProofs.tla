---------------------------- MODULE MemoryProofs ----------------------------
(***************************************************************************)
(* The allocator keeps its boundary tags, its free list and the data of    *)
(* its clients, for any machine, tasks, and sizes of blocks.               *)
(***************************************************************************)
EXTENDS Memory, FiniteSetTheorems, WellFoundedInduction, TLAPS

(* S are the places where blocks start: they cover the arena and do not     *)
(* overlap.                                                                 *)
Cut(h, n, S) ==
  /\ S \subseteq 0..(n - 1) /\ 0 \in S
  /\ \A b \in S : BtSize(h, b) > 0 /\ BtNext(h, b) \in S \cup {n}
  /\ \A b, c \in S : b < c => BtNext(h, b) <= c

(* A used block is as its client left it, from its node on.                 *)
Untouched(h, b) ==
  \A u \in b..(BtNext(h, b) - 1) :
    /\ h.prev[u] = DATAPTR /\ h.next[u] = DATAPTR
    /\ u > b => h.hdr[u] = DATA /\ h.foot[u - 1] = DATA

FreePred(h, S, b) == \E p \in S : BtNext(h, p) = b /\ BtFree(h, p)

(* What the tags of block b say is true.                                    *)
Fits(h, n, S, b) ==
  /\ "ISLAST" \in h.hdr[b].flags => BtNext(h, b) = n
  /\ BtFree(h, b) => /\ h.foot[BtNext(h, b) - 1] = h.hdr[b]
                     /\ BtNext(h, b) \in S => ~BtFree(h, BtNext(h, b))
  /\ ~BtFree(h, b) => /\ BtHasCanary(h, b) /\ Untouched(h, b)
                      /\ "PREVFREE" \in h.hdr[b].flags <=> FreePred(h, S, b)

FreeOf(h, S) == {b \in S : BtFree(h, b)}

(* The free list is a ring through HEAD, along which some numbering grows.  *)
Linked(h, F, pos) ==
  \A b \in F \cup {HEAD} :
    /\ h.next[b] \in F \cup {HEAD} /\ h.prev[h.next[b]] = b
    /\ h.prev[b] \in F \cup {HEAD} /\ h.next[h.prev[b]] = b
    /\ b # HEAD /\ h.next[b] # HEAD => pos[b] < pos[h.next[b]]

Listed(h, n, F) == \E pos \in [0..(n - 1) -> Nat] : Linked(h, F, pos)

Offer(h, S, u) == IF u \in FreeOf(h, S) THEN ALIGNMENT * BtSize(h, u) - USEDBLK_SZ ELSE 0
Offers(h, n, S) == [u \in 0..(n - 1) |-> Offer(h, S, u)]

(* The sum of the first elements of w.                                      *)
Sums(w, n) == CHOOSE s \in [0..n -> Int] :
                s[0] = 0 /\ \A k \in 1..n : s[k] = s[k - 1] + w[k - 1]

Good(h, n, S) ==
  /\ h \in Words(n) /\ Cut(h, n, S) /\ \A b \in S : Fits(h, n, S, b)
  /\ Listed(h, n, FreeOf(h, S))
  /\ h.totalFree = Sums(Offers(h, n, S), n)[n]

-----------------------------------------------------------------------------
(* Numbers.                                                                 *)
LEMMA NatMin ==
  ASSUME NEW S \in SUBSET Nat, S # {}
  PROVE  \E m \in S : \A k \in S : m <= k
<1> DEFINE R == OpToRel(<, Nat)
<1>1. IsWellFoundedOn(R, Nat)
  BY NatLessThanWellFounded
<1>2. \A k, m \in Nat : k < m => <<k, m>> \in R
  BY DEF OpToRel
<1> HIDE DEF R
<1>3. PICK m \in S : \A k \in S : ~(<<k, m>> \in R)
  BY <1>1, WFMin
<1>4. ASSUME NEW k \in S PROVE m <= k
  <2>1. ~(k < m)
    BY <1>2, <1>3
  <2>2. QED
    BY <2>1
<1>5. QED
  BY <1>4

LEMMA NatInduct ==
  ASSUME NEW S \in SUBSET Nat, 0 \in S, \A k \in S : k + 1 \in S
  PROVE  S = Nat
<1>1. SUFFICES ASSUME Nat \ S # {} PROVE FALSE
  OBVIOUS
<1>2. PICK m \in Nat \ S : \A k \in Nat \ S : m <= k
  BY <1>1, NatMin
<1>3. m - 1 \in Nat /\ (m - 1) + 1 = m
  BY <1>2
<1>4. m - 1 \in S
  BY <1>2, <1>3
<1>5. QED
  BY <1>2, <1>3, <1>4

(* Of a bounded set of numbers, the greatest.                               *)
LEMMA GreatestBelow ==
  ASSUME NEW n \in Nat, NEW S \in SUBSET (0..n), S # {}
  PROVE  \E m \in S : \A k \in S : k <= m
<1> DEFINE T == {n - k : k \in S}
<1>1. T \in SUBSET Nat /\ T # {}
  <2>1. \A k \in S : n - k \in Nat
    OBVIOUS
  <2>2. QED
    BY <2>1
<1>2. \E d \in T : \A k \in T : d <= k
  <2> HIDE DEF T
  <2>1. QED
    BY <1>1, NatMin
<1>3. PICK m \in S : \A k \in T : n - m <= k
  BY <1>2
<1>4. ASSUME NEW k \in S PROVE k <= m
  <2>1. n - m <= n - k
    BY <1>3
  <2>2. QED
    BY <1>3, <2>1
<1>5. QED
  BY <1>4

(* What a function of the first numbers does to its value before, it does   *)
(* n times.                                                                 *)
LEMMA Recursion ==
  ASSUME NEW n \in Nat, NEW a \in Int, NEW g \in [0..n -> [Int -> Int]]
  PROVE  \E f \in [0..n -> Int] : f[0] = a /\ \A k \in 1..n : f[k] = g[k][f[k - 1]]
<1> DEFINE Runs(m, f) == f[0] = a /\ \A k \in 1..m : f[k] = g[k][f[k - 1]]
           S == {m \in Nat : m <= n => \E f \in [0..m -> Int] : Runs(m, f)}
<1>1. 0 \in S
  <2> DEFINE f == [k \in 0..0 |-> a]
  <2>1. f \in [0..0 -> Int] /\ f[0] = a
    OBVIOUS
  <2> HIDE DEF f
  <2>2. Runs(0, f)
    BY <2>1
  <2> HIDE DEF Runs
  <2>3. QED
    BY <2>1, <2>2
<1>2. ASSUME NEW m \in S PROVE m + 1 \in S
  <2> HIDE DEF Runs
  <2>1. SUFFICES ASSUME m + 1 <= n PROVE \E f \in [0..(m + 1) -> Int] : Runs(m + 1, f)
    OBVIOUS
  <2>2. m \in Nat /\ m <= n
    BY <2>1
  <2>3. PICK f \in [0..m -> Int] : Runs(m, f)
    BY <2>2
  <2> DEFINE fun == g[m + 1]
             last == fun[f[m]]
             e == [k \in 0..(m + 1) |-> IF k = m + 1 THEN last ELSE f[k]]
  <2>4. f[m] \in Int /\ m + 1 \in 0..n
    BY <2>1, <2>2
  <2>5. last \in Int
    <3>1. fun \in [Int -> Int]
      BY <2>4
    <3> HIDE DEF fun
    <3>2. QED
      BY <2>4, <3>1
  <2> HIDE DEF last
  <2>6. e \in [0..(m + 1) -> Int]
    BY <2>2, <2>5
  <2>7. e[m + 1] = last /\ \A k \in 0..m : e[k] = f[k]
    BY <2>2
  <2> HIDE DEF e
  <2>8. e[0] = a
    <3>1. f[0] = a
      BY <2>3 DEF Runs
    <3>2. 0 \in 0..m
      BY <2>2
    <3>3. QED
      BY <2>7, <3>1, <3>2
  <2>9. ASSUME NEW k \in 1..(m + 1) PROVE e[k] = g[k][e[k - 1]]
    <3>1. CASE k = m + 1
      <4>1. k - 1 = m /\ m \in 0..m
        BY <2>2, <3>1
      <4>2. e[k - 1] = f[m]
        BY <2>7, <4>1
      <4>3. QED
        BY <2>7, <3>1, <4>2 DEF last
    <3>2. CASE k # m + 1
      <4>1. k \in 0..m /\ k - 1 \in 0..m /\ k \in 1..m
        BY <2>2, <3>2
      <4>2. e[k] = f[k] /\ e[k - 1] = f[k - 1]
        BY <2>7, <4>1
      <4>3. QED
        BY <2>3, <4>1, <4>2 DEF Runs
    <3>3. QED
      BY <3>1, <3>2
  <2>10. Runs(m + 1, e)
    BY <2>8, <2>9 DEF Runs
  <2>11. QED
    BY <2>6, <2>10
<1>3. S = Nat
  <2> HIDE DEF S
  <2>1. S \in SUBSET Nat
    BY DEF S
  <2>2. QED
    BY <1>1, <1>2, <2>1, NatInduct
<1>4. \E f \in [0..n -> Int] : Runs(n, f)
  <2> HIDE DEF Runs, S
  <2>1. n \in S
    BY <1>3
  <2>2. QED
    BY <2>1 DEF S
<1>5. QED
  BY <1>4

LEMMA SumsExist ==
  ASSUME NEW n \in Nat, NEW w \in [0..(n - 1) -> Int]
  PROVE  /\ Sums(w, n) \in [0..n -> Int] /\ Sums(w, n)[0] = 0
         /\ \A k \in 1..n : Sums(w, n)[k] = Sums(w, n)[k - 1] + w[k - 1]
<1> DEFINE g == [k \in 0..n |-> [x \in Int |-> IF k = 0 THEN 0 ELSE x + w[k - 1]]]
<1>1. g \in [0..n -> [Int -> Int]]
  <2>1. ASSUME NEW k \in 0..n, NEW x \in Int
        PROVE  (IF k = 0 THEN 0 ELSE x + w[k - 1]) \in Int
    OBVIOUS
  <2>2. \A k \in 0..n : [x \in Int |-> IF k = 0 THEN 0 ELSE x + w[k - 1]] \in [Int -> Int]
    BY <2>1
  <2>3. QED
    BY <2>2
<1>2. \A k \in 1..n, x \in Int : g[k][x] = x + w[k - 1]
  OBVIOUS
<1> HIDE DEF g
<1>3. \E f \in [0..n -> Int] : f[0] = 0 /\ \A k \in 1..n : f[k] = g[k][f[k - 1]]
  <2>1. 0 \in Int
    OBVIOUS
  <2>2. QED
    BY <1>1, <2>1, Recursion
<1>4. PICK f \in [0..n -> Int] : f[0] = 0 /\ \A k \in 1..n : f[k] = g[k][f[k - 1]]
  BY <1>3
<1>5. ASSUME NEW k \in 1..n PROVE f[k] = f[k - 1] + w[k - 1]
  <2>1. k - 1 \in 0..n
    OBVIOUS
  <2>2. QED
    BY <1>2, <1>4, <2>1
<1>6. \E s \in [0..n -> Int] : s[0] = 0 /\ \A k \in 1..n : s[k] = s[k - 1] + w[k - 1]
  BY <1>4, <1>5
<1>7. QED
  BY <1>6 DEF Sums

(* The sum of what changes in two places only.                              *)
LEMMA SumsChange ==
  ASSUME NEW n \in Nat, NEW w \in [0..(n - 1) -> Int], NEW v \in [0..(n - 1) -> Int],
         NEW i \in 0..(n - 1), \A u \in 0..(n - 1) : u # i => v[u] = w[u]
  PROVE  Sums(v, n)[n] = Sums(w, n)[n] + v[i] - w[i]
<1> DEFINE a == Sums(w, n)
           b == Sums(v, n)
           d == v[i] - w[i]
           S == {k \in Nat : k <= n => b[k] = a[k] + IF k <= i THEN 0 ELSE d}
<1>1. /\ a \in [0..n -> Int] /\ a[0] = 0 /\ \A k \in 1..n : a[k] = a[k - 1] + w[k - 1]
      /\ b \in [0..n -> Int] /\ b[0] = 0 /\ \A k \in 1..n : b[k] = b[k - 1] + v[k - 1]
  BY SumsExist
<1> HIDE DEF a, b
<1>2. 0 \in S
  BY <1>1
<1>3. ASSUME NEW k \in S PROVE k + 1 \in S
  <2>1. SUFFICES ASSUME k + 1 <= n PROVE b[k + 1] = a[k + 1] + IF k + 1 <= i THEN 0 ELSE d
    OBVIOUS
  <2>2. k \in 0..n /\ k \in 0..(n - 1) /\ k + 1 \in 1..n /\ (k + 1) - 1 = k
    BY <2>1
  <2>3. b[k] = a[k] + IF k <= i THEN 0 ELSE d
    BY <2>2
  <2>4. a[k + 1] = a[k] + w[k] /\ b[k + 1] = b[k] + v[k]
    BY <1>1, <2>2
  <2>5. a[k] \in Int /\ w[k] \in Int /\ v[k] \in Int /\ v[i] \in Int /\ w[i] \in Int
    BY <1>1, <2>2
  <2>6. CASE k = i
    BY <2>2, <2>3, <2>4, <2>5, <2>6
  <2>7. CASE k # i
    <3>1. v[k] = w[k] /\ (k <= i <=> k + 1 <= i)
      BY <2>2, <2>7
    <3>2. QED
      BY <2>2, <2>3, <2>4, <2>5, <3>1
  <2>8. QED
    BY <2>6, <2>7
<1>4. S = Nat
  <2> HIDE DEF S
  <2>1. S \in SUBSET Nat
    BY DEF S
  <2>2. QED
    BY <1>2, <1>3, <2>1, NatInduct
<1>5. b[n] = a[n] + d
  <2>1. n \in S
    BY <1>4
  <2>2. ~(n <= i)
    OBVIOUS
  <2>3. QED
    BY <2>1, <2>2
<1>6. QED
  BY <1>1, <1>5 DEF a, b

LEMMA SumsChangeTwice ==
  ASSUME NEW n \in Nat, NEW w \in [0..(n - 1) -> Int], NEW v \in [0..(n - 1) -> Int],
         NEW i \in 0..(n - 1), NEW j \in 0..(n - 1), i # j,
         \A u \in 0..(n - 1) : u # i /\ u # j => v[u] = w[u]
  PROVE  Sums(v, n)[n] = Sums(w, n)[n] + v[i] - w[i] + v[j] - w[j]
<1> DEFINE x == [w EXCEPT ![i] = v[i]]
<1>1. /\ x \in [0..(n - 1) -> Int] /\ x[i] = v[i] /\ x[j] = w[j]
      /\ \A u \in 0..(n - 1) : u # i => x[u] = w[u]
      /\ \A u \in 0..(n - 1) : u # j => v[u] = x[u]
  OBVIOUS
<1> HIDE DEF x
<1>2. Sums(x, n)[n] = Sums(w, n)[n] + x[i] - w[i]
  BY <1>1, SumsChange
<1>3. Sums(v, n)[n] = Sums(x, n)[n] + v[j] - x[j]
  BY <1>1, SumsChange
<1>4. Sums(w, n)[n] \in Int /\ v[i] \in Int /\ v[j] \in Int /\ w[i] \in Int /\ w[j] \in Int
  BY SumsExist
<1>5. QED
  BY <1>1, <1>2, <1>3, <1>4

-----------------------------------------------------------------------------
(* The walks from tag to tag and along the free list.                       *)
LEMMA WordsType ==
  ASSUME NEW n \in Nat, NEW h \in Words(n)
  PROVE  /\ DOMAIN h.hdr = 0..n /\ DOMAIN h.foot = 0..(n - 1)
         /\ Cardinality(DOMAIN h.foot) = n
         /\ \A u \in 0..n : h.hdr[u].size \in Int /\ h.hdr[u].flags \in SUBSET Flags
         /\ \A u \in 0..(n - 1) : h.foot[u].size \in Int
         /\ \A u \in -1..n : h.next[u] \in Int /\ h.prev[u] \in Int
         /\ h.totalFree \in Int
<1>1. DOMAIN h.hdr = 0..n /\ DOMAIN h.foot = 0..(n - 1)
  BY DEF Words
<1>2. Cardinality(0..(n - 1)) = n
  <2>1. 0 \in Int /\ n - 1 \in Int
    OBVIOUS
  <2>2. Cardinality(0..(n - 1)) = IF 0 > n - 1 THEN 0 ELSE (n - 1) - 0 + 1
    BY <2>1, FS_Interval
  <2>3. QED
    BY <2>2
<1>3. /\ h.hdr \in [0..n -> [size : Int, flags : SUBSET Flags]]
      /\ h.foot \in [0..(n - 1) -> [size : Int, flags : SUBSET Flags]]
      /\ h.prev \in [-1..n -> -2..n] /\ h.next \in [-1..n -> -2..n] /\ h.totalFree \in Int
  BY DEF Words
<1>4. \A u \in 0..n : h.hdr[u].size \in Int /\ h.hdr[u].flags \in SUBSET Flags
  BY <1>3
<1>5. \A u \in 0..(n - 1) : h.foot[u].size \in Int
  BY <1>3
<1>6. \A u \in -1..n : h.next[u] \in Int /\ h.prev[u] \in Int
  BY <1>3, SMTT(20)
<1>7. QED
  BY <1>1, <1>2, <1>3, <1>4, <1>5, <1>6

LEMMA WalkIs ==
  ASSUME NEW n \in Nat, NEW h \in Words(n)
  PROVE  /\ Walk(h) \in [0..n -> Int] /\ Walk(h)[0] = 0
         /\ \A k \in 1..n : Walk(h)[k] = IF Walk(h)[k - 1] \in 0..(n - 1)
                                         THEN BtNext(h, Walk(h)[k - 1]) ELSE Walk(h)[k - 1]
<1> DEFINE at == Walk(h)
           N == Cardinality(DOMAIN h.foot)
           step(x) == IF x \in DOMAIN h.foot THEN BtNext(h, x) ELSE x
           g == [k \in 0..n |-> [x \in Int |-> step(x)]]
<1>1. at = CHOOSE f : f = [k \in 0..N |-> IF k = 0 THEN 0 ELSE step(f[k - 1])]
  BY DEF Walk
<1>2. N = n /\ \A x \in Int : step(x) \in Int
  BY WordsType DEF BtNext, BtSize
<1> HIDE DEF at, N, step
<1>3. g \in [0..n -> [Int -> Int]] /\ \A k \in 1..n, x \in Int : g[k][x] = step(x)
  BY <1>2
<1> HIDE DEF g
<1>4. \E f : f = [k \in 0..n |-> IF k = 0 THEN 0 ELSE step(f[k - 1])]
  <2>1. 0 \in Int
    OBVIOUS
  <2>2. PICK f \in [0..n -> Int] : f[0] = 0 /\ \A k \in 1..n : f[k] = g[k][f[k - 1]]
    BY <1>3, <2>1, Recursion
  <2>3. ASSUME NEW k \in 1..n PROVE f[k] = step(f[k - 1])
    <3>1. k - 1 \in 0..n
      OBVIOUS
    <3>2. QED
      BY <1>3, <2>2, <3>1
  <2>4. ASSUME NEW k \in 0..n PROVE f[k] = IF k = 0 THEN 0 ELSE step(f[k - 1])
    <3>1. k = 0 \/ k \in 1..n
      OBVIOUS
    <3>2. QED
      BY <2>2, <2>3, <3>1
  <2>5. QED
    BY <2>2, <2>4
<1>5. at = [k \in 0..n |-> IF k = 0 THEN 0 ELSE step(at[k - 1])]
  <2>1. \E f : f = [k \in 0..N |-> IF k = 0 THEN 0 ELSE step(f[k - 1])]
    BY <1>2, <1>4
  <2>2. at = [k \in 0..N |-> IF k = 0 THEN 0 ELSE step(at[k - 1])]
    BY <1>1, <2>1
  <2>3. QED
    BY <1>2, <2>2
<1> DEFINE rhs(k) == IF k = 0 THEN 0 ELSE step(at[k - 1])
<1>6. at = [k \in 0..n |-> rhs(k)]
  BY <1>5
<1> HIDE DEF rhs
<1>7. DOMAIN at = 0..n /\ \A k \in 0..n : at[k] = rhs(k)
  BY <1>6
<1>8. at[0] = 0 /\ \A k \in 1..n : at[k] = step(at[k - 1])
  BY <1>7 DEF rhs
<1>9. \A k \in 0..n : at[k] \in Int
  <2> DEFINE S == {k \in Nat : k <= n => at[k] \in Int}
  <2>1. 0 \in S
    BY <1>8
  <2>2. ASSUME NEW k \in S PROVE k + 1 \in S
    <3>1. k \in Nat /\ k + 1 \in Nat /\ (k + 1) - 1 = k
      OBVIOUS
    <3>2. CASE k + 1 <= n
      <4>1. k + 1 \in 1..n /\ at[k] \in Int
        BY <3>1, <3>2
      <4>2. at[k + 1] = step(at[k])
        BY <1>8, <3>1, <4>1
      <4>3. QED
        BY <1>2, <3>1, <4>1, <4>2
    <3>3. QED
      BY <3>1, <3>2
  <2>3. S = Nat
    <3> HIDE DEF S
    <3>1. S \in SUBSET Nat
      BY DEF S
    <3>2. QED
      BY <2>1, <2>2, <3>1, NatInduct
  <2>4. QED
    BY <2>3
<1>10. at \in [0..n -> Int]
  BY <1>6, <1>7, <1>9
<1>11. QED
  BY <1>8, <1>10, WordsType DEF at, step

LEMMA FreeListIs ==
  ASSUME NEW n \in Nat, n > 0, NEW h \in Words(n)
  PROVE  /\ FreeList(h) \in [0..(n - 1) -> Int] /\ FreeList(h)[0] = h.next[HEAD]
         /\ \A k \in 1..(n - 1) :
              FreeList(h)[k] = IF FreeList(h)[k - 1] \in 0..(n - 1)
                               THEN h.next[FreeList(h)[k - 1]] ELSE FreeList(h)[k - 1]
<1> DEFINE at == FreeList(h)
           D == DOMAIN h.foot
           a == h.next[HEAD]
           step(x) == IF x \in DOMAIN h.foot THEN h.next[x] ELSE x
           g == [k \in 0..(n - 1) |-> [x \in Int |-> step(x)]]
<1>1. at = CHOOSE f : f = [k \in D |-> IF k = 0 THEN a ELSE step(f[k - 1])]
  BY DEF FreeList
<1>2. D = 0..(n - 1) /\ a \in Int /\ \A x \in Int : step(x) \in Int
  BY WordsType DEF HEAD
<1> HIDE DEF at, D, a, step
<1>3. g \in [0..(n - 1) -> [Int -> Int]] /\ \A k \in 1..(n - 1), x \in Int : g[k][x] = step(x)
  <2>1. [x \in Int |-> step(x)] \in [Int -> Int]
    BY <1>2
  <2>2. g \in [0..(n - 1) -> [Int -> Int]]
    BY <2>1
  <2>3. \A k \in 0..(n - 1) : g[k] = [x \in Int |-> step(x)]
    OBVIOUS
  <2> HIDE DEF g
  <2>4. ASSUME NEW k \in 1..(n - 1), NEW x \in Int PROVE g[k][x] = step(x)
    <3>1. k \in 0..(n - 1)
      OBVIOUS
    <3>2. QED
      BY <2>3, <3>1
  <2>5. QED
    BY <2>2, <2>4
<1> HIDE DEF g
<1>4. \E f : f = [k \in 0..(n - 1) |-> IF k = 0 THEN a ELSE step(f[k - 1])]
  <2>1. n - 1 \in Nat
    OBVIOUS
  <2>2. PICK f \in [0..(n - 1) -> Int] : f[0] = a /\ \A k \in 1..(n - 1) : f[k] = g[k][f[k - 1]]
    BY <1>2, <1>3, <2>1, Recursion, ZenonT(40)
  <2>3. ASSUME NEW k \in 1..(n - 1) PROVE f[k] = step(f[k - 1])
    <3>1. k - 1 \in 0..(n - 1)
      OBVIOUS
    <3>2. QED
      BY <1>3, <2>2, <3>1
  <2>4. ASSUME NEW k \in 0..(n - 1) PROVE f[k] = IF k = 0 THEN a ELSE step(f[k - 1])
    <3>1. k = 0 \/ k \in 1..(n - 1)
      OBVIOUS
    <3>2. QED
      BY <2>2, <2>3, <3>1
  <2>5. QED
    BY <2>2, <2>4
<1>5. at = [k \in 0..(n - 1) |-> IF k = 0 THEN a ELSE step(at[k - 1])]
  <2>1. \E f : f = [k \in D |-> IF k = 0 THEN a ELSE step(f[k - 1])]
    BY <1>2, <1>4
  <2>2. at = [k \in D |-> IF k = 0 THEN a ELSE step(at[k - 1])]
    BY <1>1, <2>1
  <2>3. QED
    BY <1>2, <2>2
<1> DEFINE rhs(k) == IF k = 0 THEN a ELSE step(at[k - 1])
<1>6. at = [k \in 0..(n - 1) |-> rhs(k)]
  BY <1>5
<1> HIDE DEF rhs
<1>7. DOMAIN at = 0..(n - 1) /\ \A k \in 0..(n - 1) : at[k] = rhs(k)
  BY <1>6
<1>8. at[0] = a /\ \A k \in 1..(n - 1) : at[k] = step(at[k - 1])
  BY <1>7 DEF rhs
<1>9. \A k \in 0..(n - 1) : at[k] \in Int
  <2> DEFINE S == {k \in Nat : k <= n - 1 => at[k] \in Int}
  <2>1. 0 \in S
    BY <1>2, <1>8
  <2>2. ASSUME NEW k \in S PROVE k + 1 \in S
    <3>1. k \in Nat /\ k + 1 \in Nat /\ (k + 1) - 1 = k
      OBVIOUS
    <3>2. CASE k + 1 <= n - 1
      <4>1. k + 1 \in 1..(n - 1) /\ at[k] \in Int
        BY <3>1, <3>2
      <4>2. at[k + 1] = step(at[k])
        BY <1>8, <3>1, <4>1
      <4>3. QED
        BY <1>2, <3>1, <4>1, <4>2
    <3>3. QED
      BY <3>1, <3>2
  <2>3. S = Nat
    <3> HIDE DEF S
    <3>1. S \in SUBSET Nat
      BY DEF S
    <3>2. QED
      BY <2>1, <2>2, <3>1, NatInduct
  <2>4. QED
    BY <2>3
<1>10. at \in [0..(n - 1) -> Int]
  BY <1>6, <1>7, <1>9
<1>11. QED
  BY <1>8, <1>10, WordsType DEF at, a, step

LEMMA OffersType ==
  ASSUME NEW n \in Nat, NEW h \in Words(n), NEW S \in SUBSET (0..(n - 1))
  PROVE  Offers(h, n, S) \in [0..(n - 1) -> Int]
<1>1. ASSUME NEW u \in 0..(n - 1) PROVE Offer(h, S, u) \in Int
  BY WordsType DEF Offer, BtSize, ALIGNMENT, USEDBLK_SZ
<1>2. QED
  BY <1>1 DEF Offers

LEMMA FreeMemIs ==
  ASSUME NEW n \in Nat, NEW h \in Words(n)
  PROVE  FreeMem(h)[n] = Sums(Offers(h, n, Blocks(h)), n)[n]
<1> DEFINE B == Blocks(h)
           s == Sums(Offers(h, n, B), n)
           w == Offers(h, n, B)
           D == DOMAIN h.hdr
           v == [u \in DOMAIN h.foot |-> IF u \in Blocks(h) /\ BtFree(h, u)
                                        THEN ALIGNMENT * BtSize(h, u) - USEDBLK_SZ ELSE 0]
           at == FreeMem(h)
<1>1. B \in SUBSET (0..(n - 1))
  BY WordsType DEF Blocks
<1>2. w \in [0..(n - 1) -> Int]
  <2> HIDE DEF B
  <2>1. QED
    BY <1>1, OffersType
<1>3. s \in [0..n -> Int] /\ s[0] = 0 /\ \A k \in 1..n : s[k] = s[k - 1] + w[k - 1]
  <2> HIDE DEF w
  <2>1. QED
    BY <1>2, SumsExist DEF w
<1>4. at = CHOOSE f : f = [u \in D |-> IF u = 0 THEN 0 ELSE f[u - 1] + v[u - 1]]
  BY DEF FreeMem
<1>5. D = 0..n /\ v = w
  BY WordsType DEF Offers, Offer, FreeOf
<1> HIDE DEF at, s, w, v, D, B
<1>6. s = [u \in D |-> IF u = 0 THEN 0 ELSE s[u - 1] + v[u - 1]]
  <2>1. ASSUME NEW u \in 0..n PROVE s[u] = IF u = 0 THEN 0 ELSE s[u - 1] + w[u - 1]
    <3>1. u = 0 \/ u \in 1..n
      OBVIOUS
    <3>2. QED
      BY <1>3, <3>1
  <2>2. s = [u \in 0..n |-> IF u = 0 THEN 0 ELSE s[u - 1] + w[u - 1]]
    BY <1>3, <2>1
  <2>3. QED
    BY <1>5, <2>2
<1>7. at = [u \in D |-> IF u = 0 THEN 0 ELSE at[u - 1] + v[u - 1]]
  <2>1. \E f : f = [u \in D |-> IF u = 0 THEN 0 ELSE f[u - 1] + v[u - 1]]
    BY <1>6
  <2>2. QED
    BY <1>4, <2>1
<1> DEFINE rhs(u) == IF u = 0 THEN 0 ELSE at[u - 1] + v[u - 1]
<1>8. at = [u \in 0..n |-> rhs(u)]
  BY <1>5, <1>7
<1> HIDE DEF rhs
<1>9. \A u \in 0..n : at[u] = rhs(u)
  BY <1>8
<1>10. at[0] = 0 /\ \A k \in 1..n : at[k] = at[k - 1] + w[k - 1]
  BY <1>5, <1>9 DEF rhs
<1>11. \A k \in 0..n : at[k] = s[k]
  <2> DEFINE S == {k \in Nat : k <= n => at[k] = s[k]}
  <2>1. 0 \in S
    BY <1>3, <1>10
  <2>2. ASSUME NEW k \in S PROVE k + 1 \in S
    <3>1. k \in Nat /\ k + 1 \in Nat /\ (k + 1) - 1 = k
      OBVIOUS
    <3>2. CASE k + 1 <= n
      <4>1. k + 1 \in 1..n /\ at[k] = s[k]
        BY <3>1, <3>2
      <4>2. at[k + 1] = at[k] + w[k] /\ s[k + 1] = s[k] + w[k]
        BY <1>3, <1>10, <3>1, <4>1
      <4>3. QED
        BY <3>1, <4>1, <4>2
    <3>3. QED
      BY <3>1, <3>2
  <2>3. S = Nat
    <3> HIDE DEF S
    <3>1. S \in SUBSET Nat
      BY DEF S
    <3>2. QED
      BY <2>1, <2>2, <3>1, NatInduct
  <2>4. QED
    BY <2>3
<1>12. QED
  BY <1>11 DEF at, s, w, B

-----------------------------------------------------------------------------
(* Blocks.                                                                  *)
LEMMA CutType ==
  ASSUME NEW n \in Nat, NEW h \in Words(n), NEW S, Cut(h, n, S)
  PROVE  /\ S \in SUBSET (0..(n - 1)) /\ 0 \in S /\ n > 0
         /\ \A b \in S : /\ BtSize(h, b) = h.hdr[b].size /\ BtNext(h, b) = b + BtSize(h, b)
                         /\ b \in 0..(n - 1) /\ BtSize(h, b) \in 1..n
                         /\ BtNext(h, b) \in (b + 1)..n
<1>1. S \in SUBSET (0..(n - 1)) /\ 0 \in S
  BY DEF Cut
<1>2. n > 0
  BY <1>1
<1>3. ASSUME NEW b \in S
      PROVE  /\ BtSize(h, b) = h.hdr[b].size /\ BtNext(h, b) = b + BtSize(h, b)
             /\ b \in 0..(n - 1) /\ BtSize(h, b) \in 1..n /\ BtNext(h, b) \in (b + 1)..n
  <2>1. b \in 0..(n - 1) /\ BtSize(h, b) > 0 /\ BtNext(h, b) \in S \cup {n}
    BY DEF Cut
  <2>2. BtSize(h, b) = h.hdr[b].size /\ h.hdr[b].size \in Int /\ BtNext(h, b) = b + BtSize(h, b)
    BY <2>1, WordsType DEF BtSize, BtNext
  <2>3. BtNext(h, b) \in 0..n
    <3>1. \A c \in S : c \in 0..(n - 1)
      BY <1>1
    <3>2. \A c \in S : c \in 0..n
      BY <3>1
    <3>3. n \in 0..n
      OBVIOUS
    <3>4. QED
      BY <2>1, <3>2, <3>3
  <2>4. QED
    BY <2>1, <2>2, <2>3
<1>4. QED
  BY <1>1, <1>2, <1>3

(* Every place where a block starts but the first is behind one other block.*)
LEMMA Pred ==
  ASSUME NEW n \in Nat, NEW h \in Words(n), NEW S, Cut(h, n, S), NEW b \in S \cup {n}, b # 0
  PROVE  \E p \in S : BtNext(h, p) = b
<1> DEFINE T == {p \in S : p < b}
<1>1. S \in SUBSET (0..(n - 1)) /\ 0 \in S /\ n > 0 /\ b \in 1..n
  BY CutType
<1>2. T \in SUBSET (0..n) /\ T # {}
  <2>1. \A c \in S : c \in 0..(n - 1)
    BY <1>1
  <2>2. \A c \in S : c \in 0..n
    BY <2>1
  <2>3. 0 \in T
    BY <1>1
  <2>4. QED
    BY <2>2, <2>3
<1>3. \E p \in T : \A q \in T : q <= p
  <2> HIDE DEF T
  <2>1. QED
    BY <1>2, GreatestBelow
<1>4. PICK p \in T : \A q \in T : q <= p
  BY <1>3
<1>5. p \in S /\ p < b
  OBVIOUS
<1>6. BtNext(h, p) \in (p + 1)..n /\ BtNext(h, p) \in S \cup {n}
  BY <1>5, CutType DEF Cut
<1>7. BtNext(h, p) <= b
  <2>1. CASE b = n
    BY <1>6, <2>1
  <2>2. CASE b \in S
    BY <1>5, <2>2 DEF Cut
  <2>3. QED
    BY <2>1, <2>2
<1>8. CASE BtNext(h, p) < b
  <2>1. BtNext(h, p) \in T
    BY <1>1, <1>6, <1>8
  <2>2. BtNext(h, p) <= p
    BY <1>4, <2>1
  <2>3. p \in Int
    BY <1>1, <1>5
  <2>4. QED
    BY <1>6, <2>2, <2>3
<1>9. QED
  BY <1>1, <1>5, <1>6, <1>7, <1>8

LEMMA PredUnique ==
  ASSUME NEW n \in Nat, NEW h \in Words(n), NEW S, Cut(h, n, S),
         NEW p \in S, NEW q \in S, BtNext(h, p) = BtNext(h, q)
  PROVE  p = q
<1>1. /\ p \in 0..(n - 1) /\ BtNext(h, p) \in (p + 1)..n
      /\ q \in 0..(n - 1) /\ BtNext(h, q) \in (q + 1)..n
  BY CutType
<1>2. /\ p < q => BtNext(h, p) <= q
      /\ q < p => BtNext(h, q) <= p
  BY DEF Cut
<1>3. QED
  BY <1>1, <1>2

(* ArenaCheck finds the blocks and ends at ar->end.                         *)
LEMMA BlocksAre ==
  ASSUME NEW n \in Nat, NEW h \in Words(n), NEW S, Cut(h, n, S)
  PROVE  Walk(h)[n] = n /\ Blocks(h) = S
<1> DEFINE at == Walk(h)
<1>1. /\ at \in [0..n -> Int] /\ at[0] = 0
      /\ \A k \in 1..n : at[k] = IF at[k - 1] \in 0..(n - 1)
                                 THEN BtNext(h, at[k - 1]) ELSE at[k - 1]
  BY WalkIs
<1>2. /\ S \in SUBSET (0..(n - 1)) /\ 0 \in S /\ n > 0
      /\ \A b \in S : BtNext(h, b) \in (b + 1)..n /\ BtNext(h, b) \in S \cup {n}
  BY CutType DEF Cut
<1>3. Blocks(h) = {at[k] : k \in 0..n} \cap (0..(n - 1))
  BY <1>1, WordsType DEF Blocks
<1> HIDE DEF at
<1>4. \A k \in 0..n : at[k] \in S \cup {n} /\ at[k] >= k
  <2> DEFINE K == {k \in Nat : k <= n => at[k] \in S \cup {n} /\ at[k] >= k}
  <2>1. 0 \in K
    BY <1>1, <1>2
  <2>2. ASSUME NEW k \in K PROVE k + 1 \in K
    <3>1. k \in Nat /\ k + 1 \in Nat /\ (k + 1) - 1 = k
      OBVIOUS
    <3>2. CASE k + 1 <= n
      <4>1. k + 1 \in 1..n /\ at[k] \in S \cup {n} /\ at[k] >= k
        BY <3>1, <3>2
      <4>2. at[k + 1] = IF at[k] \in 0..(n - 1) THEN BtNext(h, at[k]) ELSE at[k]
        BY <1>1, <3>1, <4>1
      <4>3. CASE at[k] \in S
        <5>1. at[k + 1] = BtNext(h, at[k]) /\ at[k] \in 0..(n - 1)
          BY <1>2, <4>2, <4>3
        <5>2. at[k + 1] \in (at[k] + 1)..n /\ at[k + 1] \in S \cup {n}
          BY <1>2, <4>3, <5>1
        <5>3. at[k + 1] >= k + 1
          BY <3>1, <4>1, <5>1, <5>2
        <5>4. QED
          BY <3>1, <5>2, <5>3
      <4>4. CASE at[k] = n
        <5>1. at[k + 1] = n
          BY <4>2, <4>4
        <5>2. QED
          BY <3>1, <3>2, <5>1
      <4>5. QED
        BY <4>1, <4>3, <4>4
    <3>3. QED
      BY <3>1, <3>2
  <2>3. K = Nat
    <3> HIDE DEF K
    <3>1. K \in SUBSET Nat
      BY DEF K
    <3>2. QED
      BY <2>1, <2>2, <3>1, NatInduct
  <2>4. QED
    BY <2>3
<1>5. at[n] = n
  <2>1. at[n] \in S \cup {n} /\ at[n] >= n
    BY <1>4
  <2>2. \A c \in S : c \in 0..(n - 1) /\ ~(c >= n)
    <3>1. \A c \in S : c \in 0..(n - 1)
      BY <1>2
    <3>2. QED
      BY <3>1
  <2>3. QED
    BY <2>1, <2>2
<1>6. ASSUME NEW b \in S PROVE \E k \in 0..n : at[k] = b
  <2> DEFINE T == {c \in S : \A k \in 0..n : at[k] # c}
  <2>1. SUFFICES ASSUME T # {} PROVE FALSE
    OBVIOUS
  <2>2. T \in SUBSET Nat
    <3>1. \A c \in S : c \in 0..(n - 1)
      BY <1>2
    <3>2. \A c \in S : c \in Nat
      BY <3>1
    <3>3. QED
      BY <3>2
  <2>3. \E c \in T : \A d \in T : c <= d
    <3> HIDE DEF T
    <3>1. QED
      BY <2>1, <2>2, NatMin
  <2>4. PICK c \in T : \A d \in T : c <= d
    BY <2>3
  <2>5. c \in S /\ c \in 0..(n - 1) /\ \A k \in 0..n : at[k] # c
    BY <1>2
  <2>6. c # 0
    BY <1>1, <2>5
  <2>7. \E p \in S : BtNext(h, p) = c
    <3> HIDE DEF T
    <3>1. c \in S \cup {n}
      BY <2>5
    <3>2. QED
      BY <2>6, <3>1, Pred
  <2>8. PICK p \in S : BtNext(h, p) = c
    BY <2>7
  <2>9. p < c /\ p \in 0..(n - 1)
    BY <1>2, <2>5, <2>8
  <2>10. p \notin T
    BY <2>4, <2>5, <2>9
  <2>11. PICK k \in 0..n : at[k] = p
    BY <2>10
  <2>12. k + 1 \in 1..n /\ k + 1 \in 0..n /\ (k + 1) - 1 = k
    <3>1. p # n
      BY <2>9
    <3>2. k # n
      BY <1>5, <2>11, <3>1
    <3>3. QED
      BY <3>2
  <2>13. at[k + 1] = c
    BY <1>1, <2>8, <2>9, <2>11, <2>12
  <2>14. QED
    BY <2>5, <2>12, <2>13
<1>7. Blocks(h) = S
  <2>1. \A b \in Blocks(h) : b \in S
    BY <1>3, <1>4
  <2>2. \A b \in S : b \in Blocks(h)
    BY <1>2, <1>3, <1>6
  <2>3. QED
    BY <2>1, <2>2
<1>8. QED
  BY <1>5, <1>7 DEF at

-----------------------------------------------------------------------------
(* One or two new blocks, that end at mid and hi, take the place of those   *)
(* between lo and hi: what the operations do to the tags.                   *)
Recuts(S, lo, mid, hi) == {b \in S : b < lo \/ b >= hi} \cup {lo} \cup {b \in {mid} : b < hi}

Recut(h, g, n, S, lo, mid, hi) ==
  /\ lo \in S /\ hi \in S \cup {n} /\ mid \in lo..hi /\ lo # mid
  /\ \A b \in S : b < lo \/ b >= hi => g.hdr[b].size = h.hdr[b].size
  /\ g.hdr[lo].size = mid - lo
  /\ mid # hi => g.hdr[mid].size = hi - mid

LEMMA RecutNext ==
  ASSUME NEW n \in Nat, NEW h \in Words(n), NEW g \in Words(n), NEW S, Cut(h, n, S),
         NEW lo, NEW mid, NEW hi, Recut(h, g, n, S, lo, mid, hi)
  PROVE  /\ lo \in 0..(n - 1) /\ mid \in (lo + 1)..hi /\ hi \in (lo + 1)..n
         /\ \A b \in S : b < lo => /\ BtNext(g, b) = BtNext(h, b) /\ BtNext(g, b) <= lo
                                   /\ BtNext(g, b) \in S
         /\ \A b \in S : b >= hi => BtNext(g, b) = BtNext(h, b) /\ BtNext(g, b) > hi
         /\ BtNext(g, lo) = mid
         /\ mid # hi => BtNext(g, mid) = hi
<1>1. /\ lo \in S /\ hi \in S \cup {n} /\ mid \in lo..hi /\ lo # mid
      /\ \A b \in S : b < lo \/ b >= hi => g.hdr[b].size = h.hdr[b].size
      /\ g.hdr[lo].size = mid - lo
      /\ mid # hi => g.hdr[mid].size = hi - mid
  BY DEF Recut
<1>2. /\ S \in SUBSET (0..(n - 1)) /\ n > 0
      /\ \A b \in S : /\ BtSize(h, b) = h.hdr[b].size /\ BtNext(h, b) = b + BtSize(h, b)
                      /\ b \in 0..(n - 1) /\ BtSize(h, b) \in 1..n
                      /\ BtNext(h, b) \in (b + 1)..n
  BY CutType
<1>3. lo \in 0..(n - 1) /\ hi \in 0..n
  BY <1>1, <1>2
<1>4. mid \in (lo + 1)..hi /\ hi \in (lo + 1)..n
  BY <1>1, <1>3
<1>5. \A b \in S : b < lo \/ b >= hi => BtNext(g, b) = BtNext(h, b)
  BY <1>1, <1>2 DEF BtNext, BtSize
<1>6. ASSUME NEW b \in S, b < lo
      PROVE  BtNext(h, b) <= lo /\ BtNext(h, b) \in S
  <2>1. BtNext(h, b) <= lo /\ BtNext(h, b) \in S \cup {n}
    BY <1>1, <1>6 DEF Cut
  <2>2. BtNext(h, b) # n
    BY <1>3, <2>1
  <2>3. QED
    BY <2>1, <2>2
<1>7. ASSUME NEW b \in S, b >= hi
      PROVE  BtNext(h, b) > hi
  BY <1>2, <1>3, <1>7
<1>8. BtNext(g, lo) = mid
  BY <1>1, <1>3, <1>4 DEF BtNext, BtSize
<1>9. mid # hi => BtNext(g, mid) = hi
  BY <1>1, <1>3, <1>4 DEF BtNext, BtSize
<1>10. QED
  BY <1>3, <1>4, <1>5, <1>6, <1>7, <1>8, <1>9

LEMMA RecutCut ==
  ASSUME NEW n \in Nat, NEW h \in Words(n), NEW g \in Words(n), NEW S, Cut(h, n, S),
         NEW lo, NEW mid, NEW hi, Recut(h, g, n, S, lo, mid, hi)
  PROVE  Cut(g, n, Recuts(S, lo, mid, hi))
<1> DEFINE R == Recuts(S, lo, mid, hi)
<1>1. /\ lo \in 0..(n - 1) /\ mid \in (lo + 1)..hi /\ hi \in (lo + 1)..n
      /\ \A b \in S : b < lo => /\ BtNext(g, b) = BtNext(h, b) /\ BtNext(g, b) <= lo
                                /\ BtNext(g, b) \in S
      /\ \A b \in S : b >= hi => BtNext(g, b) = BtNext(h, b) /\ BtNext(g, b) > hi
      /\ BtNext(g, lo) = mid
      /\ mid # hi => BtNext(g, mid) = hi
  BY RecutNext
<1>2. lo \in S /\ hi \in S \cup {n}
  BY DEF Recut
<1>3. S \in SUBSET (0..(n - 1)) /\ 0 \in S /\ \A b \in S : b \in 0..(n - 1)
  BY CutType
<1>4. \A b : b \in R <=> (b \in S /\ (b < lo \/ b >= hi)) \/ b = lo \/ (b = mid /\ mid # hi)
  BY <1>1 DEF Recuts
<1> HIDE DEF R
<1>5. R \subseteq 0..(n - 1) /\ 0 \in R
  <2>1. mid # hi => mid \in 0..(n - 1)
    BY <1>1
  <2>2. 0 \in S /\ (0 < lo \/ 0 = lo)
    BY <1>1, <1>3
  <2>3. QED
    BY <1>1, <1>3, <1>4, <2>1, <2>2
<1>6. hi \in R \cup {n}
  <2>1. hi \in S => hi \in R
    BY <1>1, <1>4
  <2>2. QED
    BY <1>2, <2>1
<1>7. ASSUME NEW b \in R PROVE BtSize(g, b) > 0 /\ BtNext(g, b) \in R \cup {n}
  <2>1. b \in 0..(n - 1) /\ BtNext(g, b) = b + BtSize(g, b) /\ BtSize(g, b) \in Int
    BY <1>5, WordsType DEF BtNext, BtSize
  <2>2. CASE b \in S /\ b < lo
    <3>1. BtNext(g, b) = BtNext(h, b) /\ BtNext(g, b) <= lo /\ BtNext(g, b) \in S
      BY <1>1, <2>2
    <3>2. BtNext(g, b) < lo \/ BtNext(g, b) = lo
      <4>1. BtNext(g, b) \in 0..(n - 1)
        BY <1>3, <3>1
      <4>2. QED
        BY <1>1, <3>1, <4>1
    <3>3. BtNext(g, b) \in R
      BY <1>4, <3>1, <3>2
    <3>4. BtNext(h, b) \in (b + 1)..n
      BY <2>2, CutType
    <3>5. BtSize(g, b) > 0
      BY <2>1, <3>1, <3>4
    <3>6. QED
      BY <3>3, <3>5
  <2>3. CASE b \in S /\ b >= hi
    <3>1. BtNext(g, b) = BtNext(h, b) /\ BtNext(g, b) > hi
      BY <1>1, <2>3
    <3>2. BtNext(h, b) \in (b + 1)..n /\ BtNext(h, b) \in S \cup {n}
      BY <2>3, CutType DEF Cut
    <3>3. BtNext(g, b) \in R \cup {n}
      <4>1. BtNext(g, b) >= hi
        BY <1>1, <3>1, <3>2
      <4>2. QED
        BY <1>4, <3>1, <3>2, <4>1
    <3>4. BtSize(g, b) > 0
      BY <2>1, <3>1, <3>2
    <3>5. QED
      BY <3>3, <3>4
  <2>4. CASE b = lo
    <3>1. BtSize(g, b) > 0
      BY <1>1, <2>1, <2>4
    <3>2. mid \in R \cup {n}
      BY <1>4, <1>6
    <3>3. QED
      BY <1>1, <2>4, <3>1, <3>2
  <2>5. CASE b = mid /\ mid # hi
    <3>1. BtSize(g, b) > 0
      BY <1>1, <2>1, <2>5
    <3>2. QED
      BY <1>1, <1>6, <2>5, <3>1
  <2>6. QED
    BY <1>4, <2>2, <2>3, <2>4, <2>5
<1>8. ASSUME NEW b \in R, NEW c \in R, b < c PROVE BtNext(g, b) <= c
  <2>1. b \in 0..(n - 1) /\ c \in 0..(n - 1)
    BY <1>5
  <2>2. CASE b \in S /\ b < lo
    <3>1. BtNext(g, b) = BtNext(h, b) /\ BtNext(g, b) <= lo /\ BtNext(g, b) \in 0..(n - 1)
      BY <1>1, <1>3, <2>2
    <3>2. CASE c >= lo
      BY <1>1, <2>1, <3>1, <3>2
    <3>3. CASE c < lo
      <4>1. c \in S
        BY <1>1, <1>4, <2>1, <3>3
      <4>2. QED
        BY <1>8, <2>2, <3>1, <4>1 DEF Cut
    <3>4. QED
      BY <1>1, <2>1, <3>2, <3>3
  <2>3. CASE b \in S /\ b >= hi
    <3>1. c \in S
      <4>1. ~(c < lo) /\ c # lo /\ ~(c = mid /\ mid # hi)
        BY <1>1, <1>8, <2>1, <2>3
      <4>2. QED
        BY <1>4, <4>1
    <3>2. QED
      BY <1>1, <1>8, <2>3, <3>1 DEF Cut
  <2>4. CASE b = lo
    <3>1. c >= mid
      BY <1>1, <1>4, <1>8, <2>1, <2>4
    <3>2. QED
      BY <1>1, <2>4, <3>1
  <2>5. CASE b = mid /\ mid # hi
    <3>1. c >= hi
      BY <1>1, <1>4, <1>8, <2>1, <2>5
    <3>2. QED
      BY <1>1, <2>5, <3>1
  <2>6. QED
    BY <1>4, <2>2, <2>3, <2>4, <2>5
<1>9. QED
  BY <1>5, <1>7, <1>8 DEF Cut, R

(* All else stays as it was, but for a flag behind the blocks and the node  *)
(* of free ones.                                                            *)
Edited(h, g, n, S, lo, hi) ==
  /\ \A u \in 0..(n - 1) : u < lo \/ u >= hi =>
       /\ g.foot[u] = h.foot[u]
       /\ u \notin FreeOf(h, S) => g.prev[u] = h.prev[u] /\ g.next[u] = h.next[u]
  /\ \A u \in 0..(n - 1) : u < lo \/ u > hi => g.hdr[u] = h.hdr[u]
  /\ hi \in S => /\ g.hdr[hi].flags \ {"PREVFREE"} = h.hdr[hi].flags \ {"PREVFREE"}
                 /\ BtFree(h, hi) => g.hdr[hi] = h.hdr[hi]

Last(lo, mid, hi) == IF mid = hi THEN lo ELSE mid

(* The tags of the new blocks and what is behind them fit.                  *)
FirstFits(h, g, n, S, lo, mid, hi) ==
  /\ "ISLAST" \in g.hdr[lo].flags => mid = n
  /\ BtFree(g, lo) => /\ g.foot[mid - 1] = g.hdr[lo] /\ ~FreePred(h, S, lo)
                      /\ mid # hi => ~BtFree(g, mid)
  /\ ~BtFree(g, lo) => /\ g.foot[mid - 1] = CANARY /\ Untouched(g, lo)
                       /\ "PREVFREE" \in g.hdr[lo].flags <=> FreePred(h, S, lo)

SecondFits(g, n, lo, mid, hi) ==
  mid # hi =>
    /\ "ISLAST" \in g.hdr[mid].flags => hi = n
    /\ BtFree(g, mid) => g.foot[hi - 1] = g.hdr[mid]
    /\ ~BtFree(g, mid) => /\ g.foot[hi - 1] = CANARY /\ Untouched(g, mid)
                          /\ "PREVFREE" \in g.hdr[mid].flags <=> BtFree(g, lo)

NextFits(h, g, S, lo, mid, hi) ==
  hi \in S => IF BtFree(h, hi) THEN ~BtFree(g, Last(lo, mid, hi))
              ELSE "PREVFREE" \in g.hdr[hi].flags <=> BtFree(g, Last(lo, mid, hi))

Edit(h, g, n, S, lo, mid, hi) ==
  /\ Recut(h, g, n, S, lo, mid, hi) /\ Edited(h, g, n, S, lo, hi)
  /\ FirstFits(h, g, n, S, lo, mid, hi) /\ SecondFits(g, n, lo, mid, hi)
  /\ NextFits(h, g, S, lo, mid, hi)

LEMMA RecutIn ==
  ASSUME NEW n \in Nat, NEW h \in Words(n), NEW g \in Words(n), NEW S, Cut(h, n, S),
         NEW lo, NEW mid, NEW hi, Recut(h, g, n, S, lo, mid, hi)
  PROVE  \A b : b \in Recuts(S, lo, mid, hi) <=>
                  (b \in S /\ (b < lo \/ b >= hi)) \/ b = lo \/ (b = mid /\ mid # hi)
<1>1. /\ lo \in 0..(n - 1) /\ mid \in (lo + 1)..hi /\ hi \in (lo + 1)..n
  BY RecutNext
<1>2. QED
  BY <1>1 DEF Recuts

LEMMA StillFree ==
  ASSUME NEW n \in Nat, NEW h \in Words(n), NEW g \in Words(n), NEW S, Cut(h, n, S),
         NEW lo, NEW mid, NEW hi, Recut(h, g, n, S, lo, mid, hi), Edited(h, g, n, S, lo, hi)
  PROVE  \A b \in S : b < lo \/ b >= hi => (BtFree(g, b) <=> BtFree(h, b))
<1>1. \A b \in S : b \in 0..(n - 1)
  BY CutType
<1>2. lo \in 0..(n - 1) /\ hi \in (lo + 1)..n
  BY RecutNext
<1>3. ASSUME NEW b \in S, b < lo \/ b > hi PROVE BtFree(g, b) <=> BtFree(h, b)
  BY <1>1, <1>3 DEF Edited, BtFree
<1>4. ASSUME hi \in S PROVE BtFree(g, hi) <=> BtFree(h, hi)
  <2>1. g.hdr[hi].flags \ {"PREVFREE"} = h.hdr[hi].flags \ {"PREVFREE"}
    BY <1>4 DEF Edited
  <2>2. "USED" \in g.hdr[hi].flags <=> "USED" \in h.hdr[hi].flags
    BY <2>1
  <2>3. QED
    BY <2>2 DEF BtFree
<1>5. \A b \in S : b >= hi => b > hi \/ b = hi
  BY <1>1, <1>2
<1>6. QED
  BY <1>3, <1>4, <1>5

LEMMA RecutPreds ==
  ASSUME NEW n \in Nat, NEW h \in Words(n), NEW g \in Words(n), NEW S, Cut(h, n, S),
         NEW lo, NEW mid, NEW hi, Recut(h, g, n, S, lo, mid, hi), Edited(h, g, n, S, lo, hi)
  PROVE  LET R == Recuts(S, lo, mid, hi)
         IN  /\ \A b \in S : b <= lo \/ b > hi => (FreePred(g, R, b) <=> FreePred(h, S, b))
             /\ mid # hi => (FreePred(g, R, mid) <=> BtFree(g, lo))
             /\ FreePred(g, R, hi) <=> BtFree(g, Last(lo, mid, hi))
<1> DEFINE R == Recuts(S, lo, mid, hi)
<1>1. /\ lo \in 0..(n - 1) /\ mid \in (lo + 1)..hi /\ hi \in (lo + 1)..n
      /\ \A b \in S : b < lo => BtNext(g, b) = BtNext(h, b) /\ BtNext(g, b) <= lo
      /\ \A b \in S : b >= hi => BtNext(g, b) = BtNext(h, b) /\ BtNext(g, b) > hi
      /\ BtNext(g, lo) = mid
      /\ mid # hi => BtNext(g, mid) = hi
  BY RecutNext
<1>2. \A b : b \in R <=> (b \in S /\ (b < lo \/ b >= hi)) \/ b = lo \/ (b = mid /\ mid # hi)
  BY RecutIn
<1> HIDE DEF R
<1>3. /\ \A b \in S : b \in 0..(n - 1) /\ BtNext(h, b) \in (b + 1)..n
      /\ lo \in S /\ hi \in S \cup {n}
  BY CutType DEF Recut
<1>4. \A b \in S : b < lo \/ b >= hi => (BtFree(g, b) <=> BtFree(h, b))
  BY StillFree
<1>5. ASSUME NEW b \in S, b <= lo
      PROVE  FreePred(g, R, b) <=> FreePred(h, S, b)
  <2>1. b \in 0..(n - 1)
    BY <1>3
  <2>2. ASSUME NEW p \in R, BtNext(g, p) = b PROVE p \in S /\ p < lo
    <3>1. p # lo /\ ~(p = mid /\ mid # hi)
      BY <1>1, <1>5, <2>1, <2>2
    <3>2. ~(p \in S /\ p >= hi)
      <4>1. SUFFICES ASSUME p \in S, p >= hi PROVE FALSE
        OBVIOUS
      <4>2. BtNext(g, p) > hi
        BY <1>1, <4>1
      <4>3. QED
        BY <1>1, <1>5, <2>1, <2>2, <4>2
    <3>3. QED
      BY <1>2, <3>1, <3>2
  <2>3. ASSUME NEW p \in S, BtNext(h, p) = b PROVE p \in R /\ p < lo
    <3>1. p < lo
      BY <1>1, <1>3, <1>5, <2>1, <2>3
    <3>2. QED
      BY <1>2, <3>1
  <2>4. FreePred(g, R, b) => FreePred(h, S, b)
    BY <1>1, <1>4, <2>2 DEF FreePred
  <2>5. FreePred(h, S, b) => FreePred(g, R, b)
    BY <1>1, <1>4, <2>3 DEF FreePred
  <2>6. QED
    BY <2>4, <2>5
<1>6. ASSUME NEW b \in S, b > hi
      PROVE  FreePred(g, R, b) <=> FreePred(h, S, b)
  <2>1. b \in 0..(n - 1) /\ hi \in S
    <3>1. b \in 0..(n - 1)
      BY <1>3
    <3>2. hi # n
      BY <1>1, <1>6, <3>1
    <3>3. QED
      BY <1>3, <3>1, <3>2
  <2>2. ASSUME NEW p \in R, BtNext(g, p) = b PROVE p \in S /\ p >= hi
    <3>1. p # lo /\ ~(p = mid /\ mid # hi)
      BY <1>1, <1>6, <2>1, <2>2
    <3>2. ~(p \in S /\ p < lo)
      <4>1. SUFFICES ASSUME p \in S, p < lo PROVE FALSE
        OBVIOUS
      <4>2. BtNext(g, p) <= lo
        BY <1>1, <4>1
      <4>3. QED
        BY <1>1, <1>6, <2>1, <2>2, <4>2
    <3>3. QED
      BY <1>2, <3>1, <3>2
  <2>3. ASSUME NEW p \in S, BtNext(h, p) = b PROVE p \in R /\ p >= hi
    <3>1. p >= hi
      <4>1. SUFFICES ASSUME p < hi PROVE FALSE
        BY <1>1, <1>3
      <4>2. BtNext(h, p) <= hi
        BY <2>1, <4>1 DEF Cut
      <4>3. QED
        BY <1>1, <1>6, <2>1, <2>3, <4>2
    <3>2. QED
      BY <1>2, <3>1
  <2>4. FreePred(g, R, b) => FreePred(h, S, b)
    BY <1>1, <1>4, <2>2 DEF FreePred
  <2>5. FreePred(h, S, b) => FreePred(g, R, b)
    BY <1>1, <1>4, <2>3 DEF FreePred
  <2>6. QED
    BY <2>4, <2>5
<1>7. Cut(g, n, R)
  BY RecutCut DEF R
<1>8. ASSUME mid # hi PROVE FreePred(g, R, mid) <=> BtFree(g, lo)
  <2>1. lo \in R /\ BtNext(g, lo) = mid
    BY <1>1, <1>2
  <2>2. \A p \in R : BtNext(g, p) = mid => p = lo
    BY <1>7, <2>1, PredUnique
  <2>3. QED
    BY <2>1, <2>2 DEF FreePred
<1>9. FreePred(g, R, hi) <=> BtFree(g, Last(lo, mid, hi))
  <2> DEFINE q == Last(lo, mid, hi)
  <2>1. q \in R /\ BtNext(g, q) = hi
    BY <1>1, <1>2 DEF Last
  <2> HIDE DEF q
  <2>2. \A p \in R : BtNext(g, p) = hi => p = q
    BY <1>7, <2>1, PredUnique
  <2>3. FreePred(g, R, hi) <=> BtFree(g, q)
    BY <2>1, <2>2 DEF FreePred
  <2>4. QED
    BY <2>3 DEF q
<1>10. \A b \in S : b <= lo \/ b > hi => (FreePred(g, R, b) <=> FreePred(h, S, b))
  BY <1>5, <1>6
<1>11. QED
  BY <1>8, <1>9, <1>10 DEF R

(* Only at its start does a block hold the start of a block.                *)
LEMMA NoneInside ==
  ASSUME NEW n \in Nat, NEW h \in Words(n), NEW S, Cut(h, n, S),
         NEW b \in S, ~BtFree(h, b), NEW u \in b..(BtNext(h, b) - 1)
  PROVE  u \notin FreeOf(h, S) /\ u \in 0..(n - 1)
<1>1. b \in 0..(n - 1) /\ BtNext(h, b) \in (b + 1)..n
  BY CutType
<1>2. u \in 0..(n - 1)
  BY <1>1
<1>3. ASSUME u \in S PROVE u = b
  <2>1. b < u => BtNext(h, b) <= u
    BY <1>3 DEF Cut
  <2>2. QED
    BY <1>1, <1>2, <2>1
<1>4. QED
  BY <1>2, <1>3 DEF FreeOf

(* A used block outside is as it was.                                       *)
LEMMA StillUntouched ==
  ASSUME NEW n \in Nat, NEW h \in Words(n), NEW g \in Words(n), NEW S, Cut(h, n, S),
         NEW lo, NEW mid, NEW hi, Recut(h, g, n, S, lo, mid, hi), Edited(h, g, n, S, lo, hi),
         NEW b \in S, b < lo \/ b >= hi, ~BtFree(h, b), Untouched(h, b)
  PROVE  Untouched(g, b)
<1>1. b \in 0..(n - 1) /\ BtNext(h, b) \in (b + 1)..n
  BY CutType
<1>2. /\ lo \in 0..(n - 1) /\ hi \in (lo + 1)..n /\ BtNext(g, b) = BtNext(h, b)
      /\ b < lo => BtNext(h, b) <= lo
  BY RecutNext
<1>3. ASSUME NEW u \in b..(BtNext(h, b) - 1)
      PROVE  /\ g.prev[u] = DATAPTR /\ g.next[u] = DATAPTR
             /\ u > b => g.hdr[u] = DATA /\ g.foot[u - 1] = DATA
  <2>1. u \notin FreeOf(h, S) /\ u \in 0..(n - 1)
    BY NoneInside
  <2>2. u < lo \/ u >= hi
    BY <1>1, <1>2, <2>1
  <2>3. g.prev[u] = h.prev[u] /\ g.next[u] = h.next[u]
    BY <2>1, <2>2 DEF Edited
  <2>4. /\ h.prev[u] = DATAPTR /\ h.next[u] = DATAPTR
        /\ u > b => h.hdr[u] = DATA /\ h.foot[u - 1] = DATA
    BY DEF Untouched
  <2>5. ASSUME u > b PROVE g.hdr[u] = h.hdr[u] /\ g.foot[u - 1] = h.foot[u - 1]
    <3>1. u - 1 \in 0..(n - 1) /\ (u < lo \/ u > hi) /\ (u - 1 < lo \/ u - 1 >= hi)
      BY <1>1, <1>2, <2>1, <2>2, <2>5
    <3>2. QED
      BY <2>1, <3>1 DEF Edited
  <2>6. QED
    BY <2>3, <2>4, <2>5
<1>4. QED
  BY <1>2, <1>3 DEF Untouched

LEMMA RecutFits ==
  ASSUME NEW n \in Nat, NEW h \in Words(n), NEW g \in Words(n), NEW S, Cut(h, n, S),
         \A b \in S : Fits(h, n, S, b),
         NEW lo, NEW mid, NEW hi, Edit(h, g, n, S, lo, mid, hi)
  PROVE  \A b \in Recuts(S, lo, mid, hi) : Fits(g, n, Recuts(S, lo, mid, hi), b)
<1> DEFINE R == Recuts(S, lo, mid, hi)
<1>1. Recut(h, g, n, S, lo, mid, hi) /\ Edited(h, g, n, S, lo, hi)
  BY DEF Edit
<1>2. /\ lo \in 0..(n - 1) /\ mid \in (lo + 1)..hi /\ hi \in (lo + 1)..n
      /\ \A b \in S : b < lo => /\ BtNext(g, b) = BtNext(h, b) /\ BtNext(g, b) <= lo
                                /\ BtNext(g, b) \in S
      /\ \A b \in S : b >= hi => BtNext(g, b) = BtNext(h, b) /\ BtNext(g, b) > hi
      /\ BtNext(g, lo) = mid
      /\ mid # hi => BtNext(g, mid) = hi
  BY <1>1, RecutNext
<1>3. \A b : b \in R <=> (b \in S /\ (b < lo \/ b >= hi)) \/ b = lo \/ (b = mid /\ mid # hi)
  BY <1>1, RecutIn
<1>4. /\ \A b \in S : b <= lo \/ b > hi => (FreePred(g, R, b) <=> FreePred(h, S, b))
      /\ mid # hi => (FreePred(g, R, mid) <=> BtFree(g, lo))
      /\ FreePred(g, R, hi) <=> BtFree(g, Last(lo, mid, hi))
  BY <1>1, RecutPreds
<1> HIDE DEF R
<1>5. \A b \in S : b < lo \/ b >= hi => (BtFree(g, b) <=> BtFree(h, b))
  BY <1>1, StillFree
<1>6. /\ \A b \in S : b \in 0..(n - 1) /\ BtNext(h, b) \in (b + 1)..n
                      /\ BtNext(h, b) \in S \cup {n}
      /\ lo \in S /\ hi \in S \cup {n}
  BY <1>1, CutType DEF Recut, Cut
<1>7. ASSUME NEW b \in S, b < lo PROVE Fits(g, n, R, b)
  <2> DEFINE next == BtNext(h, b)
  <2>1. /\ BtNext(g, b) = next /\ next \in (b + 1)..lo /\ next \in S /\ b \in 0..(n - 1)
        /\ (BtFree(g, b) <=> BtFree(h, b)) /\ (FreePred(g, R, b) <=> FreePred(h, S, b))
    BY <1>2, <1>4, <1>5, <1>6, <1>7
  <2>2. g.hdr[b] = h.hdr[b] /\ g.foot[next - 1] = h.foot[next - 1]
    <3>1. next - 1 \in 0..(n - 1) /\ next - 1 < lo
      BY <1>2, <2>1
    <3>2. QED
      BY <1>1, <1>7, <2>1, <3>1 DEF Edited
  <2>3. Fits(h, n, S, b)
    OBVIOUS
  <2>4. ASSUME BtFree(g, b), next \in R PROVE ~BtFree(g, next)
    <3>1. CASE next < lo
      BY <1>5, <2>1, <2>3, <2>4, <3>1 DEF Fits
    <3>2. CASE next = lo
      <4>1. FreePred(h, S, lo)
        BY <2>1, <2>4, <3>2 DEF FreePred
      <4>2. QED
        BY <3>2, <4>1 DEF Edit, FirstFits
    <3>3. QED
      BY <1>2, <2>1, <3>1, <3>2
  <2>5. ~BtFree(g, b) => Untouched(g, b)
    BY <1>1, <1>7, <2>1, <2>3, StillUntouched DEF Fits
  <2>6. BtHasCanary(g, b) <=> BtHasCanary(h, b)
    BY <2>1, <2>2 DEF BtHasCanary
  <2> HIDE DEF next
  <2>7. next = BtNext(h, b)
    BY DEF next
  <2>8. QED
    BY <2>1, <2>2, <2>3, <2>4, <2>5, <2>6, <2>7 DEF Fits
<1>8. ASSUME NEW b \in S, b > hi PROVE Fits(g, n, R, b)
  <2> DEFINE next == BtNext(h, b)
  <2>1. b >= hi /\ b \in 0..(n - 1)
    BY <1>2, <1>6, <1>8
  <2>2. /\ BtNext(g, b) = next /\ next \in (b + 1)..n /\ next \in S \cup {n}
        /\ (BtFree(g, b) <=> BtFree(h, b)) /\ (FreePred(g, R, b) <=> FreePred(h, S, b))
    BY <1>2, <1>4, <1>5, <1>6, <1>8, <2>1
  <2>3. g.hdr[b] = h.hdr[b] /\ g.foot[next - 1] = h.foot[next - 1]
    <3>1. next - 1 \in 0..(n - 1) /\ next - 1 >= hi
      BY <1>2, <2>1, <2>2
    <3>2. QED
      BY <1>1, <1>8, <2>1, <3>1 DEF Edited
  <2>4. Fits(h, n, S, b)
    OBVIOUS
  <2>5. ASSUME BtFree(g, b), next \in R PROVE ~BtFree(g, next)
    <3>1. next >= hi
      BY <1>2, <2>1, <2>2
    <3>2. next \in S
      <4>1. next # lo /\ ~(next = mid /\ mid # hi)
        BY <1>2, <2>1, <2>2
      <4>2. QED
        BY <1>3, <2>5, <4>1
    <3>3. QED
      BY <1>5, <2>2, <2>4, <2>5, <3>1, <3>2 DEF Fits
  <2>6. ~BtFree(g, b) => Untouched(g, b)
    BY <1>1, <2>1, <2>2, <2>4, StillUntouched DEF Fits
  <2>7. BtHasCanary(g, b) <=> BtHasCanary(h, b)
    BY <2>2, <2>3 DEF BtHasCanary
  <2> HIDE DEF next
  <2>8. next = BtNext(h, b)
    BY DEF next
  <2>9. QED
    BY <2>2, <2>3, <2>4, <2>5, <2>6, <2>7, <2>8 DEF Fits
<1>9. ASSUME hi \in S PROVE Fits(g, n, R, hi)
  <2> DEFINE next == BtNext(h, hi)
  <2>1. hi >= hi /\ hi \in 0..(n - 1)
    BY <1>2, <1>6, <1>9
  <2>2. /\ BtNext(g, hi) = next /\ next \in (hi + 1)..n /\ next \in S \cup {n}
        /\ (BtFree(g, hi) <=> BtFree(h, hi))
    BY <1>2, <1>5, <1>6, <1>9, <2>1
  <2>3. g.foot[next - 1] = h.foot[next - 1]
    <3>1. next - 1 \in 0..(n - 1) /\ next - 1 >= hi
      BY <1>2, <2>1, <2>2
    <3>2. QED
      BY <1>1, <3>1 DEF Edited
  <2>4. /\ g.hdr[hi].flags \ {"PREVFREE"} = h.hdr[hi].flags \ {"PREVFREE"}
        /\ BtFree(h, hi) => g.hdr[hi] = h.hdr[hi]
    BY <1>1, <1>9 DEF Edited
  <2>5. Fits(h, n, S, hi)
    BY <1>9
  <2>6. "ISLAST" \in g.hdr[hi].flags => "ISLAST" \in h.hdr[hi].flags
    BY <2>4
  <2>7. ASSUME BtFree(g, hi), next \in R PROVE ~BtFree(g, next)
    <3>1. next >= hi
      BY <1>2, <2>1, <2>2
    <3>2. next \in S
      <4>1. next # lo /\ ~(next = mid /\ mid # hi)
        BY <1>2, <2>1, <2>2
      <4>2. QED
        BY <1>3, <2>7, <4>1
    <3>3. QED
      BY <1>5, <2>2, <2>5, <2>7, <3>1, <3>2 DEF Fits
  <2>8. ~BtFree(g, hi) => Untouched(g, hi)
    BY <1>1, <1>9, <2>1, <2>2, <2>5, StillUntouched DEF Fits
  <2>9. BtHasCanary(g, hi) <=> BtHasCanary(h, hi)
    BY <2>2, <2>3 DEF BtHasCanary
  <2>10. ~BtFree(g, hi) => ("PREVFREE" \in g.hdr[hi].flags <=> FreePred(g, R, hi))
    BY <1>4, <1>9, <2>2 DEF Edit, NextFits
  <2> HIDE DEF next
  <2>11. next = BtNext(h, hi)
    BY DEF next
  <2>12. QED
    BY <2>2, <2>3, <2>4, <2>5, <2>6, <2>7, <2>8, <2>9, <2>10, <2>11 DEF Fits
<1>10. Fits(g, n, R, lo)
  <2>1. FirstFits(h, g, n, S, lo, mid, hi) /\ NextFits(h, g, S, lo, mid, hi)
    BY DEF Edit
  <2>2. BtNext(g, lo) = mid /\ (FreePred(g, R, lo) <=> FreePred(h, S, lo))
    BY <1>2, <1>4, <1>6
  <2>3. BtHasCanary(g, lo) <=> g.foot[mid - 1] = CANARY
    BY <2>2 DEF BtHasCanary
  <2>4. ASSUME BtFree(g, lo), mid \in R PROVE ~BtFree(g, mid)
    <3>1. CASE mid # hi
      BY <2>1, <2>4, <3>1 DEF FirstFits
    <3>2. CASE mid = hi
      <4>1. hi \in S
        BY <1>2, <1>3, <2>4, <3>2
      <4>2. ~BtFree(h, hi)
        BY <2>1, <2>4, <3>2, <4>1 DEF NextFits, Last
      <4>3. QED
        BY <1>2, <1>5, <3>2, <4>1, <4>2
    <3>3. QED
      BY <3>1, <3>2
  <2>5. QED
    BY <2>1, <2>2, <2>3, <2>4 DEF FirstFits, Fits
<1>11. ASSUME mid # hi PROVE Fits(g, n, R, mid)
  <2>1. SecondFits(g, n, lo, mid, hi) /\ NextFits(h, g, S, lo, mid, hi)
    BY DEF Edit
  <2>2. BtNext(g, mid) = hi /\ (FreePred(g, R, mid) <=> BtFree(g, lo))
    BY <1>2, <1>4, <1>11
  <2>3. BtHasCanary(g, mid) <=> g.foot[hi - 1] = CANARY
    BY <2>2 DEF BtHasCanary
  <2>4. ASSUME BtFree(g, mid), hi \in R PROVE ~BtFree(g, hi)
    <3>1. hi \in S
      BY <1>2, <1>3, <1>11, <2>4
    <3>2. ~BtFree(h, hi)
      BY <1>11, <2>1, <2>4, <3>1 DEF NextFits, Last
    <3>3. QED
      BY <1>2, <1>5, <3>1, <3>2
  <2>5. QED
    BY <1>11, <2>1, <2>2, <2>3, <2>4 DEF SecondFits, Fits
<1>12. ASSUME NEW b \in R PROVE Fits(g, n, R, b)
  <2>1. b \in S /\ b >= hi => b > hi \/ b = hi
    BY <1>2, <1>6
  <2>2. QED
    BY <1>3, <1>7, <1>8, <1>9, <1>10, <1>11, <2>1
<1>13. QED
  BY <1>12 DEF R

-----------------------------------------------------------------------------
(* The free list.                                                           *)
LEMMA InsertIs ==
  ASSUME NEW n \in Nat, NEW h \in Words(n), NEW b \in 0..(n - 1)
  PROVE  LET g == ArenaFreeInsert(h, b)
             last == h.prev[HEAD]
         IN  /\ g \in Words(n) /\ g.hdr = h.hdr /\ g.foot = h.foot
             /\ g.totalFree = h.totalFree /\ g.wild = h.wild
             /\ \A u \in -1..n : /\ g.next[u] = IF u = last THEN b ELSE
                                                IF u = b THEN HEAD ELSE h.next[u]
                                 /\ g.prev[u] = IF u = HEAD THEN b ELSE
                                                IF u = b THEN last ELSE h.prev[u]
<1> DEFINE last == h.prev[HEAD]
           g == ArenaFreeInsert(h, b)
           next == [[h.next EXCEPT ![b] = HEAD] EXCEPT ![last] = b]
           prev == [[h.prev EXCEPT ![b] = last] EXCEPT ![HEAD] = b]
<1>1. /\ h \in [hdr : [0..n -> [size : Int, flags : SUBSET Flags]],
                foot : [0..(n - 1) -> [size : Int, flags : SUBSET Flags]],
                prev : [-1..n -> -2..n], next : [-1..n -> -2..n],
                totalFree : Int, wild : BOOLEAN]
  BY DEF Words
<1>2. g = [h EXCEPT !.next = next, !.prev = prev]
  BY <1>1 DEF ArenaFreeInsert
<1>3. last \in -2..n /\ HEAD \in -1..n /\ HEAD \in -2..n /\ b \in -1..n /\ b \in -2..n
  BY <1>1 DEF HEAD
<1>4. next \in [-1..n -> -2..n] /\ prev \in [-1..n -> -2..n]
  BY <1>1, <1>3
<1>5. \A u \in -1..n : /\ next[u] = IF u = last THEN b ELSE IF u = b THEN HEAD ELSE h.next[u]
                       /\ prev[u] = IF u = HEAD THEN b ELSE IF u = b THEN last ELSE h.prev[u]
  BY <1>1, <1>3
<1> HIDE DEF next, prev, g
<1>6. /\ g.next = next /\ g.prev = prev /\ g.hdr = h.hdr /\ g.foot = h.foot
      /\ g.totalFree = h.totalFree /\ g.wild = h.wild
  BY <1>1, <1>2
<1>7. g \in Words(n)
  BY <1>1, <1>2, <1>4 DEF Words
<1>8. QED
  BY <1>5, <1>6, <1>7 DEF g

LEMMA RemoveIs ==
  ASSUME NEW n \in Nat, NEW h \in Words(n), NEW b \in 0..(n - 1),
         h.next[b] \in -1..n, h.prev[b] \in -1..n
  PROVE  LET g == FreeRemove(h, b)
         IN  /\ g \in Words(n) /\ g.hdr = h.hdr /\ g.foot = h.foot
             /\ g.totalFree = h.totalFree /\ g.wild = h.wild
             /\ \A u \in -1..n : /\ g.next[u] = IF u = h.prev[b] THEN h.next[b] ELSE h.next[u]
                                 /\ g.prev[u] = IF u = h.next[b] THEN h.prev[b] ELSE h.prev[u]
<1> DEFINE g == FreeRemove(h, b)
           next == [h.next EXCEPT ![h.prev[b]] = h.next[b]]
           prev == [h.prev EXCEPT ![h.next[b]] = h.prev[b]]
<1>1. /\ h \in [hdr : [0..n -> [size : Int, flags : SUBSET Flags]],
                foot : [0..(n - 1) -> [size : Int, flags : SUBSET Flags]],
                prev : [-1..n -> -2..n], next : [-1..n -> -2..n],
                totalFree : Int, wild : BOOLEAN]
  BY DEF Words
<1>2. g = [h EXCEPT !.next = next, !.prev = prev]
  BY <1>1 DEF FreeRemove
<1>3. h.next[b] \in -2..n /\ h.prev[b] \in -2..n
  <2>1. b \in -1..n
    OBVIOUS
  <2>2. QED
    BY <1>1, <2>1
<1>4. next \in [-1..n -> -2..n] /\ prev \in [-1..n -> -2..n]
  BY <1>1, <1>3
<1>5. \A u \in -1..n : /\ next[u] = IF u = h.prev[b] THEN h.next[b] ELSE h.next[u]
                       /\ prev[u] = IF u = h.next[b] THEN h.prev[b] ELSE h.prev[u]
  BY <1>1
<1> HIDE DEF next, prev, g
<1>6. /\ g.next = next /\ g.prev = prev /\ g.hdr = h.hdr /\ g.foot = h.foot
      /\ g.totalFree = h.totalFree /\ g.wild = h.wild
  BY <1>1, <1>2
<1>7. g \in Words(n)
  BY <1>1, <1>2, <1>4 DEF Words
<1>8. QED
  BY <1>5, <1>6, <1>7 DEF g

(* Only the nodes on the list matter to it.                                 *)
LEMMA SameList ==
  ASSUME NEW n \in Nat, NEW h \in Words(n), NEW g \in Words(n), NEW F, Listed(h, n, F),
         \A u \in F \cup {HEAD} : g.next[u] = h.next[u] /\ g.prev[u] = h.prev[u]
  PROVE  Listed(g, n, F)
<1>1. PICK pos \in [0..(n - 1) -> Nat] : Linked(h, F, pos)
  BY DEF Listed
<1>2. Linked(g, F, pos)
  BY <1>1 DEF Linked
<1>3. QED
  BY <1>2 DEF Listed

LEMMA InsertListed ==
  ASSUME NEW n \in Nat, NEW h \in Words(n), NEW F \in SUBSET (0..(n - 1)), Listed(h, n, F),
         NEW b \in 0..(n - 1), b \notin F
  PROVE  Listed(ArenaFreeInsert(h, b), n, F \cup {b})
<1> DEFINE last == h.prev[HEAD]
           g == ArenaFreeInsert(h, b)
           G == F \cup {b}
<1>1. PICK pos \in [0..(n - 1) -> Nat] : Linked(h, F, pos)
  BY DEF Listed
<1> DEFINE at == IF last = HEAD THEN 0 ELSE pos[last] + 1
           new == [pos EXCEPT ![b] = at]
<1>2. /\ b # HEAD /\ HEAD \notin F /\ \A u \in F \cup {HEAD} : u \in -1..n
  <2>1. \A u \in F : u \in 0..(n - 1)
    OBVIOUS
  <2>2. QED
    BY <2>1 DEF HEAD
<1>3. \A u \in F \cup {HEAD} : /\ h.next[u] \in F \cup {HEAD} /\ h.prev[h.next[u]] = u
                               /\ h.prev[u] \in F \cup {HEAD} /\ h.next[h.prev[u]] = u
  BY <1>1 DEF Linked
<1>4. last \in F \cup {HEAD} /\ h.next[last] = HEAD /\ last # b
  BY <1>2, <1>3
<1>5. \A u \in G \cup {HEAD} : /\ g.next[u] = IF u = last THEN b ELSE
                                              IF u = b THEN HEAD ELSE h.next[u]
                               /\ g.prev[u] = IF u = HEAD THEN b ELSE
                                              IF u = b THEN last ELSE h.prev[u]
  <2>1. b \in -1..n
    OBVIOUS
  <2>2. \A u \in G \cup {HEAD} : u \in -1..n
    BY <1>2, <2>1
  <2>3. \A u \in -1..n : /\ g.next[u] = IF u = last THEN b ELSE
                                         IF u = b THEN HEAD ELSE h.next[u]
                         /\ g.prev[u] = IF u = HEAD THEN b ELSE
                                         IF u = b THEN last ELSE h.prev[u]
    BY InsertIs
  <2> HIDE DEF last, g, G
  <2>4. QED
    BY <2>2, <2>3
<1> HIDE DEF last, g
<1>6. new \in [0..(n - 1) -> Nat] /\ new[b] = at /\ \A u \in F : new[u] = pos[u]
  <2>1. at \in Nat
    <3>1. last # HEAD => pos[last] \in Nat
      BY <1>4
    <3>2. QED
      BY <3>1
  <2> HIDE DEF at
  <2>2. QED
    BY <2>1
<1> HIDE DEF new
<1>7. ASSUME NEW u \in G \cup {HEAD}
      PROVE  /\ g.next[u] \in G \cup {HEAD} /\ g.prev[g.next[u]] = u
             /\ g.prev[u] \in G \cup {HEAD} /\ g.next[g.prev[u]] = u
  <2>1. CASE u = b
    BY <1>2, <1>3, <1>4, <1>5, <2>1
  <2>2. CASE u = last
    <3>1. g.next[u] = b /\ g.prev[b] = last
      BY <1>2, <1>5, <2>2
    <3>2. CASE u = HEAD
      BY <1>2, <1>5, <2>2, <3>1, <3>2
    <3>3. CASE u # HEAD
      <4>1. g.prev[u] = h.prev[u] /\ h.prev[u] \in F \cup {HEAD} /\ h.next[h.prev[u]] = u
        BY <1>3, <1>4, <1>5, <2>2, <3>3
      <4>2. h.prev[u] # last /\ h.prev[u] # b
        BY <1>2, <1>4, <3>3, <4>1
      <4>3. QED
        BY <1>5, <2>2, <3>1, <4>1, <4>2
    <3>4. QED
      BY <3>2, <3>3
  <2>3. CASE u # b /\ u # last
    <3>1. /\ g.next[u] = h.next[u] /\ h.next[u] \in F \cup {HEAD} /\ h.prev[h.next[u]] = u
          /\ h.next[u] # b
      BY <1>2, <1>3, <1>5, <2>3
    <3>2. h.next[u] # HEAD
      BY <2>3, <3>1 DEF last
    <3>3. g.prev[h.next[u]] = u
      BY <1>5, <3>1, <3>2
    <3>4. g.prev[u] \in G \cup {HEAD} /\ g.next[g.prev[u]] = u
      <4>1. CASE u = HEAD
        BY <1>2, <1>4, <1>5, <2>3, <4>1
      <4>2. CASE u # HEAD
        <5>1. g.prev[u] = h.prev[u] /\ h.prev[u] \in F \cup {HEAD} /\ h.next[h.prev[u]] = u
          BY <1>3, <1>5, <2>3, <4>2
        <5>2. h.prev[u] # last /\ h.prev[u] # b
          BY <1>2, <1>4, <4>2, <5>1
        <5>3. QED
          BY <1>5, <5>1, <5>2
      <4>3. QED
        BY <4>1, <4>2
    <3>5. QED
      BY <3>1, <3>3, <3>4
  <2>4. QED
    BY <2>1, <2>2, <2>3
<1>8. ASSUME NEW u \in G, g.next[u] # HEAD PROVE new[u] < new[g.next[u]]
  <2>1. u # b
    BY <1>2, <1>4, <1>5, <1>8
  <2>2. u \in F /\ pos[u] \in Nat
    BY <2>1
  <2>3. CASE u = last
    <3>1. g.next[u] = b /\ new[b] = pos[u] + 1 /\ new[u] = pos[u]
      BY <1>2, <1>5, <1>6, <2>2, <2>3
    <3>2. QED
      BY <2>2, <3>1
  <2>4. CASE u # last
    <3>1. g.next[u] = h.next[u] /\ h.next[u] \in F
      BY <1>2, <1>3, <1>5, <1>8, <2>1, <2>2, <2>4
    <3>2. pos[u] < pos[h.next[u]]
      BY <1>1, <1>2, <2>2, <3>1 DEF Linked
    <3>3. QED
      BY <1>6, <2>2, <3>1, <3>2
  <2>5. QED
    BY <2>3, <2>4
<1>9. Linked(g, G, new)
  BY <1>7, <1>8 DEF Linked
<1>10. QED
  BY <1>6, <1>9 DEF Listed, g

LEMMA RemoveListed ==
  ASSUME NEW n \in Nat, NEW h \in Words(n), NEW F \in SUBSET (0..(n - 1)), Listed(h, n, F),
         NEW b \in F
  PROVE  /\ Listed(FreeRemove(h, b), n, F \ {b})
         /\ h.next[b] \in -1..n /\ h.prev[b] \in -1..n
         /\ h.next[b] \in F \cup {HEAD} /\ h.prev[b] \in F \cup {HEAD}
<1> DEFINE p == h.prev[b]
           q == h.next[b]
           g == FreeRemove(h, b)
           G == F \ {b}
<1>1. PICK pos \in [0..(n - 1) -> Nat] : Linked(h, F, pos)
  BY DEF Listed
<1>2. /\ b # HEAD /\ HEAD \notin F /\ b \in 0..(n - 1) /\ \A u \in F \cup {HEAD} : u \in -1..n
  <2>1. \A u \in F : u \in 0..(n - 1)
    OBVIOUS
  <2>2. QED
    BY <2>1 DEF HEAD
<1>3. \A u \in F \cup {HEAD} : /\ h.next[u] \in F \cup {HEAD} /\ h.prev[h.next[u]] = u
                               /\ h.prev[u] \in F \cup {HEAD} /\ h.next[h.prev[u]] = u
  BY <1>1 DEF Linked
<1>4. \A u \in F : h.next[u] # HEAD => pos[u] < pos[h.next[u]]
  BY <1>1, <1>2 DEF Linked
<1>5. p \in F \cup {HEAD} /\ q \in F \cup {HEAD} /\ p \in -1..n /\ q \in -1..n
  BY <1>2, <1>3
<1>6. q # b /\ p # b
  <2>1. pos[b] \in Nat
    BY <1>2
  <2>2. q # b
    BY <1>2, <1>4, <2>1
  <2>3. QED
    BY <1>3, <2>2
<1>7. \A u \in F \cup {HEAD} : /\ g.next[u] = IF u = p THEN q ELSE h.next[u]
                               /\ g.prev[u] = IF u = q THEN p ELSE h.prev[u]
  BY <1>2, <1>5, RemoveIs
<1> HIDE DEF g
<1>8. ASSUME NEW u \in G \cup {HEAD}
      PROVE  /\ g.next[u] \in G \cup {HEAD} /\ g.prev[g.next[u]] = u
             /\ g.prev[u] \in G \cup {HEAD} /\ g.next[g.prev[u]] = u
  <2>1. g.next[u] \in G \cup {HEAD} /\ g.prev[g.next[u]] = u
    <3>1. CASE u = p
      BY <1>3, <1>5, <1>6, <1>7, <3>1
    <3>2. CASE u # p
      <4>1. h.next[u] \in F \cup {HEAD} /\ h.prev[h.next[u]] = u /\ u \in F \cup {HEAD} /\ u # b
        BY <1>2, <1>3
      <4>2. h.next[u] # b /\ h.next[u] # q
        BY <1>3, <3>2, <4>1
      <4>3. g.next[u] = h.next[u] /\ g.prev[h.next[u]] = h.prev[h.next[u]]
        BY <1>7, <3>2, <4>1, <4>2
      <4>4. QED
        BY <4>1, <4>2, <4>3
    <3>3. QED
      BY <3>1, <3>2
  <2>2. g.prev[u] \in G \cup {HEAD} /\ g.next[g.prev[u]] = u
    <3>1. CASE u = q
      BY <1>3, <1>5, <1>6, <1>7, <3>1
    <3>2. CASE u # q
      <4>1. h.prev[u] \in F \cup {HEAD} /\ h.next[h.prev[u]] = u /\ u \in F \cup {HEAD} /\ u # b
        BY <1>2, <1>3
      <4>2. h.prev[u] # b /\ h.prev[u] # p
        BY <1>3, <3>2, <4>1
      <4>3. g.prev[u] = h.prev[u] /\ g.next[h.prev[u]] = h.next[h.prev[u]]
        BY <1>7, <3>2, <4>1, <4>2
      <4>4. QED
        BY <4>1, <4>2, <4>3
    <3>3. QED
      BY <3>1, <3>2
  <2>3. QED
    BY <2>1, <2>2
<1>9. ASSUME NEW u \in G, g.next[u] # HEAD PROVE pos[u] < pos[g.next[u]]
  <2>1. CASE u = p
    <3>1. g.next[u] = q /\ h.next[u] = b /\ u \in F /\ q \in F
      BY <1>3, <1>5, <1>7, <1>9, <2>1
    <3>2. pos[u] < pos[b] /\ pos[b] < pos[q]
      BY <1>2, <1>4, <3>1
    <3>3. pos[u] \in Nat /\ pos[b] \in Nat /\ pos[q] \in Nat
      BY <3>1
    <3>4. QED
      BY <3>1, <3>2, <3>3
  <2>2. CASE u # p
    BY <1>4, <1>7, <1>9, <2>2
  <2>3. QED
    BY <2>1, <2>2
<1>10. Linked(g, G, pos)
  BY <1>8, <1>9 DEF Linked
<1>11. QED
  BY <1>5, <1>10 DEF Listed, g

(* A walk along the list meets each block of it once.                       *)
LEMMA ListWalk ==
  ASSUME NEW n \in Nat, n > 0, NEW h \in Words(n), NEW F \in SUBSET (0..(n - 1)),
         Listed(h, n, F)
  PROVE  /\ FreeList(h) \in [0..(n - 1) -> F \cup {HEAD}]
         /\ \A j, k \in 0..(n - 1) : FreeList(h)[j] = FreeList(h)[k] =>
              j = k \/ FreeList(h)[j] = HEAD
         /\ \A b \in F : \E k \in 0..(n - 1) : FreeList(h)[k] = b
<1> DEFINE at == FreeList(h)
<1>1. PICK pos \in [0..(n - 1) -> Nat] : Linked(h, F, pos)
  BY DEF Listed
<1>2. HEAD \notin F /\ HEAD \notin 0..(n - 1) /\ \A u \in F : u \in 0..(n - 1) /\ pos[u] \in Nat
  BY DEF HEAD
<1>3. /\ at \in [0..(n - 1) -> Int] /\ at[0] = h.next[HEAD]
      /\ \A k \in 1..(n - 1) : at[k] = IF at[k - 1] \in 0..(n - 1)
                                       THEN h.next[at[k - 1]] ELSE at[k - 1]
  BY FreeListIs
<1>4. /\ \A u \in F \cup {HEAD} : /\ h.next[u] \in F \cup {HEAD}
                                  /\ h.prev[u] \in F \cup {HEAD} /\ h.next[h.prev[u]] = u
      /\ \A u \in F : h.next[u] # HEAD => pos[u] < pos[h.next[u]]
  BY <1>1, <1>2 DEF Linked
<1> HIDE DEF at
<1>5. \A k \in 0..(n - 1) :
        /\ at[k] \in F \cup {HEAD}
        /\ \A j \in 0..(n - 1) : j < k /\ at[k] \in F => at[j] \in F /\ pos[at[j]] < pos[at[k]]
  <2> DEFINE P(k) == /\ at[k] \in F \cup {HEAD}
                     /\ \A j \in 0..(n - 1) : j < k /\ at[k] \in F =>
                          at[j] \in F /\ pos[at[j]] < pos[at[k]]
             K == {k \in Nat : k <= n - 1 => P(k)}
  <2>1. 0 \in K
    <3>1. at[0] \in F \cup {HEAD}
      BY <1>3, <1>4
    <3>2. \A j \in 0..(n - 1) : ~(j < 0)
      OBVIOUS
    <3>3. P(0)
      BY <3>1, <3>2
    <3> HIDE DEF P
    <3>4. QED
      BY <3>3
  <2>2. ASSUME NEW k \in K PROVE k + 1 \in K
    <3>1. k \in Nat /\ k + 1 \in Nat /\ (k + 1) - 1 = k
      OBVIOUS
    <3>2. SUFFICES ASSUME k + 1 <= n - 1 PROVE P(k + 1)
      BY <3>1
    <3>3. k + 1 \in 1..(n - 1) /\ k \in 0..(n - 1)
      BY <3>1, <3>2
    <3>4. P(k)
      BY <3>2, <3>3
    <3> DEFINE x == at[k]
               y == at[k + 1]
    <3>5. y = IF x \in 0..(n - 1) THEN h.next[x] ELSE x
      BY <1>3, <3>1, <3>3
    <3>6. x \in F \cup {HEAD}
      BY <3>4
    <3>7. y \in F \cup {HEAD} /\ (y \in F => x \in F /\ pos[x] < pos[y])
      <4> HIDE DEF x, y
      <4>1. CASE x = HEAD
        BY <1>2, <3>5, <4>1
      <4>2. CASE x \in F
        BY <1>2, <1>4, <3>5, <4>2
      <4>3. QED
        BY <3>6, <4>1, <4>2
    <3>8. ASSUME NEW j \in 0..(n - 1), j < k + 1, y \in F
          PROVE  at[j] \in F /\ pos[at[j]] < pos[y]
      <4>1. CASE j = k
        BY <3>7, <3>8, <4>1
      <4>2. CASE j # k
        <5>1. j < k
          BY <3>1, <3>8, <4>2
        <5>2. at[j] \in F /\ pos[at[j]] < pos[x]
          BY <3>4, <3>7, <3>8, <5>1
        <5> HIDE DEF x, y
        <5>3. pos[at[j]] \in Nat /\ pos[x] \in Nat /\ pos[y] \in Nat
          BY <1>2, <3>7, <3>8, <5>2
        <5>4. QED
          BY <3>7, <3>8, <5>2, <5>3
      <4>3. QED
        BY <4>1, <4>2
    <3>9. QED
      BY <3>7, <3>8
  <2>3. K = Nat
    <3> HIDE DEF K
    <3>1. K \in SUBSET Nat
      BY DEF K
    <3>2. QED
      BY <2>1, <2>2, <3>1, NatInduct
  <2>4. ASSUME NEW k \in 0..(n - 1) PROVE P(k)
    <3>1. k \in K /\ k <= n - 1
      BY <2>3
    <3> HIDE DEF P
    <3>2. QED
      BY <3>1
  <2>5. QED
    BY <2>4
<1>6. ASSUME NEW j \in 0..(n - 1), NEW k \in 0..(n - 1), at[j] = at[k]
      PROVE  j = k \/ at[j] = HEAD
  <2>1. SUFFICES ASSUME at[j] \in F, j # k PROVE FALSE
    BY <1>5
  <2>2. pos[at[j]] \in Nat
    BY <1>2, <2>1
  <2>3. pos[at[j]] < pos[at[k]] \/ pos[at[k]] < pos[at[j]]
    BY <1>5, <1>6, <2>1
  <2>4. QED
    BY <1>6, <2>2, <2>3
<1>7. ASSUME NEW b \in F PROVE \E k \in 0..(n - 1) : at[k] = b
  <2> DEFINE T == {c \in F : \A k \in 0..(n - 1) : at[k] # c}
             P == {pos[c] : c \in T}
  <2>1. SUFFICES ASSUME T # {} PROVE FALSE
    OBVIOUS
  <2>2. \E m \in P : \A k \in P : m <= k
    <3>1. P \in SUBSET Nat /\ P # {}
      BY <1>2, <2>1, ZenonT(40)
    <3> HIDE DEF P
    <3>2. QED
      BY <3>1, NatMin
  <2>3. PICK c \in T : \A d \in T : pos[c] <= pos[d]
    BY <2>2
  <2>4. c \in F /\ \A k \in 0..(n - 1) : at[k] # c
    OBVIOUS
  <2> DEFINE p == h.prev[c]
  <2>5. p \in F \cup {HEAD} /\ h.next[p] = c
    BY <1>4, <2>4
  <2>6. p # HEAD
    BY <1>3, <2>4, <2>5
  <2>7. p \in F /\ pos[p] < pos[c]
    <3>1. p \in F
      BY <2>5, <2>6
    <3>2. c # HEAD
      BY <1>2, <2>4
    <3>3. QED
      BY <1>4, <2>5, <3>1, <3>2
  <2>8. p \notin T
    <3>1. pos[p] \in Nat /\ pos[c] \in Nat
      BY <1>2, <2>4, <2>7
    <3>2. ~(pos[c] <= pos[p])
      BY <2>7, <3>1
    <3>3. QED
      BY <2>3, <3>2
  <2>9. PICK k \in 0..(n - 1) : at[k] = p
    BY <2>7, <2>8
  <2>10. k = n - 1
    <3>1. SUFFICES ASSUME k + 1 \in 1..(n - 1), k + 1 \in 0..(n - 1), (k + 1) - 1 = k PROVE FALSE
      OBVIOUS
    <3>2. at[k + 1] = h.next[p]
      <4> HIDE DEF p
      <4>1. at[k] \in 0..(n - 1)
        BY <1>2, <2>7, <2>9
      <4>2. at[k + 1] = h.next[at[k]]
        BY <1>3, <3>1, <4>1
      <4>3. QED
        BY <2>9, <4>2
    <3>3. QED
      BY <2>4, <2>5, <3>1, <3>2
  <2>11. \A j \in 0..(n - 1) : at[j] \in F
    <3>1. at[k] \in F
      BY <2>7, <2>9
    <3>2. QED
      BY <1>5, <2>10, <3>1
  <2> DEFINE f == [j \in 0..n |-> IF j = n THEN c ELSE at[j]]
  <2>12. f \in [0..n -> 0..(n - 1)] /\ f[n] = c /\ \A j \in 0..(n - 1) : f[j] = at[j]
    <3>1. \A j \in 0..n : j # n => j \in 0..(n - 1)
      OBVIOUS
    <3>2. \A j \in 0..n : (IF j = n THEN c ELSE at[j]) \in 0..(n - 1)
      BY <1>2, <2>4, <2>11, <3>1
    <3>3. \A j \in 0..(n - 1) : j \in 0..n /\ j # n
      OBVIOUS
    <3>4. QED
      BY <3>2, <3>3
  <2> HIDE DEF f
  <2>13. /\ IsFiniteSet(0..n) /\ IsFiniteSet(0..(n - 1))
         /\ Cardinality(0..(n - 1)) < Cardinality(0..n)
    <3>1. 0 \in Int /\ n - 1 \in Int /\ n \in Int
      OBVIOUS
    <3>2. /\ IsFiniteSet(0..n) /\ Cardinality(0..n) = IF 0 > n THEN 0 ELSE n - 0 + 1
      BY <3>1, FS_Interval
    <3>3. /\ IsFiniteSet(0..(n - 1))
          /\ Cardinality(0..(n - 1)) = IF 0 > n - 1 THEN 0 ELSE (n - 1) - 0 + 1
      BY <3>1, FS_Interval
    <3>4. QED
      BY <3>2, <3>3
  <2>14. \E x, y \in 0..n : x # y /\ f[x] = f[y]
    <3> DEFINE A == 0..n
               B == 0..(n - 1)
    <3>1. f \in [A -> B] /\ IsFiniteSet(A) /\ IsFiniteSet(B) /\ Cardinality(B) < Cardinality(A)
      BY <2>12, <2>13
    <3> HIDE DEF A, B
    <3>2. \E x, y \in A : x # y /\ f[x] = f[y]
      BY <3>1, FS_PigeonHole
    <3>3. QED
      BY <3>2 DEF A
  <2>15. PICK x \in 0..n, y \in 0..n : x # y /\ f[x] = f[y]
    BY <2>14
  <2>16. \A j \in 0..n : j = n \/ j \in 0..(n - 1)
    OBVIOUS
  <2>17. x # n /\ y # n
    BY <2>4, <2>12, <2>15, <2>16
  <2>18. x \in 0..(n - 1) /\ y \in 0..(n - 1) /\ at[x] = at[y]
    BY <2>12, <2>15, <2>16, <2>17
  <2>19. at[x] # HEAD
    BY <1>2, <2>11, <2>18
  <2>20. QED
    BY <1>6, <2>15, <2>18, <2>19
<1>8. at \in [0..(n - 1) -> F \cup {HEAD}]
  BY <1>3, <1>5
<1>9. QED
  BY <1>6, <1>7, <1>8 DEF at

LEMMA FindFitIs ==
  ASSUME NEW n \in Nat, n > 0, NEW h \in Words(n), NEW F \in SUBSET (0..(n - 1)),
         Listed(h, n, F), NEW reqsz \in Nat, ArenaFindFit(h, reqsz) # NULL
  PROVE  ArenaFindFit(h, reqsz) \in F /\ BtSize(h, ArenaFindFit(h, reqsz)) >= reqsz
<1> DEFINE at == FreeList(h)
           fits == {k \in DOMAIN at : at[k] \in DOMAIN h.foot /\ BtSize(h, at[k]) >= reqsz}
           first == CHOOSE k \in fits : \A j \in fits : k <= j
<1>1. at \in [0..(n - 1) -> F \cup {HEAD}] /\ DOMAIN h.foot = 0..(n - 1) /\ DOMAIN at = 0..(n - 1)
  BY ListWalk, WordsType
<1>2. ArenaFindFit(h, reqsz) = IF fits = {} THEN NULL ELSE at[first]
  BY DEF ArenaFindFit
<1>3. fits # {} /\ ArenaFindFit(h, reqsz) = at[first]
  BY <1>2
<1>4. fits \in SUBSET Nat
  BY <1>1
<1>5. first \in fits
  <2> HIDE DEF fits
  <2>1. \E k \in fits : \A j \in fits : k <= j
    BY <1>3, <1>4, NatMin
  <2>2. QED
    BY <2>1
<1>6. at[first] \in F \cup {HEAD} /\ at[first] \in 0..(n - 1) /\ BtSize(h, at[first]) >= reqsz
  <2> HIDE DEF at, first
  <2>1. QED
    BY <1>1, <1>5
<1>7. QED
  BY <1>3, <1>6 DEF HEAD

-----------------------------------------------------------------------------
(* What the operators on tags leave in the words.                           *)
Made(g, h, n, b, size, flags) ==
  LET tag == [size |-> size, flags |-> flags]
  IN  /\ g \in Words(n) /\ g.prev = h.prev /\ g.next = h.next
      /\ g.totalFree = h.totalFree /\ g.wild = h.wild
      /\ \A u \in 0..n : g.hdr[u] = IF u = b THEN tag ELSE h.hdr[u]
      /\ \A u \in 0..(n - 1) :
           g.foot[u] = IF u = b + size - 1
                       THEN IF "USED" \in flags THEN CANARY ELSE tag ELSE h.foot[u]

LEMMA MakeIs ==
  ASSUME NEW n \in Nat, NEW h \in Words(n), NEW b \in 0..(n - 1), NEW size \in Nat,
         size > 0, b + size <= n, NEW flags \in SUBSET Flags
  PROVE  Made(BtMake(h, b, size, flags), h, n, b, size, flags)
<1> DEFINE g == BtMake(h, b, size, flags)
           tag == [size |-> size, flags |-> flags]
           end == IF "USED" \in flags THEN CANARY ELSE tag
           hdr == [h.hdr EXCEPT ![b] = tag]
           foot == [h.foot EXCEPT ![b + size - 1] = end]
           Tag == [size : Int, flags : SUBSET Flags]
<1>1. /\ h \in [hdr : [0..n -> Tag], foot : [0..(n - 1) -> Tag],
                prev : [-1..n -> -2..n], next : [-1..n -> -2..n],
                totalFree : Int, wild : BOOLEAN]
  BY DEF Words
<1>2. g = [h EXCEPT !.hdr = hdr, !.foot = foot]
  BY <1>1 DEF BtMake
<1>3. tag \in Tag /\ end \in Tag
  BY DEF CANARY, Flags
<1> HIDE DEF tag, end, Tag
<1>4. b + size - 1 \in 0..(n - 1) /\ b \in 0..n
  OBVIOUS
<1>5. hdr \in [0..n -> Tag] /\ foot \in [0..(n - 1) -> Tag]
  BY <1>1, <1>3, <1>4
<1>6. /\ \A u \in 0..n : hdr[u] = IF u = b THEN tag ELSE h.hdr[u]
      /\ \A u \in 0..(n - 1) : foot[u] = IF u = b + size - 1 THEN end ELSE h.foot[u]
  BY <1>1, <1>4
<1> HIDE DEF hdr, foot, g
<1>7. /\ g.hdr = hdr /\ g.foot = foot /\ g.next = h.next /\ g.prev = h.prev
      /\ g.totalFree = h.totalFree /\ g.wild = h.wild
  BY <1>1, <1>2
<1>8. g \in Words(n)
  BY <1>1, <1>2, <1>5 DEF Words, Tag
<1>9. QED
  BY <1>6, <1>7, <1>8 DEF g, tag, end, Made

LEMMA ClearIs ==
  ASSUME NEW n \in Nat, NEW h \in Words(n), NEW b \in 0..n, NEW flag
  PROVE  LET g == BtClear(h, b, flag)
             tag == [size |-> h.hdr[b].size, flags |-> h.hdr[b].flags \ {flag}]
         IN  /\ g \in Words(n) /\ g.prev = h.prev /\ g.next = h.next /\ g.foot = h.foot
             /\ g.totalFree = h.totalFree /\ g.wild = h.wild
             /\ \A u \in 0..n : g.hdr[u] = IF u = b THEN tag ELSE h.hdr[u]
<1> DEFINE g == BtClear(h, b, flag)
           tag == [size |-> h.hdr[b].size, flags |-> h.hdr[b].flags \ {flag}]
           hdr == [h.hdr EXCEPT ![b] = tag]
           Tag == [size : Int, flags : SUBSET Flags]
<1>1. /\ h \in [hdr : [0..n -> Tag], foot : [0..(n - 1) -> Tag],
                prev : [-1..n -> -2..n], next : [-1..n -> -2..n],
                totalFree : Int, wild : BOOLEAN]
  BY DEF Words
<1>2. tag \in Tag /\ [h.hdr[b] EXCEPT !.flags = @ \ {flag}] = tag
  <2>1. h.hdr[b] \in Tag
    BY <1>1
  <2>2. QED
    BY <2>1
<1>3. g = [h EXCEPT !.hdr = hdr]
  <2>1. g = [h EXCEPT !.hdr = [h.hdr EXCEPT ![b] = [h.hdr[b] EXCEPT !.flags = @ \ {flag}]]]
    BY <1>1 DEF BtClear
  <2> HIDE DEF tag, g
  <2>2. QED
    BY <1>2, <2>1
<1> HIDE DEF tag, Tag
<1>4. hdr \in [0..n -> Tag] /\ \A u \in 0..n : hdr[u] = IF u = b THEN tag ELSE h.hdr[u]
  BY <1>1, <1>2
<1> HIDE DEF hdr, g
<1>5. /\ g.hdr = hdr /\ g.foot = h.foot /\ g.next = h.next /\ g.prev = h.prev
      /\ g.totalFree = h.totalFree /\ g.wild = h.wild
  BY <1>1, <1>3
<1>6. g \in Words(n)
  BY <1>1, <1>3, <1>4 DEF Words, Tag
<1>7. QED
  BY <1>4, <1>5, <1>6 DEF g, tag

LEMMA SetPrevFreeIs ==
  ASSUME NEW n \in Nat, NEW h \in Words(n), NEW b \in 0..n
  PROVE  LET g == BtSetPrevFree(h, b)
             tag == [size |-> h.hdr[b].size, flags |-> h.hdr[b].flags \cup {"PREVFREE"}]
         IN  /\ g \in Words(n) /\ g.prev = h.prev /\ g.next = h.next /\ g.foot = h.foot
             /\ g.totalFree = h.totalFree /\ g.wild = h.wild
             /\ \A u \in 0..n : g.hdr[u] = IF u = b THEN tag ELSE h.hdr[u]
<1> DEFINE g == BtSetPrevFree(h, b)
           tag == [size |-> h.hdr[b].size, flags |-> h.hdr[b].flags \cup {"PREVFREE"}]
           hdr == [h.hdr EXCEPT ![b] = tag]
           Tag == [size : Int, flags : SUBSET Flags]
<1>1. /\ h \in [hdr : [0..n -> Tag], foot : [0..(n - 1) -> Tag],
                prev : [-1..n -> -2..n], next : [-1..n -> -2..n],
                totalFree : Int, wild : BOOLEAN]
  BY DEF Words
<1>2. tag \in Tag /\ [h.hdr[b] EXCEPT !.flags = @ \cup {"PREVFREE"}] = tag
  <2>1. h.hdr[b] \in Tag
    BY <1>1
  <2>2. QED
    BY <2>1 DEF Flags
<1>3. g = [h EXCEPT !.hdr = hdr]
  <2>1. g = [h EXCEPT !.hdr =
               [h.hdr EXCEPT ![b] = [h.hdr[b] EXCEPT !.flags = @ \cup {"PREVFREE"}]]]
    BY <1>1 DEF BtSetPrevFree
  <2> HIDE DEF tag, g
  <2>2. QED
    BY <1>2, <2>1
<1> HIDE DEF tag, Tag
<1>4. hdr \in [0..n -> Tag] /\ \A u \in 0..n : hdr[u] = IF u = b THEN tag ELSE h.hdr[u]
  BY <1>1, <1>2
<1> HIDE DEF hdr, g
<1>5. /\ g.hdr = hdr /\ g.foot = h.foot /\ g.next = h.next /\ g.prev = h.prev
      /\ g.totalFree = h.totalFree /\ g.wild = h.wild
  BY <1>1, <1>3
<1>6. g \in Words(n)
  BY <1>1, <1>3, <1>4 DEF Words, Tag
<1>7. QED
  BY <1>4, <1>5, <1>6 DEF g, tag

LEMMA ScrubIs ==
  ASSUME NEW n \in Nat, NEW h \in Words(n), NEW b \in 0..(n - 1), BtNext(h, b) \in (b + 1)..n
  PROVE  LET g == Scrub(h, b)
             end == BtNext(h, b)
         IN  /\ g \in Words(n) /\ g.totalFree = h.totalFree /\ g.wild = h.wild
             /\ \A u \in 0..n : g.hdr[u] = IF b < u /\ u < end THEN DATA ELSE h.hdr[u]
             /\ \A u \in 0..(n - 1) :
                  g.foot[u] = IF b <= u /\ u < end - 1 THEN DATA ELSE h.foot[u]
             /\ \A u \in -1..n :
                  /\ g.prev[u] = IF b < u /\ u < end THEN DATAPTR ELSE h.prev[u]
                  /\ g.next[u] = IF b < u /\ u < end THEN DATAPTR ELSE h.next[u]
<1> DEFINE g == Scrub(h, b)
           end == BtNext(h, b)
           inner == (b + 1)..(end - 1)
           Tag == [size : Int, flags : SUBSET Flags]
           hdr == [u \in 0..n |-> IF u \in inner THEN DATA ELSE h.hdr[u]]
           foot == [u \in 0..(n - 1) |-> IF u + 1 \in inner THEN DATA ELSE h.foot[u]]
           prev == [u \in -1..n |-> IF u \in inner THEN DATAPTR ELSE h.prev[u]]
           next == [u \in -1..n |-> IF u \in inner THEN DATAPTR ELSE h.next[u]]
<1>1. /\ h \in [hdr : [0..n -> Tag], foot : [0..(n - 1) -> Tag],
                prev : [-1..n -> -2..n], next : [-1..n -> -2..n],
                totalFree : Int, wild : BOOLEAN]
  BY DEF Words
<1>2. g = [h EXCEPT !.hdr = hdr, !.foot = foot, !.prev = prev, !.next = next]
  <2>1. /\ DOMAIN h.hdr = 0..n /\ DOMAIN h.foot = 0..(n - 1)
        /\ DOMAIN h.prev = -1..n /\ DOMAIN h.next = -1..n
    BY <1>1
  <2>2. g = [h EXCEPT
               !.hdr = [u \in DOMAIN h.hdr |-> IF u \in inner THEN DATA ELSE h.hdr[u]],
               !.foot = [u \in DOMAIN h.foot |-> IF u + 1 \in inner THEN DATA ELSE h.foot[u]],
               !.prev = [u \in DOMAIN h.prev |-> IF u \in inner THEN DATAPTR ELSE h.prev[u]],
               !.next = [u \in DOMAIN h.next |-> IF u \in inner THEN DATAPTR ELSE h.next[u]]]
    BY <1>1 DEF Scrub
  <2> HIDE DEF g, inner
  <2>3. QED
    BY <2>1, <2>2
<1>3. DATA \in Tag
  BY DEF DATA
<1>4. end \in Int
  OBVIOUS
<1> HIDE DEF Tag, end
<1>5. /\ \A u \in 0..n : (u \in inner <=> b < u /\ u < end)
      /\ \A u \in 0..(n - 1) : (u + 1 \in inner <=> b <= u /\ u < end - 1)
      /\ \A u \in -1..n : (u \in inner <=> b < u /\ u < end)
  BY <1>4
<1> HIDE DEF inner
<1>6. hdr \in [0..n -> Tag] /\ foot \in [0..(n - 1) -> Tag]
  BY <1>1, <1>3
<1>7. prev \in [-1..n -> -2..n] /\ next \in [-1..n -> -2..n]
  <2>1. DATAPTR \in -2..n
    BY DEF DATAPTR
  <2>2. QED
    BY <1>1, <2>1
<1>8. /\ \A u \in 0..n : hdr[u] = IF b < u /\ u < end THEN DATA ELSE h.hdr[u]
      /\ \A u \in 0..(n - 1) : foot[u] = IF b <= u /\ u < end - 1 THEN DATA ELSE h.foot[u]
      /\ \A u \in -1..n : /\ prev[u] = IF b < u /\ u < end THEN DATAPTR ELSE h.prev[u]
                          /\ next[u] = IF b < u /\ u < end THEN DATAPTR ELSE h.next[u]
  BY <1>5
<1> HIDE DEF hdr, foot, prev, next, g
<1>9. /\ g.hdr = hdr /\ g.foot = foot /\ g.next = next /\ g.prev = prev
      /\ g.totalFree = h.totalFree /\ g.wild = h.wild
  BY <1>1, <1>2
<1>10. g \in Words(n)
  BY <1>1, <1>2, <1>6, <1>7 DEF Words, Tag
<1>11. QED
  BY <1>8, <1>9, <1>10 DEF g, end

LEMMA FillIs ==
  ASSUME NEW n \in Nat, NEW h \in Words(n), NEW b \in 0..(n - 1), BtNext(h, b) \in (b + 1)..n
  PROVE  LET g == Fill(h, b)
             end == BtNext(h, b)
         IN  /\ g \in Words(n) /\ g.totalFree = h.totalFree /\ g.wild = h.wild
             /\ \A u \in 0..n : g.hdr[u] = IF b < u /\ u < end THEN DATA ELSE h.hdr[u]
             /\ \A u \in 0..(n - 1) :
                  g.foot[u] = IF b <= u /\ u < end - 1 THEN DATA ELSE h.foot[u]
             /\ \A u \in -1..n :
                  /\ g.prev[u] = IF b <= u /\ u < end THEN DATAPTR ELSE h.prev[u]
                  /\ g.next[u] = IF b <= u /\ u < end THEN DATAPTR ELSE h.next[u]
<1> DEFINE g == Fill(h, b)
           end == BtNext(h, b)
           s == Scrub(h, b)
           prev == [s.prev EXCEPT ![b] = DATAPTR]
           next == [s.next EXCEPT ![b] = DATAPTR]
<1>1. /\ s \in Words(n) /\ s.totalFree = h.totalFree /\ s.wild = h.wild
      /\ \A u \in 0..n : s.hdr[u] = IF b < u /\ u < end THEN DATA ELSE h.hdr[u]
      /\ \A u \in 0..(n - 1) :
           s.foot[u] = IF b <= u /\ u < end - 1 THEN DATA ELSE h.foot[u]
      /\ \A u \in -1..n :
           /\ s.prev[u] = IF b < u /\ u < end THEN DATAPTR ELSE h.prev[u]
           /\ s.next[u] = IF b < u /\ u < end THEN DATAPTR ELSE h.next[u]
  BY ScrubIs
<1> HIDE DEF s
<1>2. /\ s \in [hdr : [0..n -> [size : Int, flags : SUBSET Flags]],
                foot : [0..(n - 1) -> [size : Int, flags : SUBSET Flags]],
                prev : [-1..n -> -2..n], next : [-1..n -> -2..n],
                totalFree : Int, wild : BOOLEAN]
  BY <1>1 DEF Words
<1>3. g = [s EXCEPT !.prev = prev, !.next = next]
  BY <1>2 DEF Fill, s
<1>4. b \in -1..n /\ DATAPTR \in -2..n /\ end \in Int /\ b < end
  BY DEF DATAPTR
<1>5. prev \in [-1..n -> -2..n] /\ next \in [-1..n -> -2..n]
  BY <1>2, <1>4
<1> HIDE DEF end
<1>6. \A u \in -1..n : b <= u /\ u < end <=> u = b \/ (b < u /\ u < end)
  BY <1>4
<1>7. \A u \in -1..n : /\ prev[u] = IF u = b THEN DATAPTR ELSE s.prev[u]
                       /\ next[u] = IF u = b THEN DATAPTR ELSE s.next[u]
  BY <1>2, <1>4
<1> HIDE DEF prev, next, g
<1>8. \A u \in -1..n : /\ prev[u] = IF b <= u /\ u < end THEN DATAPTR ELSE h.prev[u]
                       /\ next[u] = IF b <= u /\ u < end THEN DATAPTR ELSE h.next[u]
  BY <1>1, <1>6, <1>7
<1>9. /\ g.next = next /\ g.prev = prev /\ g.hdr = s.hdr /\ g.foot = s.foot
      /\ g.totalFree = s.totalFree /\ g.wild = s.wild
  BY <1>2, <1>3
<1>10. g \in Words(n)
  BY <1>2, <1>3, <1>5 DEF Words
<1>11. QED
  BY <1>1, <1>8, <1>9, <1>10 DEF g, end

LEMMA TotalIs ==
  ASSUME NEW n \in Nat, NEW h \in Words(n), NEW x \in Int
  PROVE  LET g == [h EXCEPT !.totalFree = x]
         IN  /\ g \in Words(n) /\ g.totalFree = x /\ g.wild = h.wild
             /\ g.hdr = h.hdr /\ g.foot = h.foot /\ g.prev = h.prev /\ g.next = h.next
BY DEF Words

LEMMA RemoveKeeps ==
  ASSUME NEW n \in Nat, NEW h \in Words(n), NEW F \in SUBSET (0..(n - 1)), Listed(h, n, F),
         NEW b \in F
  PROVE  LET g == FreeRemove(h, b)
         IN  /\ g \in Words(n) /\ g.hdr = h.hdr /\ g.foot = h.foot
             /\ g.totalFree = h.totalFree /\ g.wild = h.wild
             /\ Listed(g, n, F \ {b})
             /\ \A u \in 0..(n - 1) : u \notin F => g.next[u] = h.next[u] /\ g.prev[u] = h.prev[u]
<1>1. /\ Listed(FreeRemove(h, b), n, F \ {b})
      /\ h.next[b] \in -1..n /\ h.prev[b] \in -1..n
      /\ h.next[b] \in F \cup {HEAD} /\ h.prev[b] \in F \cup {HEAD}
  BY RemoveListed
<1>2. b \in 0..(n - 1)
  OBVIOUS
<1>3. LET g == FreeRemove(h, b)
      IN  /\ g \in Words(n) /\ g.hdr = h.hdr /\ g.foot = h.foot
          /\ g.totalFree = h.totalFree /\ g.wild = h.wild
          /\ \A u \in -1..n : /\ g.next[u] = IF u = h.prev[b] THEN h.next[b] ELSE h.next[u]
                              /\ g.prev[u] = IF u = h.next[b] THEN h.prev[b] ELSE h.prev[u]
  BY <1>1, <1>2, RemoveIs
<1>4. ASSUME NEW u \in 0..(n - 1), u \notin F
      PROVE  u \in -1..n /\ u # h.prev[b] /\ u # h.next[b]
  BY <1>1, <1>4 DEF HEAD
<1>5. QED
  BY <1>1, <1>3, <1>4

Inserted(g, h, n, F, b) ==
  /\ g \in Words(n) /\ g.hdr = h.hdr /\ g.foot = h.foot
  /\ g.totalFree = h.totalFree /\ g.wild = h.wild
  /\ Listed(g, n, F \cup {b})
  /\ \A u \in 0..(n - 1) : u \notin F \cup {b} =>
       g.next[u] = h.next[u] /\ g.prev[u] = h.prev[u]

LEMMA InsertKeeps ==
  ASSUME NEW n \in Nat, NEW h \in Words(n), NEW F \in SUBSET (0..(n - 1)), Listed(h, n, F),
         NEW b \in 0..(n - 1), b \notin F
  PROVE  Inserted(ArenaFreeInsert(h, b), h, n, F, b)
<1>1. Listed(ArenaFreeInsert(h, b), n, F \cup {b})
  BY InsertListed
<1>2. h.prev[HEAD] \in F \cup {HEAD}
  BY DEF Listed, Linked
<1>3. LET g == ArenaFreeInsert(h, b)
          last == h.prev[HEAD]
      IN  /\ g \in Words(n) /\ g.hdr = h.hdr /\ g.foot = h.foot
          /\ g.totalFree = h.totalFree /\ g.wild = h.wild
          /\ \A u \in -1..n : /\ g.next[u] = IF u = last THEN b ELSE
                                             IF u = b THEN HEAD ELSE h.next[u]
                              /\ g.prev[u] = IF u = HEAD THEN b ELSE
                                             IF u = b THEN last ELSE h.prev[u]
  BY InsertIs
<1>4. ASSUME NEW u \in 0..(n - 1), u \notin F \cup {b}
      PROVE  u \in -1..n /\ u # h.prev[HEAD] /\ u # b /\ u # HEAD
  BY <1>2, <1>4 DEF HEAD
<1>5. QED
  BY <1>1, <1>3, <1>4 DEF Inserted

-----------------------------------------------------------------------------
(* What an edit does to the free and the used blocks and to the sum.        *)
UsedOf(h, S) == {b \in S : ~BtFree(h, b)}

LEMMA RecutFree ==
  ASSUME NEW n \in Nat, NEW h \in Words(n), NEW g \in Words(n), NEW S, Cut(h, n, S),
         NEW lo, NEW mid, NEW hi, Recut(h, g, n, S, lo, mid, hi), Edited(h, g, n, S, lo, hi)
  PROVE  LET R == Recuts(S, lo, mid, hi)
             new == {b \in {lo, mid} : b < hi}
         IN  /\ FreeOf(g, R) = {b \in FreeOf(h, S) : b < lo \/ b >= hi}
                                 \cup {b \in new : BtFree(g, b)}
             /\ UsedOf(g, R) = {b \in UsedOf(h, S) : b < lo \/ b >= hi}
                                 \cup {b \in new : ~BtFree(g, b)}
<1> DEFINE R == Recuts(S, lo, mid, hi)
           new == {b \in {lo, mid} : b < hi}
<1>1. \A b : b \in R <=> (b \in S /\ (b < lo \/ b >= hi)) \/ b = lo \/ (b = mid /\ mid # hi)
  BY RecutIn
<1>2. \A b \in S : b < lo \/ b >= hi => (BtFree(g, b) <=> BtFree(h, b))
  BY StillFree
<1>3. \A b : b \in new <=> b = lo \/ (b = mid /\ mid # hi)
  <2>1. lo \in 0..(n - 1) /\ mid \in (lo + 1)..hi /\ hi \in (lo + 1)..n
    BY RecutNext
  <2>2. QED
    BY <2>1
<1> HIDE DEF R, new
<1>4. FreeOf(g, R) = {b \in FreeOf(h, S) : b < lo \/ b >= hi} \cup {b \in new : BtFree(g, b)}
  BY <1>1, <1>2, <1>3 DEF FreeOf
<1>5. UsedOf(g, R) = {b \in UsedOf(h, S) : b < lo \/ b >= hi} \cup {b \in new : ~BtFree(g, b)}
  BY <1>1, <1>2, <1>3 DEF UsedOf
<1>6. QED
  BY <1>4, <1>5 DEF R, new

LEMMA RecutTotal ==
  ASSUME NEW n \in Nat, NEW h \in Words(n), NEW g \in Words(n), NEW S, Cut(h, n, S),
         NEW lo, NEW mid, NEW hi, Recut(h, g, n, S, lo, mid, hi), Edited(h, g, n, S, lo, hi),
         NEW i \in lo..(hi - 1), NEW j \in lo..(hi - 1),
         \A u \in lo..(hi - 1) : u # i /\ u # j =>
           u \notin FreeOf(h, S) /\ u \notin FreeOf(g, Recuts(S, lo, mid, hi))
  PROVE  LET R == Recuts(S, lo, mid, hi)
         IN  Sums(Offers(g, n, R), n)[n] =
               Sums(Offers(h, n, S), n)[n] + (Offer(g, R, i) - Offer(h, S, i))
                 + IF j = i THEN 0 ELSE Offer(g, R, j) - Offer(h, S, j)
<1> DEFINE R == Recuts(S, lo, mid, hi)
           w == Offers(h, n, S)
           v == Offers(g, n, R)
<1>1. lo \in 0..(n - 1) /\ mid \in (lo + 1)..hi /\ hi \in (lo + 1)..n
  BY RecutNext
<1>2. S \in SUBSET (0..(n - 1)) /\ R \in SUBSET (0..(n - 1))
  BY RecutCut DEF Cut
<1>3. w \in [0..(n - 1) -> Int] /\ v \in [0..(n - 1) -> Int]
  <2> HIDE DEF R
  <2>1. QED
    BY <1>2, OffersType
<1>4. \A u \in 0..(n - 1) : w[u] = Offer(h, S, u) /\ v[u] = Offer(g, R, u)
  BY DEF Offers
<1>5. \A b \in FreeOf(g, R) : (b \in FreeOf(h, S) /\ (b < lo \/ b >= hi)) \/ b = lo \/ b = mid
  BY RecutFree
<1>6. \A b \in FreeOf(h, S) : b < lo \/ b >= hi => b \in FreeOf(g, R)
  BY RecutFree
<1> HIDE DEF R, v, w
<1>7. ASSUME NEW u \in 0..(n - 1), u # i, u # j
      PROVE  v[u] = w[u]
  <2>1. CASE u \in lo..(hi - 1)
    <3>1. u \notin FreeOf(h, S) /\ u \notin FreeOf(g, R)
      BY <1>7, <2>1 DEF R
    <3>2. QED
      BY <1>4, <3>1 DEF Offer
  <2>2. CASE u \notin lo..(hi - 1)
    <3>1. (u < lo \/ u >= hi) /\ u # lo
      BY <1>1, <2>2
    <3>2. CASE u \in FreeOf(h, S)
      <4>1. u \in FreeOf(g, R) /\ u \in S
        BY <1>6, <3>1, <3>2 DEF FreeOf
      <4>2. BtSize(g, u) = BtSize(h, u)
        BY <3>1, <4>1 DEF Recut, BtSize
      <4>3. QED
        BY <1>4, <3>2, <4>1, <4>2 DEF Offer
    <3>3. CASE u \notin FreeOf(h, S)
      <4>1. mid = hi \/ u # mid
        BY <1>1, <3>1
      <4>2. u \notin FreeOf(g, R)
        <5>1. CASE u = mid
          <6>1. mid \notin {b \in {lo, mid} : b < hi}
            BY <1>1, <4>1, <5>1
          <6>2. QED
            BY <3>3, <5>1, <6>1, RecutFree DEF R
        <5>2. CASE u # mid
          BY <1>5, <3>1, <3>3, <5>2
        <5>3. QED
          BY <5>1, <5>2
      <4>3. QED
        BY <1>4, <3>3, <4>2 DEF Offer
    <3>4. QED
      BY <3>2, <3>3
  <2>3. QED
    BY <2>1, <2>2
<1>8. i \in 0..(n - 1) /\ j \in 0..(n - 1)
  BY <1>1
<1>9. /\ Sums(w, n)[n] \in Int /\ v[i] \in Int /\ w[i] \in Int /\ v[j] \in Int /\ w[j] \in Int
      /\ v[i] = Offer(g, R, i) /\ w[i] = Offer(h, S, i)
      /\ v[j] = Offer(g, R, j) /\ w[j] = Offer(h, S, j)
  BY <1>3, <1>4, <1>8, SumsExist
<1> HIDE DEF v, w, R
<1>10. CASE j = i
  <2>1. \A u \in 0..(n - 1) : u # i => v[u] = w[u]
    BY <1>7, <1>10
  <2>2. Sums(v, n)[n] = Sums(w, n)[n] + v[i] - w[i]
    BY <1>3, <1>8, <2>1, SumsChange
  <2>3. Sums(v, n)[n] = Sums(w, n)[n] + (v[i] - w[i]) + 0
    BY <1>9, <2>2
  <2>4. QED
    BY <1>9, <1>10, <2>3 DEF v, w, R
<1>11. CASE j # i
  <2>1. i # j /\ \A u \in 0..(n - 1) : u # i /\ u # j => v[u] = w[u]
    BY <1>7, <1>11
  <2>2. Sums(v, n)[n] = Sums(w, n)[n] + v[i] - w[i] + v[j] - w[j]
    <3>1. /\ n \in Nat /\ w \in [0..(n - 1) -> Int] /\ v \in [0..(n - 1) -> Int]
          /\ i \in 0..(n - 1) /\ j \in 0..(n - 1) /\ i # j
          /\ \A u \in 0..(n - 1) : u # i /\ u # j => v[u] = w[u]
      BY <1>3, <1>8, <2>1
    <3>2. QED
      BY ONLY <3>1, SumsChangeTwice, Zenon
  <2>3. Sums(v, n)[n] = Sums(w, n)[n] + (v[i] - w[i]) + (v[j] - w[j])
    BY <1>9, <2>2
  <2>4. QED
    BY <1>9, <1>11, <2>3 DEF v, w, R
<1>12. QED
  BY <1>10, <1>11 DEF v, w, R

(* A free block, and what the tags around it say.                           *)
LEMMA FreeBlockIs ==
  ASSUME NEW n \in Nat, NEW h \in Words(n), NEW S, Cut(h, n, S),
         \A b \in S : Fits(h, n, S, b), NEW b \in FreeOf(h, S)
  PROVE  LET next == BtNext(h, b)
         IN  /\ b \in S /\ b \in 0..(n - 1) /\ next \in (b + 1)..n /\ next \in S \cup {n}
             /\ BtSize(h, b) = next - b /\ h.foot[next - 1] = h.hdr[b]
             /\ BtHas(h, b, "ISLAST") \in SUBSET Flags
             /\ BtHas(h, b, "ISLAST") # {} => next = n
             /\ "USED" \notin h.hdr[b].flags /\ ~FreePred(h, S, b)
             /\ next \in S => ~BtFree(h, next) /\ "PREVFREE" \in h.hdr[next].flags
<1> DEFINE next == BtNext(h, b)
<1>1. b \in S /\ BtFree(h, b)
  BY DEF FreeOf
<1>2. /\ b \in 0..(n - 1) /\ next = b + BtSize(h, b) /\ BtSize(h, b) \in 1..n
      /\ next \in (b + 1)..n /\ next \in S \cup {n}
  BY <1>1, CutType DEF Cut
<1>3. Fits(h, n, S, b)
  BY <1>1
<1>4. h.hdr[b].flags \in SUBSET Flags
  BY <1>2, WordsType
<1>5. ~FreePred(h, S, b)
  BY <1>1 DEF FreePred, Fits
<1>6. ASSUME next \in S PROVE ~BtFree(h, next) /\ "PREVFREE" \in h.hdr[next].flags
  <2>1. ~BtFree(h, next)
    BY <1>1, <1>3, <1>6 DEF Fits
  <2>2. FreePred(h, S, next)
    BY <1>1 DEF FreePred
  <2>3. Fits(h, n, S, next)
    BY <1>6
  <2>4. QED
    BY <2>1, <2>2, <2>3 DEF Fits
<1>7. BtSize(h, b) = next - b
  BY <1>2
<1>8. h.foot[next - 1] = h.hdr[b] /\ (BtHas(h, b, "ISLAST") # {} => next = n)
  BY <1>1, <1>3 DEF Fits, BtHas
<1>9. "USED" \notin h.hdr[b].flags
  BY <1>1 DEF BtFree
<1> HIDE DEF next
<1>10. BtHas(h, b, "ISLAST") \in SUBSET Flags
  BY <1>4 DEF BtHas
<1>11. next = BtNext(h, b)
  BY DEF next
<1>12. QED
  BY <1>1, <1>2, <1>5, <1>6, <1>7, <1>8, <1>9, <1>10, <1>11

-----------------------------------------------------------------------------
(* The operations keep an arena good.                                       *)
LEMMA GoodType ==
  ASSUME NEW n \in Nat, NEW h, NEW S, Good(h, n, S)
  PROVE  /\ h \in Words(n) /\ Cut(h, n, S) /\ \A b \in S : Fits(h, n, S, b)
         /\ Listed(h, n, FreeOf(h, S)) /\ h.totalFree = Sums(Offers(h, n, S), n)[n]
         /\ S \in SUBSET (0..(n - 1)) /\ FreeOf(h, S) \in SUBSET (0..(n - 1))
         /\ Sums(Offers(h, n, S), n)[n] \in Int
<1>1. h \in Words(n) /\ Cut(h, n, S) /\ S \in SUBSET (0..(n - 1))
  BY DEF Good, Cut
<1>2. FreeOf(h, S) \in SUBSET (0..(n - 1))
  BY <1>1 DEF FreeOf
<1>3. h.totalFree \in Int
  BY <1>1, WordsType
<1>4. QED
  BY <1>1, <1>2, <1>3 DEF Good

LEMMA GoodEdit ==
  ASSUME NEW n \in Nat, NEW h, NEW S, Good(h, n, S), NEW g \in Words(n),
         NEW lo, NEW mid, NEW hi, Edit(h, g, n, S, lo, mid, hi),
         Listed(g, n, FreeOf(g, Recuts(S, lo, mid, hi))),
         g.totalFree = Sums(Offers(g, n, Recuts(S, lo, mid, hi)), n)[n]
  PROVE  Good(g, n, Recuts(S, lo, mid, hi))
<1>1. h \in Words(n) /\ Cut(h, n, S) /\ \A b \in S : Fits(h, n, S, b)
  BY DEF Good
<1>2. Cut(g, n, Recuts(S, lo, mid, hi))
  BY <1>1, RecutCut DEF Edit
<1>3. \A b \in Recuts(S, lo, mid, hi) : Fits(g, n, Recuts(S, lo, mid, hi), b)
  BY <1>1, RecutFits
<1>4. QED
  BY <1>2, <1>3 DEF Good
(* Block b, which is f or in front of it, gets what the free block f has up *)
(* to mid.  What is left of f is free again.                                *)
Takes(h, x, n, S, b, f, mid) ==
  LET hi == BtNext(h, f)
      left == {c \in {mid} : c < hi}
  IN  /\ x \in Words(n) /\ x.wild = h.wild
      /\ mid \in (b + 1)..hi /\ f < mid
      /\ x.hdr[b].size = mid - b /\ "USED" \in x.hdr[b].flags
      /\ "ISLAST" \in x.hdr[b].flags => mid = n
      /\ "PREVFREE" \in x.hdr[b].flags <=> FreePred(h, S, b)
      /\ x.foot[mid - 1] = CANARY
      /\ mid # hi => /\ x.hdr[mid] = [size |-> hi - mid, flags |-> BtHas(h, f, "ISLAST")]
                     /\ x.foot[hi - 1] = x.hdr[mid]
      /\ \A u \in 0..(n - 1) : u < b \/ u >= hi => x.foot[u] = h.foot[u]
      /\ \A u \in 0..(n - 1) : u < b \/ u > hi => x.hdr[u] = h.hdr[u]
      /\ hi \in S => /\ x.hdr[hi].size = h.hdr[hi].size
                     /\ x.hdr[hi].flags = h.hdr[hi].flags \ {c \in {"PREVFREE"} : mid = hi}
      /\ Listed(x, n, (FreeOf(h, S) \ {f}) \cup left)
      /\ \A u \in 0..(n - 1) : u \notin FreeOf(h, S) \cup left =>
           x.next[u] = h.next[u] /\ x.prev[u] = h.prev[u]
      /\ x.totalFree = h.totalFree - IF mid = hi THEN 16 * (hi - f) - 8 ELSE 16 * (mid - f)

LEMMA TakesGood ==
  ASSUME NEW n \in Nat, NEW h, NEW S, Good(h, n, S), NEW f \in FreeOf(h, S), NEW b \in S,
         f = b \/ (~BtFree(h, b) /\ f = BtNext(h, b)),
         NEW x, NEW mid, Takes(h, x, n, S, b, f, mid)
  PROVE  LET g == Fill(x, b)
             R == Recuts(S, b, mid, BtNext(h, f))
         IN  /\ Good(g, n, R) /\ g.wild = h.wild
             /\ UsedOf(g, R) = UsedOf(h, S) \cup {b}
<1> DEFINE F == FreeOf(h, S)
           hi == BtNext(h, f)
           last == BtHas(h, f, "ISLAST")
           R == Recuts(S, b, mid, hi)
           g == Fill(x, b)
           left == {c \in {mid} : c < hi}
           G == (F \ {f}) \cup left
<1>1. /\ h \in Words(n) /\ Cut(h, n, S) /\ \A c \in S : Fits(h, n, S, c)
      /\ h.totalFree = Sums(Offers(h, n, S), n)[n]
      /\ S \in SUBSET (0..(n - 1)) /\ F \in SUBSET (0..(n - 1))
      /\ Sums(Offers(h, n, S), n)[n] \in Int
  BY GoodType
<1>2. /\ f \in S /\ f \in 0..(n - 1) /\ hi \in (f + 1)..n /\ hi \in S \cup {n}
      /\ BtSize(h, f) = hi - f
      /\ last \in SUBSET Flags /\ (last # {} => hi = n) /\ ~FreePred(h, S, f)
      /\ hi \in S => ~BtFree(h, hi) /\ "PREVFREE" \in h.hdr[hi].flags
  <2>1. h \in Words(n) /\ Cut(h, n, S) /\ \A c \in S : Fits(h, n, S, c)
    BY <1>1
  <2> HIDE DEF F
  <2>2. QED
    BY <2>1, FreeBlockIs
<1>3. b \in 0..(n - 1) /\ b <= f
  <2>1. b \in 0..(n - 1) /\ BtNext(h, b) \in (b + 1)..n
    BY <1>1, CutType
  <2>2. QED
    BY <2>1
<1>4. ASSUME NEW c \in S PROVE c < b \/ c >= hi \/ c = b \/ c = f
  <2>1. c \in 0..(n - 1) /\ (f < c => hi <= c) /\ (b < c => BtNext(h, b) <= c)
    BY <1>1, <1>2 DEF Cut, hi
  <2>2. b \in 0..n /\ hi \in 0..n /\ f \in 0..n /\ hi > f
    BY <1>2, <1>3
  <2> HIDE DEF hi
  <2>3. CASE f = b
    BY <2>1, <2>2, <2>3
  <2>4. CASE f = BtNext(h, b)
    BY <2>1, <2>2, <2>4
  <2>5. QED
    BY <2>3, <2>4
<1>5. /\ x \in Words(n) /\ x.wild = h.wild
      /\ mid \in (b + 1)..hi /\ f < mid
      /\ x.hdr[b].size = mid - b /\ "USED" \in x.hdr[b].flags
      /\ "ISLAST" \in x.hdr[b].flags => mid = n
      /\ "PREVFREE" \in x.hdr[b].flags <=> FreePred(h, S, b)
      /\ x.foot[mid - 1] = CANARY
      /\ mid # hi => /\ x.hdr[mid] = [size |-> hi - mid, flags |-> last]
                     /\ x.foot[hi - 1] = x.hdr[mid]
      /\ \A u \in 0..(n - 1) : u < b \/ u >= hi => x.foot[u] = h.foot[u]
      /\ \A u \in 0..(n - 1) : u < b \/ u > hi => x.hdr[u] = h.hdr[u]
      /\ hi \in S => /\ x.hdr[hi].size = h.hdr[hi].size
                     /\ x.hdr[hi].flags = h.hdr[hi].flags \ {c \in {"PREVFREE"} : mid = hi}
      /\ Listed(x, n, G)
      /\ \A u \in 0..(n - 1) : u \notin F \cup left =>
           x.next[u] = h.next[u] /\ x.prev[u] = h.prev[u]
      /\ x.totalFree = h.totalFree - IF mid = hi THEN 16 * (hi - f) - 8 ELSE 16 * (mid - f)
  BY DEF Takes
<1>6. "USED" \notin last
  BY DEF BtHas
<1> HIDE DEF hi, last, g, R, F, G
<1>7. b \in 0..n /\ mid \in 0..n /\ hi \in 0..n /\ f \in 0..n
  BY <1>2, <1>3, <1>5
<1>8. BtNext(x, b) = mid /\ mid \in (b + 1)..n
  BY <1>2, <1>3, <1>5 DEF BtNext, BtSize
<1>9. /\ g \in Words(n) /\ g.totalFree = x.totalFree /\ g.wild = h.wild
      /\ \A u \in 0..n : g.hdr[u] = IF b < u /\ u < mid THEN DATA ELSE x.hdr[u]
      /\ \A u \in 0..(n - 1) : g.foot[u] = IF b <= u /\ u < mid - 1 THEN DATA ELSE x.foot[u]
      /\ \A u \in -1..n : /\ g.prev[u] = IF b <= u /\ u < mid THEN DATAPTR ELSE x.prev[u]
                          /\ g.next[u] = IF b <= u /\ u < mid THEN DATAPTR ELSE x.next[u]
  <2>1. x \in Words(n) /\ b \in 0..(n - 1) /\ BtNext(x, b) \in (b + 1)..n /\ x.wild = h.wild
    BY <1>3, <1>5, <1>8
  <2>2. QED
    BY <1>8, <2>1, FillIs DEF g
<1>10. /\ g.hdr[b] = x.hdr[b]
       /\ mid # hi => g.hdr[mid] = [size |-> hi - mid, flags |-> last]
       /\ \A u \in 0..(n - 1) : u < b \/ u > hi => g.hdr[u] = h.hdr[u]
       /\ g.hdr[hi] = x.hdr[hi]
       /\ \A u \in (b + 1)..(mid - 1) : g.hdr[u] = DATA
  <2>1. ~(b < b) /\ ~(mid < mid) /\ ~(hi < mid)
    BY <1>5, <1>7
  <2>2. g.hdr[b] = x.hdr[b] /\ g.hdr[mid] = x.hdr[mid] /\ g.hdr[hi] = x.hdr[hi]
    BY <1>7, <1>9, <2>1
  <2>3. ASSUME NEW u \in 0..(n - 1), u < b \/ u > hi PROVE g.hdr[u] = h.hdr[u]
    <3>1. u \in 0..n /\ ~(b < u /\ u < mid)
      BY <1>5, <1>7, <2>3
    <3>2. QED
      BY <1>5, <1>9, <2>3, <3>1
  <2>4. ASSUME NEW u \in (b + 1)..(mid - 1) PROVE g.hdr[u] = DATA
    <3>1. u \in 0..n /\ b < u /\ u < mid
      BY <1>7
    <3>2. QED
      BY <1>9, <3>1
  <2>5. QED
    BY <1>5, <2>2, <2>3, <2>4
<1>11. /\ g.foot[mid - 1] = CANARY
       /\ mid # hi => g.foot[hi - 1] = g.hdr[mid]
       /\ \A u \in 0..(n - 1) : u < b \/ u >= hi => g.foot[u] = h.foot[u]
       /\ \A u \in b..(mid - 2) : g.foot[u] = DATA
  <2>1. /\ mid - 1 \in 0..(n - 1) /\ hi - 1 \in 0..(n - 1)
        /\ ~(mid - 1 < mid - 1) /\ ~(hi - 1 < mid - 1)
    BY <1>2, <1>5, <1>7
  <2>2. g.foot[mid - 1] = x.foot[mid - 1] /\ g.foot[hi - 1] = x.foot[hi - 1]
    BY <1>9, <2>1
  <2>3. ASSUME NEW u \in 0..(n - 1), u < b \/ u >= hi PROVE g.foot[u] = h.foot[u]
    <3>1. ~(b <= u /\ u < mid - 1)
      BY <1>5, <1>7, <2>3
    <3>2. QED
      BY <1>5, <1>9, <2>3, <3>1
  <2>4. ASSUME NEW u \in b..(mid - 2) PROVE g.foot[u] = DATA
    <3>1. u \in 0..(n - 1) /\ b <= u /\ u < mid - 1
      BY <1>7
    <3>2. QED
      BY <1>9, <3>1
  <2>5. mid # hi => g.foot[hi - 1] = g.hdr[mid]
    BY <1>5, <1>10, <2>2
  <2>6. QED
    BY <1>5, <2>2, <2>3, <2>4, <2>5
<1>12. ASSUME NEW c \in F, c # f
       PROVE  c \in S /\ c \in 0..(n - 1) /\ (c < b \/ c >= hi)
  <2>1. c \in S /\ c \in 0..(n - 1) /\ BtFree(h, c)
    BY <1>1 DEF F, FreeOf
  <2>2. c # b
    BY <1>12, <2>1
  <2>3. QED
    BY <1>4, <1>12, <2>1, <2>2
<1>13. /\ \A u \in 0..(n - 1) : (u < b \/ u >= hi) /\ u \notin F =>
                                  g.prev[u] = h.prev[u] /\ g.next[u] = h.next[u]
       /\ \A u \in b..(mid - 1) : g.prev[u] = DATAPTR /\ g.next[u] = DATAPTR
       /\ Listed(g, n, G)
  <2>1. ASSUME NEW u \in 0..(n - 1), u < b \/ u >= hi, u \notin F
        PROVE  g.prev[u] = h.prev[u] /\ g.next[u] = h.next[u]
    <3>1. ~(b <= u /\ u < mid) /\ u \in -1..n
      BY <1>5, <1>7, <2>1
    <3>2. g.prev[u] = x.prev[u] /\ g.next[u] = x.next[u]
      BY <1>9, <3>1
    <3>3. x.prev[u] = h.prev[u] /\ x.next[u] = h.next[u]
      <4>1. u \notin left
        BY <1>5, <1>7, <2>1
      <4>2. QED
        BY <1>5, <2>1, <4>1
    <3>4. QED
      BY <3>2, <3>3
  <2>2. ASSUME NEW u \in b..(mid - 1) PROVE g.prev[u] = DATAPTR /\ g.next[u] = DATAPTR
    <3>1. u \in -1..n /\ b <= u /\ u < mid
      BY <1>7
    <3>2. QED
      BY <1>9, <3>1
  <2>3. ASSUME NEW u \in G \cup {HEAD} PROVE g.prev[u] = x.prev[u] /\ g.next[u] = x.next[u]
    <3>1. u \in -1..n /\ ~(b <= u /\ u < mid)
      <4>1. CASE u = HEAD
        <5>1. u = -1
          BY <4>1 DEF HEAD
        <5>2. QED
          BY <1>7, <5>1
      <4>2. CASE u = mid
        BY <1>7, <4>2
      <4>3. CASE u \in F /\ u # f
        BY <1>5, <1>7, <1>12, <4>3
      <4>4. QED
        BY <4>1, <4>2, <4>3 DEF G
    <3>2. QED
      BY <1>9, <3>1
  <2>4. QED
    BY <1>5, <1>9, <2>1, <2>2, <2>3, SameList
<1>14. /\ ~BtFree(g, b)
       /\ mid # hi => BtFree(g, mid) /\ BtSize(g, mid) = hi - mid
  BY <1>5, <1>6, <1>10 DEF BtFree, BtSize
<1>15. Recut(h, g, n, S, b, mid, hi)
  <2>1. ASSUME NEW c \in S, c < b \/ c >= hi PROVE g.hdr[c].size = h.hdr[c].size
    <3>1. c \in 0..(n - 1)
      BY <1>1
    <3>2. c < b \/ c > hi \/ c = hi
      BY <1>7, <2>1, <3>1
    <3>3. QED
      BY <1>5, <1>10, <3>1, <3>2
  <2>2. mid # hi => g.hdr[mid].size = hi - mid
    BY <1>10
  <2>3. mid \in b..hi /\ b # mid
    BY <1>5, <1>7
  <2>4. QED
    BY <1>2, <1>5, <1>10, <2>1, <2>2, <2>3 DEF Recut
<1>16. Edited(h, g, n, S, b, hi)
  <2>1. ASSUME hi \in S
        PROVE  /\ g.hdr[hi].flags \ {"PREVFREE"} = h.hdr[hi].flags \ {"PREVFREE"}
               /\ BtFree(h, hi) => g.hdr[hi] = h.hdr[hi]
    BY <1>2, <1>5, <1>10, <2>1
  <2>2. QED
    BY <1>10, <1>11, <1>13, <2>1 DEF Edited, F
<1>17. BtNext(g, b) = mid
  BY <1>8, <1>10 DEF BtNext, BtSize
<1>18. Untouched(g, b)
  <2>1. ASSUME NEW u \in b..(mid - 1)
        PROVE  /\ g.prev[u] = DATAPTR /\ g.next[u] = DATAPTR
               /\ u > b => g.hdr[u] = DATA /\ g.foot[u - 1] = DATA
    <3>1. u > b => u \in (b + 1)..(mid - 1) /\ u - 1 \in b..(mid - 2)
      BY <1>7
    <3>2. QED
      BY <1>10, <1>11, <1>13, <3>1
  <2>2. QED
    BY <1>17, <2>1 DEF Untouched
<1>19. Edit(h, g, n, S, b, mid, hi)
  <2>1. FirstFits(h, g, n, S, b, mid, hi)
    BY <1>5, <1>10, <1>11, <1>14, <1>18 DEF FirstFits
  <2>2. SecondFits(g, n, b, mid, hi)
    <3>1. mid # hi /\ "ISLAST" \in g.hdr[mid].flags => hi = n
      BY <1>2, <1>10
    <3>2. QED
      BY <1>11, <1>14, <3>1 DEF SecondFits
  <2>3. NextFits(h, g, S, b, mid, hi)
    <3>1. CASE mid = hi
      <4>1. hi \in S => "PREVFREE" \notin g.hdr[hi].flags
        BY <1>5, <1>10, <3>1
      <4>2. Last(b, mid, hi) = b
        BY <3>1 DEF Last
      <4>3. QED
        BY <1>2, <1>14, <4>1, <4>2 DEF NextFits
    <3>2. CASE mid # hi
      <4>1. hi \in S => "PREVFREE" \in g.hdr[hi].flags
        BY <1>2, <1>5, <1>10, <3>2
      <4>2. Last(b, mid, hi) = mid
        BY <3>2 DEF Last
      <4>3. QED
        BY <1>2, <1>14, <3>2, <4>1, <4>2 DEF NextFits
    <3>3. QED
      BY <3>1, <3>2
  <2>4. QED
    BY <1>15, <1>16, <2>1, <2>2, <2>3 DEF Edit
<1>20. /\ FreeOf(g, R) = {c \in FreeOf(h, S) : c < b \/ c >= hi}
                            \cup {c \in {c \in {b, mid} : c < hi} : BtFree(g, c)}
       /\ UsedOf(g, R) = {c \in UsedOf(h, S) : c < b \/ c >= hi}
                            \cup {c \in {c \in {b, mid} : c < hi} : ~BtFree(g, c)}
  BY <1>1, <1>9, <1>15, <1>16, RecutFree DEF R
<1>21. b < hi /\ (mid # hi => mid < hi) /\ ~(f < b) /\ ~(f >= hi)
  BY <1>2, <1>3, <1>5, <1>7
<1>22. FreeOf(g, R) = G
  <2>1. ASSUME NEW c \in FreeOf(g, R) PROVE c \in G
    <3>1. CASE c \in F /\ (c < b \/ c >= hi)
      BY <1>21, <3>1 DEF G
    <3>2. CASE c \in {b, mid} /\ c < hi /\ BtFree(g, c)
      BY <1>14, <3>2 DEF G
    <3>3. QED
      BY <1>20, <3>1, <3>2 DEF F
  <2>2. ASSUME NEW c \in G PROVE c \in FreeOf(g, R)
    <3>1. CASE c \in F /\ c # f
      BY <1>12, <1>20, <3>1 DEF F
    <3>2. CASE c = mid /\ mid < hi
      <4>1. mid # hi
        BY <1>7, <3>2
      <4>2. QED
        BY <1>14, <1>20, <3>2, <4>1
    <3>3. QED
      BY <3>1, <3>2 DEF G
  <2>3. QED
    BY <2>1, <2>2
<1>23. UsedOf(g, R) = UsedOf(h, S) \cup {b}
  <2>1. ASSUME NEW c \in UsedOf(g, R) PROVE c \in UsedOf(h, S) \cup {b}
    <3>1. c = mid /\ c < hi => BtFree(g, c)
      BY <1>7, <1>14
    <3>2. QED
      BY <1>20, <3>1
  <2>2. ASSUME NEW c \in UsedOf(h, S), c # b PROVE c \in UsedOf(g, R)
    <3>1. c \in S /\ c # f
      BY DEF UsedOf, FreeOf
    <3>2. QED
      BY <1>4, <1>20, <2>2, <3>1
  <2>3. b \in UsedOf(g, R)
    BY <1>14, <1>20, <1>21
  <2>4. QED
    BY <2>1, <2>2, <2>3
<1>24. g.totalFree = Sums(Offers(g, n, R), n)[n]
  <2> DEFINE j == IF mid = hi THEN f ELSE mid
  <2>1. f \in b..(hi - 1) /\ j \in b..(hi - 1)
    BY <1>2, <1>3, <1>5, <1>7
  <2>2. ASSUME NEW u \in b..(hi - 1), u # f, u # j
        PROVE  u \notin FreeOf(h, S) /\ u \notin FreeOf(g, R)
    <3>1. ~(u < b) /\ ~(u >= hi)
      BY <1>7
    <3>2. u \notin F
      BY <1>12, <2>2, <3>1
    <3>3. u \notin left
      BY <1>7, <2>2
    <3>4. QED
      BY <1>22, <3>2, <3>3 DEF G, F
  <2>3. Sums(Offers(g, n, R), n)[n] =
          Sums(Offers(h, n, S), n)[n] + (Offer(g, R, f) - Offer(h, S, f))
            + IF j = f THEN 0 ELSE Offer(g, R, j) - Offer(h, S, j)
    <3> HIDE DEF j
    <3>1. QED
      BY <1>1, <1>9, <1>15, <1>16, <2>1, <2>2, RecutTotal DEF R
  <2>4. f \notin G
    <3>1. f # mid
      BY <1>5, <1>7
    <3>2. QED
      BY <3>1 DEF G
  <2>5. Offer(g, R, f) = 0 /\ Offer(h, S, f) = 16 * (hi - f) - 8
    BY <1>2, <1>22, <2>4 DEF Offer, ALIGNMENT, USEDBLK_SZ
  <2>6. CASE mid = hi
    <3>1. j = f
      BY <2>6
    <3>2. QED
      BY <1>1, <1>5, <1>7, <1>9, <2>3, <2>5, <2>6, <3>1
  <2>7. CASE mid # hi
    <3>1. mid \in FreeOf(g, R)
      BY <1>21, <1>22, <2>7 DEF G
    <3>2. mid \notin FreeOf(h, S)
      <4>1. ~(mid < b) /\ ~(mid >= hi) /\ mid # f
        BY <1>5, <1>7, <2>7
      <4>2. QED
        BY <1>12, <4>1 DEF F
    <3>3. Offer(g, R, mid) = 16 * (hi - mid) - 8 /\ Offer(h, S, mid) = 0
      BY <1>14, <2>7, <3>1, <3>2 DEF Offer, ALIGNMENT, USEDBLK_SZ
    <3>4. j = mid /\ j # f
      BY <1>5, <1>7, <2>7
    <3>5. Sums(Offers(g, n, R), n)[n] =
            Sums(Offers(h, n, S), n)[n] + (0 - (16 * (hi - f) - 8)) + ((16 * (hi - mid) - 8) - 0)
      BY <2>3, <2>5, <3>3, <3>4
    <3>6. QED
      BY <1>1, <1>5, <1>7, <1>9, <2>7, <3>5
  <2>8. QED
    BY <2>6, <2>7
<1>25. Good(g, n, R)
  <2>1. Listed(g, n, FreeOf(g, R))
    BY <1>13, <1>22
  <2>2. QED
    BY <1>9, <1>19, <1>24, <2>1, GoodEdit DEF R
<1>26. QED
  BY <1>9, <1>23, <1>25 DEF R, g, hi

LEMMA AllocSplits ==
  ASSUME NEW n \in Nat, NEW h, NEW S, Good(h, n, S), NEW b \in FreeOf(h, S),
         NEW reqsz \in Nat, reqsz > 0, BtSize(h, b) > reqsz
  PROVE  Takes(h, ArenaMemAlloc(h, b, reqsz), n, S, b, b, b + reqsz)
<1> DEFINE F == FreeOf(h, S)
           hi == BtNext(h, b)
           mid == b + reqsz
           rest == BtSize(h, b) - reqsz
           last == BtHas(h, b, "ISLAST")
           x1 == FreeRemove(h, b)
           x2 == BtMake(x1, b, reqsz, {"USED"} \cup last)
           x3 == BtMake(x2, mid, rest, last)
           x4 == BtClear(x3, b, "ISLAST")
           x5 == ArenaFreeInsert(x4, mid)
           x6 == ArenaDecFree(x5, ALIGNMENT * reqsz)
           tag1 == [size |-> reqsz, flags |-> {"USED"}]
           tag2 == [size |-> rest, flags |-> last]
<1>1. /\ h \in Words(n) /\ Cut(h, n, S) /\ \A c \in S : Fits(h, n, S, c)
      /\ Listed(h, n, F) /\ h.totalFree = Sums(Offers(h, n, S), n)[n]
      /\ S \in SUBSET (0..(n - 1)) /\ F \in SUBSET (0..(n - 1))
      /\ Sums(Offers(h, n, S), n)[n] \in Int
  BY GoodType
<1>2. /\ b \in S /\ b \in 0..(n - 1) /\ hi \in (b + 1)..n /\ hi \in S \cup {n}
      /\ BtSize(h, b) = hi - b
      /\ last \in SUBSET Flags /\ (last # {} => hi = n) /\ ~FreePred(h, S, b)
      /\ hi \in S => ~BtFree(h, hi) /\ "PREVFREE" \in h.hdr[hi].flags
  <2>1. h \in Words(n) /\ Cut(h, n, S) /\ \A c \in S : Fits(h, n, S, c)
    BY <1>1
  <2> HIDE DEF F
  <2>2. QED
    BY <2>1, FreeBlockIs
<1>3. ArenaMemAlloc(h, b, reqsz) = x6
  BY <1>2 DEF ArenaMemAlloc
<1>4. /\ last = {} \/ last = {"ISLAST"}
      /\ "USED" \notin last /\ {"USED"} \cup last \in SUBSET Flags
      /\ ({"USED"} \cup last) \ {"ISLAST"} = {"USED"}
  BY DEF BtHas, Flags
<1> HIDE DEF hi, last
<1>5. /\ mid \in (b + 1)..(hi - 1) /\ mid \in 0..(n - 1) /\ rest \in Nat /\ rest > 0
      /\ mid + rest = hi /\ mid <= n /\ b # mid /\ hi \in 0..n
  BY <1>2
<1> HIDE DEF mid, rest
<1>6. /\ x1 \in Words(n) /\ x1.hdr = h.hdr /\ x1.foot = h.foot
      /\ x1.totalFree = h.totalFree /\ x1.wild = h.wild
      /\ Listed(x1, n, F \ {b})
      /\ \A u \in 0..(n - 1) : u \notin F => x1.next[u] = h.next[u] /\ x1.prev[u] = h.prev[u]
  <2> HIDE DEF F
  <2>1. b \in F
    BY DEF F
  <2>2. QED
    BY <1>1, <2>1, RemoveKeeps
<1> HIDE DEF x1
<1>7. /\ x2 \in Words(n) /\ x2.prev = x1.prev /\ x2.next = x1.next
      /\ x2.totalFree = x1.totalFree /\ x2.wild = x1.wild
      /\ \A u \in 0..n : x2.hdr[u] = IF u = b THEN [size |-> reqsz, flags |-> {"USED"} \cup last]
                                     ELSE h.hdr[u]
      /\ \A u \in 0..(n - 1) : x2.foot[u] = IF u = mid - 1 THEN CANARY ELSE h.foot[u]
  <2>1. b + reqsz <= n /\ "USED" \in {"USED"} \cup last
    BY <1>5 DEF mid
  <2>2. QED
    <3> DEFINE flags == {"USED"} \cup last
    <3>1. flags \in SUBSET Flags /\ "USED" \in flags
      BY <1>4
    <3> HIDE DEF flags
    <3>2. Made(BtMake(x1, b, reqsz, flags), x1, n, b, reqsz, flags)
      <4>1. x1 \in Words(n) /\ b \in 0..(n - 1) /\ b + reqsz <= n /\ flags \in SUBSET Flags
        BY <1>2, <1>6, <2>1, <3>1
      <4>2. QED
        BY <4>1, MakeIs
    <3>3. x2 = BtMake(x1, b, reqsz, flags)
      BY DEF flags
    <3>4. b + reqsz - 1 = mid - 1
      BY <1>2 DEF mid
    <3> HIDE DEF x2
    <3>5. QED
      <4>1. /\ x2 \in Words(n) /\ x2.prev = x1.prev /\ x2.next = x1.next
            /\ x2.totalFree = x1.totalFree /\ x2.wild = x1.wild
        BY <3>2, <3>3 DEF Made
      <4>2. \A u \in 0..n : x2.hdr[u] = IF u = b THEN [size |-> reqsz, flags |-> flags]
                                         ELSE h.hdr[u]
        BY <1>6, <3>2, <3>3 DEF Made
      <4>3. \A u \in 0..(n - 1) : x2.foot[u] = IF u = mid - 1 THEN CANARY ELSE h.foot[u]
        BY <1>6, <3>1, <3>2, <3>3, <3>4 DEF Made
      <4>4. QED
        BY <4>1, <4>2, <4>3 DEF flags
<1> HIDE DEF x2
<1>8. /\ x3 \in Words(n) /\ x3.prev = x1.prev /\ x3.next = x1.next
      /\ x3.totalFree = h.totalFree /\ x3.wild = h.wild
      /\ \A u \in 0..n : x3.hdr[u] = IF u = mid THEN tag2 ELSE x2.hdr[u]
      /\ \A u \in 0..(n - 1) : x3.foot[u] = IF u = hi - 1 THEN tag2 ELSE x2.foot[u]
  <2>1. mid + rest <= n
    BY <1>2, <1>5
  <2>2. Made(x3, x2, n, mid, rest, last)
    <3>1. x2 \in Words(n) /\ last \in SUBSET Flags
      BY <1>2, <1>7
    <3>2. QED
      BY <1>5, <2>1, <3>1, MakeIs
  <2>3. QED
    BY <1>4, <1>5, <1>6, <1>7, <2>2 DEF Made
<1> HIDE DEF x3
<1>9. /\ x4 \in Words(n) /\ x4.prev = x1.prev /\ x4.next = x1.next /\ x4.foot = x3.foot
      /\ x4.totalFree = h.totalFree /\ x4.wild = h.wild
      /\ \A u \in 0..n : x4.hdr[u] = IF u = b THEN tag1 ELSE x3.hdr[u]
  <2>1. b \in 0..n
    BY <1>2
  <2>2. LET tag == [size |-> x3.hdr[b].size, flags |-> x3.hdr[b].flags \ {"ISLAST"}]
        IN  /\ x4 \in Words(n) /\ x4.prev = x3.prev /\ x4.next = x3.next /\ x4.foot = x3.foot
            /\ x4.totalFree = x3.totalFree /\ x4.wild = x3.wild
            /\ \A u \in 0..n : x4.hdr[u] = IF u = b THEN tag ELSE x3.hdr[u]
    BY <1>8, <2>1, ClearIs
  <2>3. x3.hdr[b] = [size |-> reqsz, flags |-> {"USED"} \cup last]
    BY <1>5, <1>7, <1>8, <2>1
  <2>4. [size |-> x3.hdr[b].size, flags |-> x3.hdr[b].flags \ {"ISLAST"}] = tag1
    BY <1>4, <2>3
  <2>5. QED
    BY <1>8, <2>2, <2>4
<1> HIDE DEF x4
<1> DEFINE G == (F \ {b}) \cup {mid}
<1>10. mid \notin F
  <2>1. \A c \in S : b < c => hi <= c
    BY <1>1, <1>2 DEF Cut, hi
  <2>2. QED
    BY <1>1, <1>2, <1>5, <2>1 DEF FreeOf
<1>11. /\ x5 \in Words(n) /\ x5.hdr = x4.hdr /\ x5.foot = x4.foot
       /\ x5.totalFree = h.totalFree /\ x5.wild = h.wild
       /\ Listed(x5, n, G)
       /\ \A u \in 0..(n - 1) : u \notin G => x5.next[u] = x1.next[u] /\ x5.prev[u] = x1.prev[u]
  <2> DEFINE E == F \ {b}
  <2>1. E \in SUBSET (0..(n - 1)) /\ mid \notin E
    BY <1>1, <1>10
  <2> HIDE DEF F
  <2>2. Listed(x4, n, E)
    <3>1. Listed(x1, n, E)
      BY <1>6
    <3> HIDE DEF E
    <3>2. QED
      BY <1>6, <1>9, <3>1, SameList
  <2> HIDE DEF E
  <2>3. Inserted(ArenaFreeInsert(x4, mid), x4, n, E, mid)
    BY <1>5, <1>9, <2>1, <2>2, InsertKeeps
  <2>4. QED
    BY <1>9, <2>3 DEF E, Inserted
<1> HIDE DEF x5
<1>12. /\ x6 \in Words(n) /\ x6.hdr = x4.hdr /\ x6.foot = x3.foot
       /\ x6.prev = x5.prev /\ x6.next = x5.next /\ x6.wild = h.wild
       /\ x6.totalFree = h.totalFree - 16 * reqsz
  <2>1. x5.totalFree - 16 * reqsz \in Int /\ x6 = [x5 EXCEPT !.totalFree = x5.totalFree - 16 * reqsz]
    BY <1>1, <1>11 DEF ArenaDecFree, ALIGNMENT
  <2> HIDE DEF x6
  <2>2. QED
    BY <1>9, <1>11, <2>1, TotalIs
<1> HIDE DEF x6
<1>13. b \in 0..n /\ mid \in 0..n /\ mid # b
  BY <1>2, <1>5
<1>14. /\ x6.hdr[b] = tag1 /\ x6.hdr[mid] = tag2
       /\ \A u \in 0..n : u # b /\ u # mid => x6.hdr[u] = h.hdr[u]
  <2>1. x6.hdr[b] = tag1
    BY <1>9, <1>12, <1>13
  <2>2. x6.hdr[mid] = tag2
    BY <1>8, <1>9, <1>12, <1>13
  <2>3. \A u \in 0..n : u # b /\ u # mid => x6.hdr[u] = h.hdr[u]
    BY <1>7, <1>8, <1>9, <1>12
  <2>4. QED
    BY <2>1, <2>2, <2>3
<1>15. /\ x6.foot[mid - 1] = CANARY /\ x6.foot[hi - 1] = tag2
       /\ \A u \in 0..(n - 1) : u < b \/ u >= hi => x6.foot[u] = h.foot[u]
  <2>1. mid - 1 \in 0..(n - 1) /\ hi - 1 \in 0..(n - 1) /\ mid - 1 # hi - 1
    BY <1>2, <1>5
  <2>2. ASSUME NEW u \in 0..(n - 1), u < b \/ u >= hi PROVE x6.foot[u] = h.foot[u]
    <3>1. u # mid - 1 /\ u # hi - 1
      BY <1>2, <1>5, <2>2
    <3>2. QED
      BY <1>7, <1>8, <1>12, <3>1
  <2>3. x6.foot[mid - 1] = CANARY /\ x6.foot[hi - 1] = tag2
    BY <1>7, <1>8, <1>12, <2>1
  <2>4. QED
    BY <2>2, <2>3
<1> DEFINE left == {c \in {mid} : c < hi}
<1>16. left = {mid} /\ mid # hi /\ mid \in (b + 1)..hi /\ b < mid /\ hi \in 0..n
  BY <1>2, <1>5
<1>17. \A u \in 0..(n - 1) : u < b \/ u > hi => x6.hdr[u] = h.hdr[u]
  BY <1>2, <1>5, <1>14
<1>18. hi \in S => x6.hdr[hi] = h.hdr[hi]
  BY <1>2, <1>5, <1>14
<1>19. /\ Listed(x6, n, G)
       /\ \A u \in 0..(n - 1) : u \notin F \cup {mid} =>
            x6.next[u] = h.next[u] /\ x6.prev[u] = h.prev[u]
  <2>1. Listed(x6, n, G)
    <3> HIDE DEF G
    <3>1. QED
      BY <1>11, <1>12, SameList
  <2>2. QED
    BY <1>6, <1>11, <1>12, <2>1
<1>20. x6.totalFree = h.totalFree - 16 * (mid - b) /\ mid - b = reqsz /\ hi - mid = rest
  BY <1>2, <1>5, <1>12 DEF mid, rest
<1>21. Takes(h, x6, n, S, b, b, mid)
  <2> HIDE DEF left, G
  <2>1. h.hdr[hi].flags \ {c \in {"PREVFREE"} : mid = hi} = h.hdr[hi].flags
    BY <1>16
  <2>2. "PREVFREE" \in x6.hdr[b].flags <=> FreePred(h, S, b)
    BY <1>2, <1>14
  <2>3. /\ x6.hdr[b].size = mid - b /\ "USED" \in x6.hdr[b].flags
        /\ "ISLAST" \notin x6.hdr[b].flags /\ x6.hdr[mid] = [size |-> hi - mid, flags |-> last]
    BY <1>14, <1>20
  <2>4. FreeOf(h, S) \cup left = F \cup {mid} /\ (FreeOf(h, S) \ {b}) \cup left = G
    BY <1>16 DEF F, G
  <2>5. /\ Listed(x6, n, (FreeOf(h, S) \ {b}) \cup left)
        /\ \A u \in 0..(n - 1) : u \notin FreeOf(h, S) \cup left =>
             x6.next[u] = h.next[u] /\ x6.prev[u] = h.prev[u]
    BY <1>19, <2>4
  <2> HIDE DEF F
  <2>6. QED
    BY <1>12, <1>14, <1>15, <1>16, <1>17, <1>18, <1>20, <2>1, <2>2, <2>3, <2>5
       DEF Takes, left, hi, last
<1>22. QED
  BY <1>3, <1>21 DEF mid

LEMMA AllocWhole ==
  ASSUME NEW n \in Nat, NEW h, NEW S, Good(h, n, S), NEW b \in FreeOf(h, S),
         NEW reqsz \in Nat, reqsz > 0, BtSize(h, b) = reqsz
  PROVE  Takes(h, ArenaMemAlloc(h, b, reqsz), n, S, b, b, b + reqsz)
<1> DEFINE F == FreeOf(h, S)
           hi == BtNext(h, b)
           last == BtHas(h, b, "ISLAST")
           used == {"USED"} \cup last
           x1 == FreeRemove(h, b)
           x2 == BtMake(x1, b, reqsz, used)
           x3 == IF last = {} THEN BtClear(x2, b + reqsz, "PREVFREE") ELSE x2
           x4 == ArenaDecFree(x3, ALIGNMENT * reqsz - USEDBLK_SZ)
           tag == [size |-> reqsz, flags |-> used]
           G == F \ {b}
<1>1. /\ h \in Words(n) /\ Cut(h, n, S) /\ \A c \in S : Fits(h, n, S, c)
      /\ Listed(h, n, F) /\ h.totalFree = Sums(Offers(h, n, S), n)[n]
      /\ S \in SUBSET (0..(n - 1)) /\ F \in SUBSET (0..(n - 1))
      /\ Sums(Offers(h, n, S), n)[n] \in Int
  BY GoodType
<1>2. /\ b \in S /\ b \in 0..(n - 1) /\ hi \in (b + 1)..n /\ hi \in S \cup {n}
      /\ BtSize(h, b) = hi - b
      /\ last \in SUBSET Flags /\ (last # {} => hi = n) /\ ~FreePred(h, S, b)
      /\ hi \in S => ~BtFree(h, hi) /\ "PREVFREE" \in h.hdr[hi].flags
  <2>1. h \in Words(n) /\ Cut(h, n, S) /\ \A c \in S : Fits(h, n, S, c)
    BY <1>1
  <2> HIDE DEF F
  <2>2. QED
    BY <2>1, FreeBlockIs
<1>3. ArenaMemAlloc(h, b, reqsz) = x4
  <2>1. ~(BtSize(h, b) - reqsz > 0)
    BY <1>2
  <2>2. QED
    BY <2>1 DEF ArenaMemAlloc
<1>4. /\ "USED" \in used /\ "PREVFREE" \notin used /\ used \in SUBSET Flags
      /\ "ISLAST" \in used => hi = n
  BY <1>2 DEF BtHas, Flags
<1> HIDE DEF hi, last, used
<1>5. b + reqsz = hi /\ hi \in 0..n /\ b < hi /\ b \in 0..n /\ hi - b = reqsz
  BY <1>2
<1>6. /\ x1 \in Words(n) /\ x1.hdr = h.hdr /\ x1.foot = h.foot
      /\ x1.totalFree = h.totalFree /\ x1.wild = h.wild
      /\ Listed(x1, n, G)
      /\ \A u \in 0..(n - 1) : u \notin F => x1.next[u] = h.next[u] /\ x1.prev[u] = h.prev[u]
  <2>1. b \in F
    OBVIOUS
  <2> HIDE DEF F
  <2>2. QED
    BY <1>1, <2>1, RemoveKeeps
<1> HIDE DEF x1, G
<1>7. /\ x2 \in Words(n) /\ x2.prev = x1.prev /\ x2.next = x1.next
      /\ x2.totalFree = h.totalFree /\ x2.wild = h.wild
      /\ \A u \in 0..n : x2.hdr[u] = IF u = b THEN tag ELSE h.hdr[u]
      /\ \A u \in 0..(n - 1) : x2.foot[u] = IF u = hi - 1 THEN CANARY ELSE h.foot[u]
  <2>1. x1 \in Words(n) /\ b + reqsz <= n /\ b + reqsz - 1 = hi - 1
    BY <1>2, <1>5, <1>6
  <2>2. Made(x2, x1, n, b, reqsz, used)
    <3>1. x1 \in Words(n) /\ b \in 0..(n - 1) /\ b + reqsz <= n /\ used \in SUBSET Flags
      BY <1>2, <1>4, <2>1
    <3>2. QED
      BY <3>1, MakeIs
  <2> HIDE DEF x2
  <2>3. QED
    <3>1. /\ x2 \in Words(n) /\ x2.prev = x1.prev /\ x2.next = x1.next
          /\ x2.totalFree = h.totalFree /\ x2.wild = h.wild
      BY <1>6, <2>2 DEF Made
    <3>2. \A u \in 0..n : x2.hdr[u] = IF u = b THEN tag ELSE h.hdr[u]
      BY <1>6, <2>2 DEF Made
    <3>3. \A u \in 0..(n - 1) : x2.foot[u] = IF u = hi - 1 THEN CANARY ELSE h.foot[u]
      BY <1>4, <1>6, <2>1, <2>2 DEF Made
    <3>4. QED
      BY <3>1, <3>2, <3>3
<1> HIDE DEF x2
<1>8. /\ x3 \in Words(n) /\ x3.prev = x1.prev /\ x3.next = x1.next /\ x3.foot = x2.foot
      /\ x3.totalFree = h.totalFree /\ x3.wild = h.wild
      /\ \A u \in 0..n : u # hi => x3.hdr[u] = x2.hdr[u]
      /\ hi \in S => x3.hdr[hi].size = h.hdr[hi].size
                     /\ x3.hdr[hi].flags = h.hdr[hi].flags \ {"PREVFREE"}
  <2>1. x2.hdr[hi] = h.hdr[hi]
    BY <1>5, <1>7
  <2>2. CASE last = {}
    <3>1. x3 = BtClear(x2, hi, "PREVFREE")
      BY <1>5, <2>2
    <3>2. LET y == BtClear(x2, hi, "PREVFREE")
              t == [size |-> x2.hdr[hi].size, flags |-> x2.hdr[hi].flags \ {"PREVFREE"}]
          IN  /\ y \in Words(n) /\ y.prev = x2.prev /\ y.next = x2.next /\ y.foot = x2.foot
              /\ y.totalFree = x2.totalFree /\ y.wild = x2.wild
              /\ \A u \in 0..n : y.hdr[u] = IF u = hi THEN t ELSE x2.hdr[u]
      BY <1>5, <1>7, ClearIs
    <3> HIDE DEF x3
    <3>3. QED
      BY <1>5, <1>7, <2>1, <3>1, <3>2
  <2>3. CASE last # {}
    <3>1. x3 = x2
      BY <2>3
    <3>2. hi \notin S
      <4>1. \A c \in S : c \in 0..(n - 1)
        BY <1>1
      <4>2. hi = n
        BY <1>2, <2>3
      <4>3. QED
        BY <4>1, <4>2
    <3> HIDE DEF x3
    <3>3. QED
      BY <1>7, <3>1, <3>2
  <2>4. QED
    BY <2>2, <2>3
<1> HIDE DEF x3
<1>9. /\ x4 \in Words(n) /\ x4.hdr = x3.hdr /\ x4.foot = x2.foot
      /\ x4.prev = x1.prev /\ x4.next = x1.next /\ x4.wild = h.wild
      /\ x4.totalFree = h.totalFree - (16 * (hi - b) - 8)
  <2>1. /\ x3.totalFree - (16 * reqsz - 8) \in Int
        /\ x4 = [x3 EXCEPT !.totalFree = x3.totalFree - (16 * reqsz - 8)]
    BY <1>1, <1>8 DEF ArenaDecFree, ALIGNMENT, USEDBLK_SZ
  <2> HIDE DEF x4
  <2>2. QED
    BY <1>5, <1>8, <2>1, TotalIs
<1> HIDE DEF x4
<1>10. /\ x4.hdr[b] = tag
       /\ \A u \in 0..(n - 1) : u < b \/ u > hi => x4.hdr[u] = h.hdr[u]
  <2>1. \A u \in 0..n : u # b /\ u # hi => x4.hdr[u] = h.hdr[u]
    BY <1>7, <1>8, <1>9
  <2>2. ASSUME NEW u \in 0..(n - 1), u < b \/ u > hi PROVE u \in 0..n /\ u # b /\ u # hi
    BY <1>5, <2>2
  <2>3. x4.hdr[b] = tag
    BY <1>5, <1>7, <1>8, <1>9
  <2>4. QED
    BY <2>1, <2>2, <2>3
<1>11. /\ x4.foot[hi - 1] = CANARY
       /\ \A u \in 0..(n - 1) : u < b \/ u >= hi => x4.foot[u] = h.foot[u]
  <2>1. hi - 1 \in 0..(n - 1)
    BY <1>2, <1>5
  <2>2. ASSUME NEW u \in 0..(n - 1), u < b \/ u >= hi PROVE u # hi - 1
    BY <1>5, <2>2
  <2>3. QED
    BY <1>7, <1>9, <2>1, <2>2
<1>12. Listed(x4, n, G)
  BY <1>6, <1>9, SameList
<1> DEFINE left == {c \in {hi} : c < hi}
<1>13. left = {} /\ {c \in {"PREVFREE"} : hi = hi} = {"PREVFREE"} /\ hi \in (b + 1)..hi
  BY <1>2, <1>5
<1>14. Takes(h, x4, n, S, b, b, hi)
  <2> HIDE DEF left
  <2>1. FreeOf(h, S) \cup left = F /\ (FreeOf(h, S) \ {b}) \cup left = G
    BY <1>13 DEF F, G
  <2>2. /\ Listed(x4, n, (FreeOf(h, S) \ {b}) \cup left)
        /\ \A u \in 0..(n - 1) : u \notin FreeOf(h, S) \cup left =>
             x4.next[u] = h.next[u] /\ x4.prev[u] = h.prev[u]
    BY <1>6, <1>9, <1>12, <2>1
  <2>3. /\ x4.hdr[b].size = hi - b /\ "USED" \in x4.hdr[b].flags
        /\ "ISLAST" \in x4.hdr[b].flags => hi = n
        /\ "PREVFREE" \in x4.hdr[b].flags <=> FreePred(h, S, b)
    <3>1. x4.hdr[b].size = hi - b /\ x4.hdr[b].flags = used
      BY <1>5, <1>10
    <3>2. ~FreePred(h, S, b)
      BY <1>2
    <3>3. QED
      BY <1>4, <3>1, <3>2
  <2>4. hi \in S => /\ x4.hdr[hi].size = h.hdr[hi].size
                    /\ x4.hdr[hi].flags = h.hdr[hi].flags \ {c \in {"PREVFREE"} : hi = hi}
    BY <1>8, <1>9, <1>13
  <2> HIDE DEF F
  <2>5. QED
    BY <1>5, <1>9, <1>10, <1>11, <1>13, <2>2, <2>3, <2>4 DEF Takes, left, hi
<1>15. QED
  BY <1>3, <1>5, <1>14

LEMMA ExpandSplits ==
  ASSUME NEW n \in Nat, NEW h, NEW S, Good(h, n, S), NEW b \in S, ~BtFree(h, b),
         NEW f \in FreeOf(h, S), f = BtNext(h, b), NEW reqsz \in Nat, reqsz > BtSize(h, b),
         BtSize(h, b) + BtSize(h, f) > reqsz
  PROVE  Takes(h, Expand(h, b, reqsz), n, S, b, f, b + reqsz)
<1> DEFINE F == FreeOf(h, S)
           hi == BtNext(h, f)
           mid == b + reqsz
           rest == BtSize(h, b) + BtSize(h, f) - reqsz
           last == BtHas(h, f, "ISLAST")
           used == {"USED"} \cup BtHas(h, b, "PREVFREE")
           x1 == FreeRemove(h, f)
           x2 == BtMake(x1, b, reqsz, used)
           x3 == BtMake(x2, mid, rest, last)
           x4 == ArenaFreeInsert(x3, mid)
           x5 == ArenaDecFree(x4, ALIGNMENT * (reqsz - BtSize(h, b)))
           tag2 == [size |-> rest, flags |-> last]
           G == (F \ {f}) \cup {mid}
           tag1 == [size |-> reqsz, flags |-> used]
<1>1. /\ h \in Words(n) /\ Cut(h, n, S) /\ \A c \in S : Fits(h, n, S, c)
      /\ Listed(h, n, F) /\ h.totalFree = Sums(Offers(h, n, S), n)[n]
      /\ S \in SUBSET (0..(n - 1)) /\ F \in SUBSET (0..(n - 1))
      /\ Sums(Offers(h, n, S), n)[n] \in Int
  BY GoodType
<1>2. /\ f \in S /\ f \in 0..(n - 1) /\ hi \in (f + 1)..n /\ hi \in S \cup {n}
      /\ BtSize(h, f) = hi - f
      /\ last \in SUBSET Flags /\ (last # {} => hi = n)
      /\ hi \in S => ~BtFree(h, hi) /\ "PREVFREE" \in h.hdr[hi].flags
  <2>1. h \in Words(n) /\ Cut(h, n, S) /\ \A c \in S : Fits(h, n, S, c)
    BY <1>1
  <2> HIDE DEF F
  <2>2. QED
    BY <2>1, FreeBlockIs
<1>3. b \in 0..(n - 1) /\ f = b + BtSize(h, b) /\ BtSize(h, b) \in 1..n
  BY <1>1, CutType
<1>4. /\ "USED" \in used /\ "ISLAST" \notin used /\ used \in SUBSET Flags
      /\ "PREVFREE" \in used <=> FreePred(h, S, b)
  <2>1. "PREVFREE" \in h.hdr[b].flags <=> FreePred(h, S, b)
    BY <1>1 DEF Fits
  <2>2. QED
    BY <2>1 DEF BtHas, Flags
<1>5. "USED" \notin last
  BY DEF BtHas
<1>6. Expand(h, b, reqsz) = x5
  <2>1. rest > 0
    BY <1>2, <1>3
  <2>2. QED
    BY <2>1 DEF Expand
<1> HIDE DEF hi, last, used, mid, rest
<1>7. /\ mid \in (f + 1)..hi /\ mid \in (b + 1)..hi /\ mid \in 0..n /\ hi \in 0..n
      /\ rest = hi - mid /\ mid - b = reqsz /\ b < f /\ f < mid /\ b + reqsz = mid
      /\ b \in 0..n /\ f \in 0..n /\ rest > 0
  BY <1>2, <1>3 DEF mid, rest
<1>8. /\ x1 \in Words(n) /\ x1.hdr = h.hdr /\ x1.foot = h.foot
      /\ x1.totalFree = h.totalFree /\ x1.wild = h.wild
      /\ Listed(x1, n, F \ {f})
      /\ \A u \in 0..(n - 1) : u \notin F => x1.next[u] = h.next[u] /\ x1.prev[u] = h.prev[u]
  <2>1. f \in F
    OBVIOUS
  <2> HIDE DEF F
  <2>2. QED
    BY <1>1, <2>1, RemoveKeeps
<1> HIDE DEF x1
<1>9. /\ x2 \in Words(n) /\ x2.prev = x1.prev /\ x2.next = x1.next
      /\ x2.totalFree = h.totalFree /\ x2.wild = h.wild
      /\ \A u \in 0..n : x2.hdr[u] = IF u = b THEN tag1 ELSE h.hdr[u]
      /\ \A u \in 0..(n - 1) : x2.foot[u] = IF u = mid - 1 THEN CANARY ELSE h.foot[u]
  <2>1. /\ x1 \in Words(n) /\ b \in 0..(n - 1) /\ b + reqsz <= n /\ used \in SUBSET Flags
        /\ b + reqsz - 1 = mid - 1
    BY <1>2, <1>3, <1>4, <1>7, <1>8
  <2>2. Made(x2, x1, n, b, reqsz, used)
    <3>1. /\ x1 \in Words(n) /\ b \in 0..(n - 1) /\ b + reqsz <= n /\ used \in SUBSET Flags
          /\ reqsz > 0
      BY <1>3, <2>1
    <3>2. QED
      BY <3>1, MakeIs
  <2> HIDE DEF x2
  <2>3. /\ x2 \in Words(n) /\ x2.prev = x1.prev /\ x2.next = x1.next
        /\ x2.totalFree = h.totalFree /\ x2.wild = h.wild
    BY <1>8, <2>2 DEF Made
  <2>4. \A u \in 0..n : x2.hdr[u] = IF u = b THEN tag1 ELSE h.hdr[u]
    BY <1>8, <2>2 DEF Made
  <2>5. \A u \in 0..(n - 1) : x2.foot[u] = IF u = mid - 1 THEN CANARY ELSE h.foot[u]
    BY <1>4, <1>8, <2>1, <2>2 DEF Made
  <2>6. QED
    BY <2>3, <2>4, <2>5
<1> HIDE DEF x2
<1>10. mid \in (b + 1)..(hi - 1) /\ mid \in 0..(n - 1) /\ mid + rest = hi /\ mid # hi
  BY <1>2, <1>3, <1>7
<1>11. /\ x3 \in Words(n) /\ x3.prev = x1.prev /\ x3.next = x1.next
       /\ x3.totalFree = h.totalFree /\ x3.wild = h.wild
       /\ \A u \in 0..n : x3.hdr[u] = IF u = mid THEN tag2 ELSE x2.hdr[u]
       /\ \A u \in 0..(n - 1) : x3.foot[u] = IF u = hi - 1 THEN tag2 ELSE x2.foot[u]
  <2>1. mid + rest <= n /\ rest \in Nat /\ rest > 0 /\ mid + rest - 1 = hi - 1
    BY <1>2, <1>7, <1>10
  <2>2. Made(x3, x2, n, mid, rest, last)
    <3>1. /\ x2 \in Words(n) /\ last \in SUBSET Flags /\ mid \in 0..(n - 1)
          /\ mid + rest <= n /\ rest \in Nat /\ rest > 0
      BY <1>2, <1>9, <1>10, <2>1
    <3>2. QED
      BY <3>1, MakeIs
  <2> HIDE DEF x3
  <2>3. QED
    BY <1>5, <1>9, <2>1, <2>2 DEF Made
<1> HIDE DEF x3
<1>12. mid \notin F
  <2>1. \A c \in S : f < c => hi <= c
    BY <1>1, <1>2 DEF Cut, hi
  <2>2. QED
    BY <1>1, <1>7, <1>10, <2>1 DEF FreeOf
<1>13. /\ x4 \in Words(n) /\ x4.hdr = x3.hdr /\ x4.foot = x3.foot
       /\ x4.totalFree = h.totalFree /\ x4.wild = h.wild
       /\ Listed(x4, n, G)
       /\ \A u \in 0..(n - 1) : u \notin G => x4.next[u] = x1.next[u] /\ x4.prev[u] = x1.prev[u]
  <2> DEFINE E == F \ {f}
  <2>1. E \in SUBSET (0..(n - 1)) /\ mid \notin E
    BY <1>1, <1>12
  <2> HIDE DEF F
  <2>2. Listed(x3, n, E)
    <3>1. Listed(x1, n, E)
      BY <1>8
    <3> HIDE DEF E
    <3>2. QED
      BY <1>8, <1>11, <3>1, SameList
  <2> HIDE DEF E
  <2>3. Inserted(ArenaFreeInsert(x3, mid), x3, n, E, mid)
    <3>1. x3 \in Words(n) /\ mid \in 0..(n - 1)
      BY <1>10, <1>11
    <3>2. QED
      BY <2>1, <2>2, <3>1, InsertKeeps
  <2>4. QED
    BY <1>11, <2>3 DEF E, Inserted
<1> HIDE DEF x4
<1>14. /\ x5 \in Words(n) /\ x5.hdr = x3.hdr /\ x5.foot = x3.foot
       /\ x5.prev = x4.prev /\ x5.next = x4.next /\ x5.wild = h.wild
       /\ x5.totalFree = h.totalFree - 16 * (mid - f)
  <2>1. /\ x4.totalFree - 16 * (mid - f) \in Int /\ reqsz - BtSize(h, b) = mid - f
    BY <1>1, <1>3, <1>7, <1>13
  <2>2. x5 = [x4 EXCEPT !.totalFree = x4.totalFree - 16 * (mid - f)]
    BY <2>1 DEF ArenaDecFree, ALIGNMENT
  <2> HIDE DEF x5
  <2>3. QED
    BY <1>13, <2>1, <2>2, TotalIs
<1> HIDE DEF x5
<1>15. /\ x5.hdr[b] = tag1 /\ x5.hdr[mid] = tag2
       /\ \A u \in 0..n : u # b /\ u # mid => x5.hdr[u] = h.hdr[u]
  <2>1. x5.hdr[b] = tag1
    <3>1. b # mid
      BY <1>7
    <3>2. QED
      BY <1>7, <1>9, <1>11, <1>14, <3>1
  <2>2. x5.hdr[mid] = tag2
    BY <1>7, <1>11, <1>14
  <2>3. \A u \in 0..n : u # b /\ u # mid => x5.hdr[u] = h.hdr[u]
    BY <1>9, <1>11, <1>14
  <2>4. QED
    BY <2>1, <2>2, <2>3
<1>16. /\ x5.foot[mid - 1] = CANARY /\ x5.foot[hi - 1] = tag2
       /\ \A u \in 0..(n - 1) : u < b \/ u >= hi => x5.foot[u] = h.foot[u]
  <2>1. mid - 1 \in 0..(n - 1) /\ hi - 1 \in 0..(n - 1) /\ mid - 1 # hi - 1
    BY <1>2, <1>7, <1>10
  <2>2. ASSUME NEW u \in 0..(n - 1), u < b \/ u >= hi PROVE x5.foot[u] = h.foot[u]
    <3>1. u # mid - 1 /\ u # hi - 1
      BY <1>7, <1>10, <2>2
    <3>2. QED
      BY <1>9, <1>11, <1>14, <3>1
  <2>3. x5.foot[mid - 1] = CANARY /\ x5.foot[hi - 1] = tag2
    BY <1>9, <1>11, <1>14, <2>1
  <2>4. QED
    BY <2>2, <2>3
<1> DEFINE left == {c \in {mid} : c < hi}
<1>17. left = {mid}
  BY <1>7, <1>10
<1>18. /\ \A u \in 0..(n - 1) : u < b \/ u > hi => x5.hdr[u] = h.hdr[u]
       /\ hi \in S => x5.hdr[hi] = h.hdr[hi]
  <2>1. ASSUME NEW u \in 0..n, u < b \/ u >= hi PROVE x5.hdr[u] = h.hdr[u]
    <3>1. u # b /\ u # mid
      BY <1>7, <1>10, <2>1
    <3>2. QED
      BY <1>15, <3>1
  <2>2. hi >= hi /\ \A u \in 0..(n - 1) : u \in 0..n /\ (u > hi => u >= hi)
    BY <1>7
  <2>3. QED
    BY <1>7, <2>1, <2>2
<1>19. /\ Listed(x5, n, G)
       /\ \A u \in 0..(n - 1) : u \notin F \cup {mid} =>
            x5.next[u] = h.next[u] /\ x5.prev[u] = h.prev[u]
  <2>1. Listed(x5, n, G)
    <3> HIDE DEF G
    <3>1. QED
      BY <1>13, <1>14, SameList
  <2>2. QED
    BY <1>8, <1>13, <1>14, <2>1
<1>20. Takes(h, x5, n, S, b, f, mid)
  <2> HIDE DEF left, G
  <2>1. h.hdr[hi].flags \ {c \in {"PREVFREE"} : mid = hi} = h.hdr[hi].flags
    BY <1>10
  <2>2. "PREVFREE" \in x5.hdr[b].flags <=> FreePred(h, S, b)
    BY <1>4, <1>15
  <2>3. /\ x5.hdr[b].size = mid - b /\ "USED" \in x5.hdr[b].flags
        /\ "ISLAST" \notin x5.hdr[b].flags
    BY <1>4, <1>7, <1>15
  <2>4. x5.hdr[mid] = [size |-> hi - mid, flags |-> last]
    BY <1>7, <1>15
  <2>5. FreeOf(h, S) \cup left = F \cup {mid} /\ (FreeOf(h, S) \ {f}) \cup left = G
    BY <1>17 DEF F, G
  <2>6. /\ Listed(x5, n, (FreeOf(h, S) \ {f}) \cup left)
        /\ \A u \in 0..(n - 1) : u \notin FreeOf(h, S) \cup left =>
             x5.next[u] = h.next[u] /\ x5.prev[u] = h.prev[u]
    BY <1>19, <2>5
  <2>7. x5.foot[hi - 1] = x5.hdr[mid]
    BY <1>15, <1>16
  <2>8. x5.totalFree = h.totalFree - IF mid = hi THEN 16 * (hi - f) - 8 ELSE 16 * (mid - f)
    BY <1>10, <1>14
  <2>9. hi \in S => /\ x5.hdr[hi].size = h.hdr[hi].size
                    /\ x5.hdr[hi].flags = h.hdr[hi].flags \ {c \in {"PREVFREE"} : mid = hi}
    BY <1>18, <2>1
  <2> HIDE DEF F
  <2>10. QED
    BY <1>7, <1>14, <1>16, <1>18, <2>2, <2>3, <2>4, <2>6, <2>7, <2>8, <2>9
       DEF Takes, left, hi, last
<1>21. QED
  BY <1>6, <1>20 DEF mid

LEMMA ExpandWhole ==
  ASSUME NEW n \in Nat, NEW h, NEW S, Good(h, n, S), NEW b \in S, ~BtFree(h, b),
         NEW f \in FreeOf(h, S), f = BtNext(h, b), NEW reqsz \in Nat, reqsz > BtSize(h, b),
         BtSize(h, b) + BtSize(h, f) = reqsz
  PROVE  Takes(h, Expand(h, b, reqsz), n, S, b, f, b + reqsz)
<1> DEFINE F == FreeOf(h, S)
           hi == BtNext(h, f)
           mid == b + reqsz
           rest == BtSize(h, b) + BtSize(h, f) - reqsz
           last == BtHas(h, f, "ISLAST")
           used == {"USED"} \cup BtHas(h, b, "PREVFREE")
           x1 == FreeRemove(h, f)
           x2 == BtMake(x1, b, reqsz, used)
           x3 == BtClear(x2, mid, "PREVFREE")
           x4 == ArenaDecFree(x3, ALIGNMENT * BtSize(h, f) - USEDBLK_SZ)
           G == F \ {f}
           tag1 == [size |-> reqsz, flags |-> used]
<1>1. /\ h \in Words(n) /\ Cut(h, n, S) /\ \A c \in S : Fits(h, n, S, c)
      /\ Listed(h, n, F) /\ h.totalFree = Sums(Offers(h, n, S), n)[n]
      /\ S \in SUBSET (0..(n - 1)) /\ F \in SUBSET (0..(n - 1))
      /\ Sums(Offers(h, n, S), n)[n] \in Int
  BY GoodType
<1>2. /\ f \in S /\ f \in 0..(n - 1) /\ hi \in (f + 1)..n /\ hi \in S \cup {n}
      /\ BtSize(h, f) = hi - f
      /\ last \in SUBSET Flags /\ (last # {} => hi = n)
      /\ hi \in S => ~BtFree(h, hi) /\ "PREVFREE" \in h.hdr[hi].flags
  <2>1. h \in Words(n) /\ Cut(h, n, S) /\ \A c \in S : Fits(h, n, S, c)
    BY <1>1
  <2> HIDE DEF F
  <2>2. QED
    BY <2>1, FreeBlockIs
<1>3. b \in 0..(n - 1) /\ f = b + BtSize(h, b) /\ BtSize(h, b) \in 1..n
  BY <1>1, CutType
<1>4. /\ "USED" \in used /\ "ISLAST" \notin used /\ used \in SUBSET Flags
      /\ "PREVFREE" \in used <=> FreePred(h, S, b)
  <2>1. "PREVFREE" \in h.hdr[b].flags <=> FreePred(h, S, b)
    BY <1>1 DEF Fits
  <2>2. QED
    BY <2>1 DEF BtHas, Flags
<1>5. "USED" \notin last
  BY DEF BtHas
<1>6. Expand(h, b, reqsz) = x4
  <2>1. ~(rest > 0)
    BY <1>2, <1>3
  <2>2. QED
    BY <2>1 DEF Expand
<1> HIDE DEF hi, last, used, mid, rest
<1>7. /\ mid \in (f + 1)..hi /\ mid \in (b + 1)..hi /\ mid \in 0..n /\ hi \in 0..n
      /\ rest = hi - mid /\ mid - b = reqsz /\ b < f /\ f < mid /\ b + reqsz = mid
      /\ b \in 0..n /\ f \in 0..n /\ rest = 0
  BY <1>2, <1>3 DEF mid, rest
<1>8. /\ x1 \in Words(n) /\ x1.hdr = h.hdr /\ x1.foot = h.foot
      /\ x1.totalFree = h.totalFree /\ x1.wild = h.wild
      /\ Listed(x1, n, F \ {f})
      /\ \A u \in 0..(n - 1) : u \notin F => x1.next[u] = h.next[u] /\ x1.prev[u] = h.prev[u]
  <2>1. f \in F
    OBVIOUS
  <2> HIDE DEF F
  <2>2. QED
    BY <1>1, <2>1, RemoveKeeps
<1> HIDE DEF x1
<1>9. /\ x2 \in Words(n) /\ x2.prev = x1.prev /\ x2.next = x1.next
      /\ x2.totalFree = h.totalFree /\ x2.wild = h.wild
      /\ \A u \in 0..n : x2.hdr[u] = IF u = b THEN tag1 ELSE h.hdr[u]
      /\ \A u \in 0..(n - 1) : x2.foot[u] = IF u = mid - 1 THEN CANARY ELSE h.foot[u]
  <2>1. /\ x1 \in Words(n) /\ b \in 0..(n - 1) /\ b + reqsz <= n /\ used \in SUBSET Flags
        /\ b + reqsz - 1 = mid - 1
    BY <1>2, <1>3, <1>4, <1>7, <1>8
  <2>2. Made(x2, x1, n, b, reqsz, used)
    <3>1. /\ x1 \in Words(n) /\ b \in 0..(n - 1) /\ b + reqsz <= n /\ used \in SUBSET Flags
          /\ reqsz > 0
      BY <1>3, <2>1
    <3>2. QED
      BY <3>1, MakeIs
  <2> HIDE DEF x2
  <2>3. /\ x2 \in Words(n) /\ x2.prev = x1.prev /\ x2.next = x1.next
        /\ x2.totalFree = h.totalFree /\ x2.wild = h.wild
    BY <1>8, <2>2 DEF Made
  <2>4. \A u \in 0..n : x2.hdr[u] = IF u = b THEN tag1 ELSE h.hdr[u]
    BY <1>8, <2>2 DEF Made
  <2>5. \A u \in 0..(n - 1) : x2.foot[u] = IF u = mid - 1 THEN CANARY ELSE h.foot[u]
    BY <1>4, <1>8, <2>1, <2>2 DEF Made
  <2>6. QED
    BY <2>3, <2>4, <2>5
<1> HIDE DEF x2
<1>10. mid = hi
  BY <1>7
<1>11. /\ x3 \in Words(n) /\ x3.prev = x1.prev /\ x3.next = x1.next /\ x3.foot = x2.foot
       /\ x3.totalFree = h.totalFree /\ x3.wild = h.wild
       /\ \A u \in 0..n : x3.hdr[u] =
            IF u = hi THEN [size |-> h.hdr[hi].size, flags |-> h.hdr[hi].flags \ {"PREVFREE"}]
            ELSE x2.hdr[u]
  <2>1. LET y == BtClear(x2, hi, "PREVFREE")
            t == [size |-> x2.hdr[hi].size, flags |-> x2.hdr[hi].flags \ {"PREVFREE"}]
        IN  /\ y \in Words(n) /\ y.prev = x2.prev /\ y.next = x2.next /\ y.foot = x2.foot
            /\ y.totalFree = x2.totalFree /\ y.wild = x2.wild
            /\ \A u \in 0..n : y.hdr[u] = IF u = hi THEN t ELSE x2.hdr[u]
    BY <1>7, <1>9, ClearIs
  <2>2. x2.hdr[hi] = h.hdr[hi] /\ x3 = BtClear(x2, hi, "PREVFREE")
    BY <1>7, <1>9, <1>10
  <2> HIDE DEF x3
  <2>3. QED
    BY <1>9, <2>1, <2>2
<1> HIDE DEF x3
<1>12. /\ x4 \in Words(n) /\ x4.hdr = x3.hdr /\ x4.foot = x2.foot
       /\ x4.prev = x1.prev /\ x4.next = x1.next /\ x4.wild = h.wild
       /\ x4.totalFree = h.totalFree - (16 * (hi - f) - 8)
  <2>1. x3.totalFree - (16 * (hi - f) - 8) \in Int
    BY <1>1, <1>7, <1>11
  <2>2. x4 = [x3 EXCEPT !.totalFree = x3.totalFree - (16 * (hi - f) - 8)]
    BY <1>2 DEF ArenaDecFree, ALIGNMENT, USEDBLK_SZ
  <2> HIDE DEF x4
  <2>3. QED
    BY <1>11, <2>1, <2>2, TotalIs
<1> HIDE DEF x4
<1>13. /\ x4.hdr[b] = tag1
       /\ \A u \in 0..(n - 1) : u < b \/ u > hi => x4.hdr[u] = h.hdr[u]
       /\ x4.hdr[hi].size = h.hdr[hi].size
       /\ x4.hdr[hi].flags = h.hdr[hi].flags \ {"PREVFREE"}
  <2>1. b # hi
    BY <1>7
  <2>2. x4.hdr[b] = tag1
    BY <1>7, <1>9, <1>11, <1>12, <2>1
  <2>3. ASSUME NEW u \in 0..(n - 1), u < b \/ u > hi PROVE x4.hdr[u] = h.hdr[u]
    <3>1. u \in 0..n /\ u # b /\ u # hi
      BY <1>7, <2>3
    <3>2. QED
      BY <1>9, <1>11, <1>12, <3>1
  <2>4. QED
    BY <1>7, <1>11, <1>12, <2>2, <2>3
<1>14. /\ x4.foot[hi - 1] = CANARY
       /\ \A u \in 0..(n - 1) : u < b \/ u >= hi => x4.foot[u] = h.foot[u]
  <2>1. hi - 1 \in 0..(n - 1)
    BY <1>2, <1>7
  <2>2. ASSUME NEW u \in 0..(n - 1), u < b \/ u >= hi PROVE u # hi - 1
    BY <1>7, <2>2
  <2>3. QED
    BY <1>9, <1>10, <1>12, <2>1, <2>2
<1>15. Listed(x4, n, G)
  <2> HIDE DEF G
  <2>1. Listed(x1, n, G)
    BY <1>8 DEF G
  <2>2. QED
    BY <1>8, <1>12, <2>1, SameList
<1> DEFINE left == {c \in {mid} : c < hi}
<1>16. left = {} /\ {c \in {"PREVFREE"} : mid = hi} = {"PREVFREE"}
  BY <1>7, <1>10
<1>17. Takes(h, x4, n, S, b, f, mid)
  <2> HIDE DEF left
  <2>1. FreeOf(h, S) \cup left = F /\ (FreeOf(h, S) \ {f}) \cup left = G
    BY <1>16 DEF F, G
  <2>2. /\ Listed(x4, n, (FreeOf(h, S) \ {f}) \cup left)
        /\ \A u \in 0..(n - 1) : u \notin FreeOf(h, S) \cup left =>
             x4.next[u] = h.next[u] /\ x4.prev[u] = h.prev[u]
    BY <1>8, <1>12, <1>15, <2>1
  <2>3. /\ x4.hdr[b].size = mid - b /\ "USED" \in x4.hdr[b].flags
        /\ "ISLAST" \notin x4.hdr[b].flags
        /\ "PREVFREE" \in x4.hdr[b].flags <=> FreePred(h, S, b)
    <3>1. x4.hdr[b].size = mid - b /\ x4.hdr[b].flags = used
      BY <1>7, <1>13
    <3>2. QED
      BY <1>4, <3>1
  <2>4. hi \in S => /\ x4.hdr[hi].size = h.hdr[hi].size
                    /\ x4.hdr[hi].flags = h.hdr[hi].flags \ {c \in {"PREVFREE"} : mid = hi}
    BY <1>13, <1>16
  <2>5. x4.totalFree = h.totalFree - IF mid = hi THEN 16 * (hi - f) - 8 ELSE 16 * (mid - f)
    BY <1>10, <1>12
  <2>6. x4.foot[mid - 1] = CANARY
    BY <1>10, <1>14
  <2> HIDE DEF F
  <2>7. QED
    BY <1>7, <1>10, <1>12, <1>13, <1>14, <2>2, <2>3, <2>4, <2>5, <2>6 DEF Takes, left, hi
<1>18. QED
  BY <1>6, <1>17 DEF mid

(* The used block b gets free, and one block from lo to hi with the free    *)
(* ones around it, which has yet to go to the list.                         *)
Frees(h, x, n, S, lo, b, hi) ==
  LET next == BtNext(h, b)
      F == FreeOf(h, S)
  IN  /\ x \in Words(n) /\ x.wild = h.wild
      /\ (lo = b /\ ~FreePred(h, S, b)) \/ (lo \in F /\ BtNext(h, lo) = b)
      /\ (hi = next /\ next \notin F) \/ (next \in F /\ hi = BtNext(h, next))
      /\ x.hdr[lo].size = hi - lo /\ "USED" \notin x.hdr[lo].flags
      /\ "ISLAST" \in x.hdr[lo].flags => hi = n
      /\ x.foot[hi - 1] = x.hdr[lo]
      /\ \A u \in 0..(n - 1) : u < lo \/ u >= hi => x.foot[u] = h.foot[u]
      /\ \A u \in 0..(n - 1) : u < lo \/ u > hi => x.hdr[u] = h.hdr[u]
      /\ hi \in S => /\ ~BtFree(h, hi) /\ x.hdr[hi].size = h.hdr[hi].size
                     /\ x.hdr[hi].flags = h.hdr[hi].flags \cup {"PREVFREE"}
      /\ Listed(x, n, F \ {lo, next})
      /\ \A u \in 0..(n - 1) : u \notin F => x.next[u] = h.next[u] /\ x.prev[u] = h.prev[u]
      /\ x.totalFree = h.totalFree + (16 * (next - b) - 8)
                         + (IF lo = b THEN 0 ELSE 8) + (IF hi = next THEN 0 ELSE 8)

LEMMA FreesGood ==
  ASSUME NEW n \in Nat, NEW h, NEW S, Good(h, n, S), NEW b \in S, ~BtFree(h, b),
         NEW x, NEW lo, NEW hi, Frees(h, x, n, S, lo, b, hi)
  PROVE  LET g == ArenaFreeInsert(Scrub(x, lo), lo)
             R == Recuts(S, lo, hi, hi)
         IN  /\ Good(g, n, R) /\ g.wild = h.wild
             /\ UsedOf(g, R) = UsedOf(h, S) \ {b}
<1> DEFINE F == FreeOf(h, S)
           next == BtNext(h, b)
           R == Recuts(S, lo, hi, hi)
           s == Scrub(x, lo)
           g == ArenaFreeInsert(s, lo)
           E == F \ {lo, next}
           G == E \cup {lo}
<1>1. /\ h \in Words(n) /\ Cut(h, n, S) /\ \A c \in S : Fits(h, n, S, c)
      /\ h.totalFree = Sums(Offers(h, n, S), n)[n]
      /\ S \in SUBSET (0..(n - 1)) /\ F \in SUBSET (0..(n - 1))
      /\ Sums(Offers(h, n, S), n)[n] \in Int
  BY GoodType
<1>2. b \in 0..(n - 1) /\ next \in (b + 1)..n /\ next \in S \cup {n}
  BY <1>1, CutType DEF Cut
<1>3. /\ x \in Words(n) /\ x.wild = h.wild
      /\ (lo = b /\ ~FreePred(h, S, b)) \/ (lo \in F /\ BtNext(h, lo) = b)
      /\ (hi = next /\ next \notin F) \/ (next \in F /\ hi = BtNext(h, next))
      /\ x.hdr[lo].size = hi - lo /\ "USED" \notin x.hdr[lo].flags
      /\ "ISLAST" \in x.hdr[lo].flags => hi = n
      /\ x.foot[hi - 1] = x.hdr[lo]
      /\ \A u \in 0..(n - 1) : u < lo \/ u >= hi => x.foot[u] = h.foot[u]
      /\ \A u \in 0..(n - 1) : u < lo \/ u > hi => x.hdr[u] = h.hdr[u]
      /\ hi \in S => /\ ~BtFree(h, hi) /\ x.hdr[hi].size = h.hdr[hi].size
                     /\ x.hdr[hi].flags = h.hdr[hi].flags \cup {"PREVFREE"}
      /\ Listed(x, n, E)
      /\ \A u \in 0..(n - 1) : u \notin F => x.next[u] = h.next[u] /\ x.prev[u] = h.prev[u]
      /\ x.totalFree = h.totalFree + (16 * (next - b) - 8)
                         + (IF lo = b THEN 0 ELSE 8) + (IF hi = next THEN 0 ELSE 8)
  BY DEF Frees
<1>4. /\ b \notin F /\ (lo = b \/ lo \in F) /\ (lo \in F => BtNext(h, lo) = b)
      /\ (hi = next \/ next \in F) /\ (hi # next => hi = BtNext(h, next))
      /\ (next \in F => hi = BtNext(h, next)) /\ ~FreePred(h, S, lo)
  <2>1. b \notin F
    BY DEF FreeOf
  <2>2. lo \in F => ~FreePred(h, S, lo)
    <3>1. h \in Words(n) /\ Cut(h, n, S) /\ \A c \in S : Fits(h, n, S, c)
      BY <1>1
    <3>2. QED
      BY <3>1, FreeBlockIs
  <2>3. QED
    BY <1>3, <2>1, <2>2
<1>5. lo \in S /\ lo \in 0..(n - 1) /\ lo <= b /\ (lo \in F => BtSize(h, lo) = b - lo)
  <2>1. CASE lo = b
    BY <1>1, <1>2, <1>4, <2>1
  <2>2. CASE lo \in F
    <3>1. lo \in S /\ BtNext(h, lo) = b
      BY <1>4, <2>2 DEF FreeOf
    <3>2. lo \in 0..(n - 1) /\ b \in (lo + 1)..n /\ b = lo + BtSize(h, lo) /\ BtSize(h, lo) \in 1..n
      BY <1>1, <3>1, CutType
    <3>3. QED
      BY <3>1, <3>2
  <2>3. QED
    BY <1>4, <2>1, <2>2
<1>6. /\ hi \in S \cup {n} /\ hi \in next..n
      /\ next \in F => /\ next \in S /\ next \in 0..(n - 1) /\ hi \in (next + 1)..n
                       /\ BtSize(h, next) = hi - next
  <2>1. CASE next \in F
    <3>1. next \in S /\ hi = BtNext(h, next)
      BY <1>4, <2>1 DEF FreeOf
    <3>2. /\ next \in 0..(n - 1) /\ hi \in (next + 1)..n /\ hi = next + BtSize(h, next)
          /\ BtSize(h, next) \in 1..n /\ hi \in S \cup {n}
      <4> HIDE DEF next
      <4>1. QED
        BY <1>1, <3>1, CutType DEF Cut
    <3>3. QED
      BY <3>1, <3>2
  <2>2. CASE next \notin F
    BY <1>2, <1>4, <2>2
  <2>3. QED
    BY <2>1, <2>2
<1>7. ASSUME NEW c \in S PROVE c < lo \/ c >= hi \/ c = lo \/ c = b \/ (c = next /\ next \in F)
  <2>1. /\ c \in 0..(n - 1) /\ (b < c => next <= c)
        /\ (lo \in F => (lo < c => b <= c))
        /\ (next \in F => (next < c => hi <= c))
    <3>1. lo \in F => (lo < c => b <= c)
      BY <1>1, <1>4, <1>5 DEF Cut
    <3>2. next \in F => (next < c => hi <= c)
      BY <1>1, <1>4, <1>6 DEF Cut
    <3>3. c \in 0..(n - 1) /\ (b < c => next <= c)
      BY <1>1 DEF Cut
    <3>4. QED
      BY <3>1, <3>2, <3>3
  <2>2. b \in 0..n /\ next \in 0..n /\ lo \in 0..n /\ hi \in 0..n
    BY <1>2, <1>5, <1>6
  <2> HIDE DEF next, F
  <2>3. c < lo \/ c = lo \/ b <= c
    BY <1>4, <2>1, <2>2
  <2>4. c >= hi \/ c <= b \/ (c = next /\ next \in F)
    BY <1>4, <2>1, <2>2
  <2>5. QED
    BY <2>1, <2>2, <2>3, <2>4
<1> HIDE DEF next, g, s, R, F, E, G
<1>8. /\ b \in 0..n /\ next \in 0..n /\ lo \in 0..n /\ hi \in 0..n
      /\ lo <= b /\ b < next /\ next <= hi /\ lo < hi
  BY <1>2, <1>5, <1>6
<1>9. BtNext(x, lo) = hi /\ hi \in (lo + 1)..n
  BY <1>3, <1>8 DEF BtNext, BtSize
<1>10. /\ s \in Words(n) /\ s.totalFree = x.totalFree /\ s.wild = h.wild
       /\ \A u \in 0..n : s.hdr[u] = IF lo < u /\ u < hi THEN DATA ELSE x.hdr[u]
       /\ \A u \in 0..(n - 1) : s.foot[u] = IF lo <= u /\ u < hi - 1 THEN DATA ELSE x.foot[u]
       /\ \A u \in -1..n : /\ s.prev[u] = IF lo < u /\ u < hi THEN DATAPTR ELSE x.prev[u]
                           /\ s.next[u] = IF lo < u /\ u < hi THEN DATAPTR ELSE x.next[u]
  BY <1>3, <1>5, <1>9, ScrubIs DEF s
<1>11. ASSUME NEW c \in E
       PROVE  c \in S /\ c \in 0..(n - 1) /\ (c < lo \/ c >= hi) /\ c # lo /\ c \in F
  <2>1. c \in F /\ c # lo /\ c # next
    BY DEF E
  <2>2. c \in S /\ c \in 0..(n - 1) /\ c # b
    BY <1>1, <1>4, <2>1 DEF F, FreeOf
  <2>3. QED
    BY <1>7, <2>1, <2>2
<1>12. Listed(s, n, E)
  <2>1. ASSUME NEW u \in E \cup {HEAD} PROVE s.next[u] = x.next[u] /\ s.prev[u] = x.prev[u]
    <3>1. u \in -1..n /\ ~(lo < u /\ u < hi)
      <4>1. CASE u = HEAD
        <5>1. u = -1
          BY <4>1 DEF HEAD
        <5>2. QED
          BY <1>8, <5>1
      <4>2. CASE u \in E
        BY <1>8, <1>11, <4>2
      <4>3. QED
        BY <4>1, <4>2
    <3>2. QED
      BY <1>10, <3>1
  <2>2. QED
    BY <1>3, <1>10, <2>1, SameList
<1>13. /\ g \in Words(n) /\ g.hdr = s.hdr /\ g.foot = s.foot
       /\ g.totalFree = x.totalFree /\ g.wild = h.wild
       /\ Listed(g, n, G)
       /\ \A u \in 0..(n - 1) : u \notin G => g.next[u] = s.next[u] /\ g.prev[u] = s.prev[u]
  <2>1. E \in SUBSET (0..(n - 1)) /\ lo \notin E
    BY <1>11
  <2>2. Inserted(ArenaFreeInsert(s, lo), s, n, E, lo)
    <3>1. s \in Words(n)
      BY <1>10
    <3>2. QED
      BY <1>5, <1>12, <2>1, <3>1, InsertKeeps
  <2>3. QED
    BY <1>10, <2>2 DEF g, G, Inserted
<1>14. /\ g.hdr[lo] = x.hdr[lo] /\ g.hdr[hi] = x.hdr[hi]
       /\ \A u \in 0..(n - 1) : u < lo \/ u > hi => g.hdr[u] = h.hdr[u]
  <2>1. ~(lo < lo) /\ ~(hi < hi)
    BY <1>8
  <2>2. ASSUME NEW u \in 0..(n - 1), u < lo \/ u > hi PROVE g.hdr[u] = h.hdr[u]
    <3>1. u \in 0..n /\ ~(lo < u /\ u < hi)
      BY <1>8, <2>2
    <3>2. QED
      BY <1>3, <1>10, <1>13, <2>2, <3>1
  <2>3. g.hdr[lo] = x.hdr[lo] /\ g.hdr[hi] = x.hdr[hi]
    BY <1>8, <1>10, <1>13, <2>1
  <2>4. QED
    BY <2>2, <2>3
<1>15. /\ g.foot[hi - 1] = g.hdr[lo]
       /\ \A u \in 0..(n - 1) : u < lo \/ u >= hi => g.foot[u] = h.foot[u]
  <2>1. hi - 1 \in 0..(n - 1) /\ ~(hi - 1 < hi - 1)
    BY <1>8
  <2>2. g.foot[hi - 1] = x.foot[hi - 1]
    BY <1>10, <1>13, <2>1
  <2>3. ASSUME NEW u \in 0..(n - 1), u < lo \/ u >= hi PROVE g.foot[u] = h.foot[u]
    <3>1. ~(lo <= u /\ u < hi - 1)
      BY <1>8, <2>3
    <3>2. QED
      BY <1>3, <1>10, <1>13, <2>3, <3>1
  <2>4. QED
    BY <1>3, <1>14, <2>2, <2>3
<1>16. ASSUME NEW u \in 0..(n - 1), u < lo \/ u >= hi, u \notin F
       PROVE  g.prev[u] = h.prev[u] /\ g.next[u] = h.next[u]
  <2>1. u \in -1..n /\ ~(lo < u /\ u < hi) /\ u # lo
    BY <1>8, <1>16
  <2>2. u \notin G
    BY <1>16, <2>1 DEF E, G
  <2>3. QED
    BY <1>3, <1>10, <1>13, <1>16, <2>1, <2>2
<1>17. BtFree(g, lo) /\ BtSize(g, lo) = hi - lo
  BY <1>3, <1>14 DEF BtFree, BtSize
<1>18. Recut(h, g, n, S, lo, hi, hi)
  <2>1. ASSUME NEW c \in S, c < lo \/ c >= hi PROVE g.hdr[c].size = h.hdr[c].size
    <3>1. c \in 0..(n - 1)
      BY <1>1
    <3>2. c < lo \/ c > hi \/ c = hi
      BY <1>8, <2>1, <3>1
    <3>3. QED
      BY <1>3, <1>14, <3>1, <3>2
  <2>2. hi \in lo..hi /\ lo # hi
    BY <1>8
  <2>3. g.hdr[lo].size = hi - lo
    BY <1>3, <1>14
  <2>4. QED
    BY <1>5, <1>6, <2>1, <2>2, <2>3 DEF Recut
<1>19. Edited(h, g, n, S, lo, hi)
  <2>1. ASSUME hi \in S
        PROVE  /\ g.hdr[hi].flags \ {"PREVFREE"} = h.hdr[hi].flags \ {"PREVFREE"}
               /\ BtFree(h, hi) => g.hdr[hi] = h.hdr[hi]
    <3>1. ~BtFree(h, hi) /\ g.hdr[hi].flags = h.hdr[hi].flags \cup {"PREVFREE"}
      BY <1>3, <1>14, <2>1
    <3>2. QED
      BY <3>1
  <2>2. QED
    BY <1>14, <1>15, <1>16, <2>1 DEF Edited, F
<1>20. Edit(h, g, n, S, lo, hi, hi)
  <2>1. FirstFits(h, g, n, S, lo, hi, hi)
    BY <1>3, <1>4, <1>14, <1>15, <1>17 DEF FirstFits
  <2>2. SecondFits(g, n, lo, hi, hi)
    BY DEF SecondFits
  <2>3. NextFits(h, g, S, lo, hi, hi)
    <3>1. hi \in S => ~BtFree(h, hi) /\ "PREVFREE" \in g.hdr[hi].flags
      BY <1>3, <1>14
    <3>2. Last(lo, hi, hi) = lo
      BY DEF Last
    <3>3. QED
      BY <1>17, <3>1, <3>2 DEF NextFits
  <2>4. QED
    BY <1>18, <1>19, <2>1, <2>2, <2>3 DEF Edit
<1>21. /\ FreeOf(g, R) = {c \in FreeOf(h, S) : c < lo \/ c >= hi}
                            \cup {c \in {c \in {lo, hi} : c < hi} : BtFree(g, c)}
       /\ UsedOf(g, R) = {c \in UsedOf(h, S) : c < lo \/ c >= hi}
                            \cup {c \in {c \in {lo, hi} : c < hi} : ~BtFree(g, c)}
  BY <1>1, <1>13, <1>18, <1>19, RecutFree DEF R
<1>22. /\ ~(hi < hi) /\ ~(lo < lo) /\ ~(lo >= hi) /\ ~(b < lo) /\ ~(b >= hi)
       /\ (next \in F => ~(next < lo) /\ ~(next >= hi))
  BY <1>6, <1>8
<1>23. FreeOf(g, R) = G
  <2>1. ASSUME NEW c \in FreeOf(g, R) PROVE c \in G
    <3>1. CASE c \in F /\ (c < lo \/ c >= hi)
      BY <1>22, <3>1 DEF G, E
    <3>2. CASE c \in {lo, hi} /\ c < hi
      BY <1>22, <3>2 DEF G
    <3>3. QED
      BY <1>21, <3>1, <3>2 DEF F
  <2>2. ASSUME NEW c \in G PROVE c \in FreeOf(g, R)
    <3>1. CASE c \in E
      BY <1>11, <1>21, <3>1 DEF F
    <3>2. CASE c = lo
      BY <1>8, <1>17, <1>21, <3>2
    <3>3. QED
      BY <3>1, <3>2 DEF G
  <2>3. QED
    BY <2>1, <2>2
<1>24. UsedOf(g, R) = UsedOf(h, S) \ {b}
  <2>1. ASSUME NEW c \in UsedOf(g, R) PROVE c \in UsedOf(h, S) \ {b}
    <3>1. ~(c \in {lo, hi} /\ c < hi /\ ~BtFree(g, c))
      BY <1>17, <1>22
    <3>2. QED
      BY <1>21, <1>22, <3>1
  <2>2. ASSUME NEW c \in UsedOf(h, S), c # b PROVE c \in UsedOf(g, R)
    <3>1. c \in S /\ c \notin F
      BY DEF UsedOf, FreeOf, F
    <3>2. c < lo \/ c >= hi
      BY <1>4, <1>7, <2>2, <3>1
    <3>3. QED
      BY <1>21, <3>2
  <2>3. QED
    BY <2>1, <2>2
<1>25. g.totalFree = Sums(Offers(g, n, R), n)[n]
  <2> DEFINE j == IF hi = next THEN lo ELSE next
             total == Sums(Offers(h, n, S), n)[n]
  <2>1. lo \in lo..(hi - 1) /\ j \in lo..(hi - 1)
    BY <1>4, <1>6, <1>8
  <2>2. ASSUME NEW u \in lo..(hi - 1), u # lo, u # j
        PROVE  u \notin FreeOf(h, S) /\ u \notin FreeOf(g, R)
    <3>1. ~(u < lo) /\ ~(u >= hi)
      BY <1>8
    <3>2. u \notin E
      BY <1>11, <3>1
    <3>3. u # next
      BY <1>8, <2>2
    <3>4. QED
      BY <1>23, <2>2, <3>2, <3>3 DEF G, E, F
  <2>3. Sums(Offers(g, n, R), n)[n] =
          total + (Offer(g, R, lo) - Offer(h, S, lo))
            + IF j = lo THEN 0 ELSE Offer(g, R, j) - Offer(h, S, j)
    <3> HIDE DEF j
    <3>1. QED
      BY <1>1, <1>13, <1>18, <1>19, <2>1, <2>2, RecutTotal DEF R
  <2>4. Offer(g, R, lo) = 16 * (hi - lo) - 8
    BY <1>17, <1>23 DEF G, Offer, ALIGNMENT, USEDBLK_SZ
  <2>5. Offer(h, S, lo) = IF lo = b THEN 0 ELSE 16 * (b - lo) - 8
    BY <1>4, <1>5 DEF F, Offer, ALIGNMENT, USEDBLK_SZ
  <2>6. total \in Int /\ g.totalFree = total + (16 * (next - b) - 8)
                         + (IF lo = b THEN 0 ELSE 8) + (IF hi = next THEN 0 ELSE 8)
    BY <1>1, <1>3, <1>13
  <2> HIDE DEF total
  <2>7. CASE hi = next
    <3>1. Sums(Offers(g, n, R), n)[n] =
            total + ((16 * (hi - lo) - 8) - IF lo = b THEN 0 ELSE 16 * (b - lo) - 8) + 0
      BY <2>3, <2>4, <2>5, <2>7
    <3>2. QED
      BY <1>8, <2>6, <2>7, <3>1
  <2>8. CASE hi # next
    <3>1. next \in F /\ BtSize(h, next) = hi - next
      BY <1>4, <1>6, <2>8
    <3>2. next # lo
      BY <1>8
    <3>3. next \notin G
      BY <3>2 DEF E, G
    <3>4. Offer(g, R, next) = 0 /\ Offer(h, S, next) = 16 * (hi - next) - 8
      BY <1>23, <3>1, <3>3 DEF F, Offer, ALIGNMENT, USEDBLK_SZ
    <3>5. Sums(Offers(g, n, R), n)[n] =
            total + ((16 * (hi - lo) - 8) - IF lo = b THEN 0 ELSE 16 * (b - lo) - 8)
              + (0 - (16 * (hi - next) - 8))
      BY <2>3, <2>4, <2>5, <2>8, <3>2, <3>4
    <3>6. QED
      BY <1>8, <2>6, <2>8, <3>5
  <2>9. QED
    BY <2>7, <2>8
<1>26. Good(g, n, R)
  <2>1. Listed(g, n, FreeOf(g, R))
    BY <1>13, <1>23
  <2>2. QED
    BY <1>13, <1>20, <1>25, <2>1, GoodEdit DEF R
<1>27. QED
  BY <1>13, <1>24, <1>26 DEF R, g, s

(* The block b is free, and with it the free one that may follow.           *)
Joins(h, x, n, S, b, hi) ==
  LET next == BtNext(h, b)
      F == FreeOf(h, S)
  IN  /\ x \in Words(n) /\ x.wild = h.wild
      /\ (hi = next /\ next \notin F) \/ (next \in F /\ hi = BtNext(h, next))
      /\ x.hdr[b].size = hi - b /\ "USED" \notin x.hdr[b].flags
      /\ "ISLAST" \in x.hdr[b].flags => hi = n
      /\ "PREVFREE" \in x.hdr[b].flags <=> FreePred(h, S, b)
      /\ x.foot[hi - 1] = x.hdr[b]
      /\ \A u \in 0..(n - 1) : u < b \/ u >= hi => x.foot[u] = h.foot[u]
      /\ \A u \in 0..(n - 1) : u < b \/ u > hi => x.hdr[u] = h.hdr[u]
      /\ hi \in S => /\ ~BtFree(h, hi) /\ x.hdr[hi].size = h.hdr[hi].size
                     /\ x.hdr[hi].flags = h.hdr[hi].flags \cup {"PREVFREE"}
      /\ Listed(x, n, F \ {next})
      /\ \A u \in 0..(n - 1) : u \notin F => x.next[u] = h.next[u] /\ x.prev[u] = h.prev[u]
      /\ x.totalFree = h.totalFree + (16 * (next - b) - 8) + (IF hi = next THEN 0 ELSE 8)

Freed(h, b) == BtMake(h, b, BtSize(h, b), h.hdr[b].flags \ {"USED"})

Joined(h, b) == [CoalesceNext(Freed(h, b), b)
                   EXCEPT !.totalFree = @ + (ALIGNMENT * BtSize(h, b) - USEDBLK_SZ)]

LEMMA FreedIs ==
  ASSUME NEW n \in Nat, NEW h, NEW S, Good(h, n, S), NEW b \in S, ~BtFree(h, b)
  PROVE  LET x == Freed(h, b)
             next == BtNext(h, b)
             flags == h.hdr[b].flags \ {"USED"}
             tag == [size |-> next - b, flags |-> flags]
         IN  /\ flags \in SUBSET Flags /\ "USED" \notin flags
             /\ "ISLAST" \in flags => next = n
             /\ "PREVFREE" \in flags <=> FreePred(h, S, b)
             /\ b \in 0..(n - 1) /\ next \in (b + 1)..n /\ next \in S \cup {n}
             /\ BtSize(h, b) = next - b
             /\ x \in Words(n) /\ x.prev = h.prev /\ x.next = h.next
             /\ x.totalFree = h.totalFree /\ x.wild = h.wild
             /\ \A u \in 0..n : x.hdr[u] = IF u = b THEN tag ELSE h.hdr[u]
             /\ \A u \in 0..(n - 1) : x.foot[u] = IF u = next - 1 THEN tag ELSE h.foot[u]
<1> DEFINE x == Freed(h, b)
           next == BtNext(h, b)
           size == BtSize(h, b)
           flags == h.hdr[b].flags \ {"USED"}
           tag == [size |-> next - b, flags |-> flags]
<1>1. h \in Words(n) /\ Cut(h, n, S) /\ Fits(h, n, S, b)
  BY GoodType
<1>2. /\ b \in 0..(n - 1) /\ next \in (b + 1)..n /\ next \in S \cup {n}
      /\ size = next - b /\ size \in Nat /\ size > 0 /\ b + size <= n /\ b + size - 1 = next - 1
  <2>1. b \in 0..(n - 1) /\ next = b + size /\ size \in 1..n /\ next \in (b + 1)..n
    BY <1>1, CutType
  <2>2. next \in S \cup {n}
    BY <1>1 DEF Cut
  <2> HIDE DEF next, size
  <2>3. QED
    BY <2>1, <2>2
<1>3. flags \in SUBSET Flags
  <2>1. b \in 0..n
    BY <1>2
  <2>2. h.hdr[b].flags \in SUBSET Flags
    BY <1>1, <2>1, WordsType
  <2>3. QED
    BY <2>2
<1>4. /\ "USED" \notin flags /\ ("ISLAST" \in flags => next = n)
      /\ "PREVFREE" \in flags <=> FreePred(h, S, b)
  BY <1>1 DEF Fits
<1> HIDE DEF flags, size, next
<1>5. Made(BtMake(h, b, size, flags), h, n, b, size, flags)
  <2>1. h \in Words(n) /\ b \in 0..(n - 1) /\ size \in Nat /\ size > 0 /\ b + size <= n
        /\ flags \in SUBSET Flags
    BY <1>1, <1>2, <1>3
  <2>2. QED
    BY <2>1, MakeIs
<1>6. x = BtMake(h, b, size, flags)
  BY DEF Freed, size, flags
<1> HIDE DEF x
<1>7. /\ x \in Words(n) /\ x.prev = h.prev /\ x.next = h.next
      /\ x.totalFree = h.totalFree /\ x.wild = h.wild
      /\ \A u \in 0..n : x.hdr[u] = IF u = b THEN tag ELSE h.hdr[u]
  BY <1>2, <1>5, <1>6 DEF Made
<1>8. \A u \in 0..(n - 1) : x.foot[u] = IF u = next - 1 THEN tag ELSE h.foot[u]
  BY <1>2, <1>4, <1>5, <1>6 DEF Made
<1>9. QED
  BY <1>2, <1>3, <1>4, <1>7, <1>8 DEF x, next, flags, size

LEMMA JoinsNone ==
  ASSUME NEW n \in Nat, NEW h, NEW S, Good(h, n, S), NEW b \in S, ~BtFree(h, b),
         ~Wild(h, b), BtNext(h, b) \notin FreeOf(h, S)
  PROVE  Joins(h, Joined(h, b), n, S, b, BtNext(h, b))
<1> DEFINE F == FreeOf(h, S)
           next == BtNext(h, b)
           flags == h.hdr[b].flags \ {"USED"}
           tag == [size |-> next - b, flags |-> flags]
           x1 == Freed(h, b)
           x2 == BtSetPrevFree(x1, next)
           x3 == [x2 EXCEPT !.totalFree = @ + (ALIGNMENT * BtSize(h, b) - USEDBLK_SZ)]
<1>1. /\ h \in Words(n) /\ Listed(h, n, F)
      /\ h.totalFree \in Int /\ DOMAIN h.foot = 0..(n - 1) /\ S \in SUBSET (0..(n - 1))
  <2>1. h \in Words(n) /\ Listed(h, n, F) /\ S \in SUBSET (0..(n - 1))
    BY GoodType
  <2>2. QED
    BY <2>1, WordsType
<1>2. /\ flags \in SUBSET Flags /\ "USED" \notin flags
      /\ "ISLAST" \in flags => next = n
      /\ "PREVFREE" \in flags <=> FreePred(h, S, b)
      /\ b \in 0..(n - 1) /\ next \in (b + 1)..n /\ next \in S \cup {n}
      /\ BtSize(h, b) = next - b
      /\ x1 \in Words(n) /\ x1.prev = h.prev /\ x1.next = h.next
      /\ x1.totalFree = h.totalFree /\ x1.wild = h.wild
      /\ \A u \in 0..n : x1.hdr[u] = IF u = b THEN tag ELSE h.hdr[u]
      /\ \A u \in 0..(n - 1) : x1.foot[u] = IF u = next - 1 THEN tag ELSE h.foot[u]
  BY FreedIs
<1>3. ~BtFree(h, next)
  <2>1. CASE next \in S
    BY <2>1 DEF FreeOf
  <2>2. CASE next = n
    <3>1. next \notin DOMAIN h.foot
      BY <1>1, <2>2
    <3>2. QED
      BY <3>1 DEF Wild
  <2>3. QED
    BY <1>2, <2>1, <2>2
<1> HIDE DEF next, flags, x1
<1>4. /\ b \in 0..n /\ next \in 0..n /\ b < next /\ next # b
      /\ next - 1 \in 0..(n - 1) /\ next - b \in Int
  BY <1>2
<1>5. x1.hdr[b] = tag /\ x1.hdr[next] = h.hdr[next]
  BY <1>2, <1>4
<1>6. Joined(h, b) = x3
  <2>1. BtNext(x1, b) = next
    BY <1>4, <1>5 DEF BtNext, BtSize
  <2>2. ~BtFree(x1, next)
    BY <1>3, <1>5 DEF BtFree
  <2>3. CoalesceNext(x1, b) = x2
    BY <2>1, <2>2 DEF CoalesceNext
  <2>4. QED
    BY <2>3 DEF Joined, x1
<1>7. /\ x2 \in Words(n) /\ x2.prev = h.prev /\ x2.next = h.next /\ x2.foot = x1.foot
      /\ x2.totalFree = h.totalFree /\ x2.wild = h.wild
      /\ \A u \in 0..n : x2.hdr[u] =
           IF u = next THEN [size |-> h.hdr[next].size,
                             flags |-> h.hdr[next].flags \cup {"PREVFREE"}]
           ELSE x1.hdr[u]
  <2>1. LET t == [size |-> x1.hdr[next].size, flags |-> x1.hdr[next].flags \cup {"PREVFREE"}]
        IN  /\ x2 \in Words(n) /\ x2.prev = x1.prev /\ x2.next = x1.next /\ x2.foot = x1.foot
            /\ x2.totalFree = x1.totalFree /\ x2.wild = x1.wild
            /\ \A u \in 0..n : x2.hdr[u] = IF u = next THEN t ELSE x1.hdr[u]
    BY <1>2, <1>4, SetPrevFreeIs
  <2> HIDE DEF x2
  <2>2. QED
    BY <1>2, <1>5, <2>1
<1> HIDE DEF x2
<1>8. /\ x3 \in Words(n) /\ x3.hdr = x2.hdr /\ x3.foot = x1.foot
      /\ x3.prev = h.prev /\ x3.next = h.next /\ x3.wild = h.wild
      /\ x3.totalFree = h.totalFree + (16 * (next - b) - 8)
  <2>1. h.totalFree + (16 * (next - b) - 8) \in Int
    BY <1>1, <1>4
  <2>2. x3 = [x2 EXCEPT !.totalFree = h.totalFree + (16 * (next - b) - 8)]
    BY <1>2, <1>7 DEF ALIGNMENT, USEDBLK_SZ
  <2> HIDE DEF x3
  <2>3. QED
    BY <1>7, <2>1, <2>2, TotalIs
<1> HIDE DEF x3
<1>9. /\ x3.hdr[b] = tag
      /\ x3.hdr[next].size = h.hdr[next].size
      /\ x3.hdr[next].flags = h.hdr[next].flags \cup {"PREVFREE"}
      /\ \A u \in 0..(n - 1) : u < b \/ u > next => x3.hdr[u] = h.hdr[u]
  <2>1. ASSUME NEW u \in 0..(n - 1), u < b \/ u > next PROVE x3.hdr[u] = h.hdr[u]
    <3>1. u \in 0..n /\ u # b /\ u # next
      BY <1>4, <2>1
    <3>2. QED
      BY <1>2, <1>7, <1>8, <3>1
  <2>2. QED
    BY <1>4, <1>5, <1>7, <1>8, <2>1
<1>10. /\ x3.foot[next - 1] = tag
       /\ \A u \in 0..(n - 1) : u < b \/ u >= next => x3.foot[u] = h.foot[u]
  <2>1. ASSUME NEW u \in 0..(n - 1), u < b \/ u >= next PROVE u # next - 1
    BY <1>4, <2>1
  <2>2. QED
    BY <1>2, <1>4, <1>8, <2>1
<1>11. Listed(x3, n, F \ {next})
  <2>1. F \ {next} = F
    BY DEF next
  <2> HIDE DEF F
  <2>2. QED
    BY <1>1, <1>8, <2>1, SameList
<1>12. x3.totalFree = h.totalFree + (16 * (next - b) - 8) + (IF next = next THEN 0 ELSE 8)
  BY <1>1, <1>4, <1>8
<1>13. /\ x3.hdr[b].size = next - b /\ "USED" \notin x3.hdr[b].flags
       /\ "ISLAST" \in x3.hdr[b].flags => next = n
       /\ "PREVFREE" \in x3.hdr[b].flags <=> FreePred(h, S, b)
       /\ x3.foot[next - 1] = x3.hdr[b]
  BY <1>2, <1>9, <1>10
<1>14. next \notin F
  BY DEF next
<1> HIDE DEF F, tag
<1>15. Joins(h, x3, n, S, b, next)
  BY <1>3, <1>8, <1>9, <1>10, <1>11, <1>12, <1>13, <1>14 DEF Joins, next, F
<1>16. QED
  BY <1>6, <1>15 DEF next

LEMMA JoinsNext ==
  ASSUME NEW n \in Nat, NEW h, NEW S, Good(h, n, S), NEW b \in S, ~BtFree(h, b),
         NEW f \in FreeOf(h, S), f = BtNext(h, b)
  PROVE  Joins(h, Joined(h, b), n, S, b, BtNext(h, f))
<1> DEFINE F == FreeOf(h, S)
           hi == BtNext(h, f)
           flags == h.hdr[b].flags \ {"USED"}
           tag == [size |-> f - b, flags |-> flags]
           kept == BtHas(h, b, "PREVFREE") \cup BtHas(h, f, "ISLAST")
           tag2 == [size |-> hi - b, flags |-> kept]
           x1 == Freed(h, b)
           x2 == FreeRemove(x1, f)
           x3 == BtMake(x2, b, hi - b, kept)
           x4 == [x3 EXCEPT !.totalFree = @ + USEDBLK_SZ]
           x5 == [x4 EXCEPT !.totalFree = @ + (ALIGNMENT * BtSize(h, b) - USEDBLK_SZ)]
<1>1. /\ h \in Words(n) /\ Cut(h, n, S) /\ \A c \in S : Fits(h, n, S, c)
      /\ Listed(h, n, F) /\ F \in SUBSET (0..(n - 1))
      /\ h.totalFree \in Int
  <2>1. /\ h \in Words(n) /\ Cut(h, n, S) /\ \A c \in S : Fits(h, n, S, c)
        /\ Listed(h, n, F) /\ F \in SUBSET (0..(n - 1))
    BY GoodType
  <2>2. QED
    BY <2>1, WordsType
<1>2. /\ flags \in SUBSET Flags /\ "USED" \notin flags
      /\ "PREVFREE" \in flags <=> FreePred(h, S, b)
      /\ b \in 0..(n - 1) /\ f \in (b + 1)..n
      /\ BtSize(h, b) = f - b
      /\ x1 \in Words(n) /\ x1.prev = h.prev /\ x1.next = h.next
      /\ x1.totalFree = h.totalFree /\ x1.wild = h.wild
      /\ \A u \in 0..n : x1.hdr[u] = IF u = b THEN tag ELSE h.hdr[u]
      /\ \A u \in 0..(n - 1) : x1.foot[u] = IF u = f - 1 THEN tag ELSE h.foot[u]
  BY FreedIs
<1>3. /\ f \in S /\ f \in 0..(n - 1) /\ hi \in (f + 1)..n
      /\ BtSize(h, f) = hi - f
      /\ BtHas(h, f, "ISLAST") \in SUBSET Flags /\ (BtHas(h, f, "ISLAST") # {} => hi = n)
      /\ BtFree(h, f)
      /\ hi \in S => ~BtFree(h, hi) /\ "PREVFREE" \in h.hdr[hi].flags
  <2>1. h \in Words(n) /\ Cut(h, n, S) /\ \A c \in S : Fits(h, n, S, c)
    BY <1>1
  <2>2. f \in S /\ BtFree(h, f)
    BY DEF FreeOf
  <2> HIDE DEF F
  <2>3. QED
    BY <2>1, <2>2, FreeBlockIs
<1>4. /\ kept \in SUBSET Flags /\ "USED" \notin kept
      /\ "ISLAST" \in kept => hi = n
      /\ "PREVFREE" \in kept <=> FreePred(h, S, b)
  <2>1. BtHas(h, b, "PREVFREE") = flags \cap {"PREVFREE"}
    BY DEF BtHas
  <2>2. BtHas(h, f, "ISLAST") \subseteq {"ISLAST"}
    BY DEF BtHas
  <2> HIDE DEF flags
  <2>3. "PREVFREE" \in kept <=> "PREVFREE" \in flags
    BY <2>1, <2>2
  <2>4. kept \in SUBSET Flags /\ "USED" \notin kept
    BY <1>2, <1>3, <2>1, <2>2
  <2>5. "ISLAST" \in kept => hi = n
    BY <1>3, <2>1, <2>2
  <2>6. QED
    BY <1>2, <2>3, <2>4, <2>5
<1> HIDE DEF hi, flags, x1
<1>5. /\ b \in 0..n /\ f \in 0..n /\ hi \in 0..n /\ b < f /\ f < hi /\ f # b /\ b # hi
      /\ f - 1 \in 0..(n - 1) /\ f - b \in Int /\ hi - 1 \in 0..(n - 1)
      /\ hi - b \in Nat /\ hi - b > 0 /\ b + (hi - b) <= n /\ b + (hi - b) - 1 = hi - 1
      /\ (f - b) + (hi - f) = hi - b
  BY <1>2, <1>3
<1>6. x1.hdr[b] = tag /\ x1.hdr[f] = h.hdr[f]
  BY <1>2, <1>5
<1>7. Joined(h, b) = x5
  <2>1. BtNext(x1, b) = f
    BY <1>5, <1>6 DEF BtNext, BtSize
  <2>2. BtFree(x1, f)
    BY <1>3, <1>6 DEF BtFree
  <2>3. BtSize(x1, b) + BtSize(x1, f) = hi - b
    BY <1>3, <1>5, <1>6 DEF BtSize
  <2>4. BtHas(x1, b, "PREVFREE") \cup BtHas(x1, f, "ISLAST") = kept
    BY <1>6 DEF BtHas, flags
  <2> HIDE DEF kept
  <2>5. CoalesceNext(x1, b) = x4
    BY <2>1, <2>2, <2>3, <2>4 DEF CoalesceNext
  <2>6. QED
    BY <2>5 DEF Joined, x1
<1> HIDE DEF kept
<1>8. /\ x2 \in Words(n) /\ x2.hdr = x1.hdr /\ x2.foot = x1.foot
      /\ x2.totalFree = h.totalFree /\ x2.wild = h.wild
      /\ Listed(x2, n, F \ {f})
      /\ \A u \in 0..(n - 1) : u \notin F => x2.next[u] = h.next[u] /\ x2.prev[u] = h.prev[u]
  <2>1. f \in F
    OBVIOUS
  <2> HIDE DEF F
  <2>2. x1 \in Words(n) /\ F \in SUBSET (0..(n - 1)) /\ Listed(x1, n, F)
    BY <1>1, <1>2, SameList
  <2> HIDE DEF x3, x4, x5
  <2>3. /\ x2 \in Words(n) /\ x2.hdr = x1.hdr /\ x2.foot = x1.foot
        /\ x2.totalFree = x1.totalFree /\ x2.wild = x1.wild
        /\ Listed(x2, n, F \ {f})
        /\ \A u \in 0..(n - 1) : u \notin F =>
              x2.next[u] = x1.next[u] /\ x2.prev[u] = x1.prev[u]
    BY <2>1, <2>2, RemoveKeeps
  <2> HIDE DEF x2
  <2>4. QED
    BY <1>2, <2>3
<1> HIDE DEF x2
<1>9. /\ x3 \in Words(n) /\ x3.prev = x2.prev /\ x3.next = x2.next
      /\ x3.totalFree = h.totalFree /\ x3.wild = h.wild
      /\ \A u \in 0..n : x3.hdr[u] = IF u = b THEN tag2 ELSE x1.hdr[u]
      /\ \A u \in 0..(n - 1) : x3.foot[u] = IF u = hi - 1 THEN tag2 ELSE x1.foot[u]
  <2> DEFINE size == hi - b
  <2>1. /\ x2 \in Words(n) /\ b \in 0..(n - 1) /\ size \in Nat /\ size > 0 /\ b + size <= n
        /\ kept \in SUBSET Flags
    BY <1>2, <1>4, <1>5, <1>8
  <2>2. size = hi - b /\ b + size - 1 = hi - 1
    BY <1>5
  <2> HIDE DEF size
  <2>3. Made(BtMake(x2, b, size, kept), x2, n, b, size, kept)
    BY <2>1, MakeIs
  <2>4. x3 = BtMake(x2, b, size, kept) /\ tag2 = [size |-> size, flags |-> kept]
    BY <2>2
  <2> HIDE DEF x3, tag2
  <2>5. /\ x3 \in Words(n) /\ x3.prev = x2.prev /\ x3.next = x2.next
        /\ x3.totalFree = h.totalFree /\ x3.wild = h.wild
        /\ \A u \in 0..n : x3.hdr[u] = IF u = b THEN tag2 ELSE x1.hdr[u]
    BY <1>8, <2>3, <2>4 DEF Made
  <2>6. \A u \in 0..(n - 1) : x3.foot[u] = IF u = hi - 1 THEN tag2 ELSE x1.foot[u]
    BY <1>4, <1>8, <2>2, <2>3, <2>4 DEF Made
  <2>7. QED
    BY <2>5, <2>6
<1> HIDE DEF x3
<1>10. /\ x5 \in Words(n) /\ x5.hdr = x3.hdr /\ x5.foot = x3.foot
       /\ x5.prev = x2.prev /\ x5.next = x2.next /\ x5.wild = h.wild
       /\ x5.totalFree = h.totalFree + (16 * (f - b) - 8) + 8
  <2>1. h.totalFree + 8 \in Int /\ h.totalFree + (16 * (f - b) - 8) + 8 \in Int
        /\ h.totalFree + 8 + (16 * (f - b) - 8) = h.totalFree + (16 * (f - b) - 8) + 8
    BY <1>1, <1>5
  <2>2. x4 = [x3 EXCEPT !.totalFree = h.totalFree + 8]
    BY <1>9 DEF USEDBLK_SZ
  <2> HIDE DEF x4
  <2>3. /\ x4 \in Words(n) /\ x4.hdr = x3.hdr /\ x4.foot = x3.foot /\ x4.totalFree = h.totalFree + 8
        /\ x4.prev = x2.prev /\ x4.next = x2.next /\ x4.wild = h.wild
    BY <1>9, <2>1, <2>2, TotalIs
  <2>4. x5 = [x4 EXCEPT !.totalFree = h.totalFree + (16 * (f - b) - 8) + 8]
    BY <1>2, <2>1, <2>3 DEF ALIGNMENT, USEDBLK_SZ
  <2> HIDE DEF x5
  <2>5. QED
    BY <2>1, <2>3, <2>4, TotalIs
<1> HIDE DEF x4, x5
<1>11. /\ x5.hdr[b] = tag2
       /\ x5.hdr[hi] = h.hdr[hi]
       /\ \A u \in 0..(n - 1) : u < b \/ u > hi => x5.hdr[u] = h.hdr[u]
  <2>1. ASSUME NEW u \in 0..(n - 1), u < b \/ u > hi PROVE x5.hdr[u] = h.hdr[u]
    <3>1. u \in 0..n /\ u # b
      BY <1>5, <2>1
    <3>2. QED
      BY <1>2, <1>9, <1>10, <3>1
  <2>2. QED
    BY <1>2, <1>5, <1>9, <1>10, <2>1
<1>12. /\ x5.foot[hi - 1] = tag2
       /\ \A u \in 0..(n - 1) : u < b \/ u >= hi => x5.foot[u] = h.foot[u]
  <2>1. ASSUME NEW u \in 0..(n - 1), u < b \/ u >= hi PROVE u # hi - 1 /\ u # f - 1
    BY <1>5, <2>1
  <2>2. QED
    BY <1>2, <1>5, <1>9, <1>10, <2>1
<1>13. Listed(x5, n, F \ {f})
  <2> HIDE DEF F
  <2>1. QED
    BY <1>8, <1>10, SameList
<1>14. x5.totalFree = h.totalFree + (16 * (f - b) - 8) + (IF hi = f THEN 0 ELSE 8)
  BY <1>1, <1>5, <1>10
<1>15. /\ x5.hdr[b].size = hi - b /\ "USED" \notin x5.hdr[b].flags
       /\ "ISLAST" \in x5.hdr[b].flags => hi = n
       /\ "PREVFREE" \in x5.hdr[b].flags <=> FreePred(h, S, b)
       /\ x5.foot[hi - 1] = x5.hdr[b]
  BY <1>4, <1>11, <1>12
<1>16. hi \in S => /\ ~BtFree(h, hi) /\ x5.hdr[hi].size = h.hdr[hi].size
                   /\ x5.hdr[hi].flags = h.hdr[hi].flags \cup {"PREVFREE"}
  BY <1>3, <1>11
<1>17. f \in F
  OBVIOUS
<1>18. \A u \in 0..(n - 1) : u \notin F => x5.next[u] = h.next[u] /\ x5.prev[u] = h.prev[u]
  BY <1>8, <1>10
<1> HIDE DEF F, tag2
<1>19. Joins(h, x5, n, S, b, hi)
  BY <1>10, <1>11, <1>12, <1>13, <1>14, <1>15, <1>16, <1>17, <1>18 DEF Joins, F, hi
<1>20. QED
  BY <1>7, <1>19 DEF hi

LEMMA JoinedFrees ==
  ASSUME NEW n \in Nat, NEW h, NEW S, Good(h, n, S), NEW b \in S, ~BtFree(h, b),
         NEW k, NEW hi, Joins(h, k, n, S, b, hi)
  PROVE  \E x, lo : /\ CoalescePrev(k, b) = ArenaFreeInsert(Scrub(x, lo), lo)
                    /\ Frees(h, x, n, S, lo, b, hi)
<1> DEFINE F == FreeOf(h, S)
           next == BtNext(h, b)
           E == F \ {next}
<1>1. /\ h \in Words(n) /\ Cut(h, n, S) /\ \A c \in S : Fits(h, n, S, c)
      /\ F \in SUBSET (0..(n - 1)) /\ h.totalFree \in Int
  <2>1. /\ h \in Words(n) /\ Cut(h, n, S) /\ \A c \in S : Fits(h, n, S, c)
        /\ F \in SUBSET (0..(n - 1))
    BY GoodType
  <2>2. QED
    BY <2>1, WordsType
<1>2. b \in 0..(n - 1) /\ next \in (b + 1)..n /\ b \notin F
  <2>1. b \notin F
    BY DEF FreeOf
  <2>2. QED
    BY <1>1, <2>1, CutType
<1>3. /\ k \in Words(n) /\ k.wild = h.wild
      /\ (hi = next /\ next \notin F) \/ (next \in F /\ hi = BtNext(h, next))
      /\ k.hdr[b].size = hi - b /\ "USED" \notin k.hdr[b].flags
      /\ "ISLAST" \in k.hdr[b].flags => hi = n
      /\ "PREVFREE" \in k.hdr[b].flags <=> FreePred(h, S, b)
      /\ k.foot[hi - 1] = k.hdr[b]
      /\ \A u \in 0..(n - 1) : u < b \/ u >= hi => k.foot[u] = h.foot[u]
      /\ \A u \in 0..(n - 1) : u < b \/ u > hi => k.hdr[u] = h.hdr[u]
      /\ hi \in S => /\ ~BtFree(h, hi) /\ k.hdr[hi].size = h.hdr[hi].size
                     /\ k.hdr[hi].flags = h.hdr[hi].flags \cup {"PREVFREE"}
      /\ Listed(k, n, E)
      /\ \A u \in 0..(n - 1) : u \notin F => k.next[u] = h.next[u] /\ k.prev[u] = h.prev[u]
      /\ k.totalFree = h.totalFree + (16 * (next - b) - 8) + (IF hi = next THEN 0 ELSE 8)
  BY DEF Joins
<1>4. hi \in next..n
  <2>1. CASE next \in F
    <3>1. next \in S /\ hi = BtNext(h, next)
      BY <1>2, <1>3, <2>1 DEF FreeOf
    <3>2. next \in 0..(n - 1) /\ hi \in (next + 1)..n
      <4> HIDE DEF next
      <4>1. QED
        BY <1>1, <3>1, CutType
    <3>3. QED
      BY <3>2
  <2>2. CASE next \notin F
    BY <1>2, <1>3, <2>2
  <2>3. QED
    BY <2>1, <2>2
<1>5. CASE "PREVFREE" \notin k.hdr[b].flags
  <2>1. CoalescePrev(k, b) = ArenaFreeInsert(Scrub(k, b), b)
    BY <1>5 DEF CoalescePrev, BtHas
  <2>2. Listed(k, n, F \ {b, next})
    <3>1. F \ {b, next} = E
      BY <1>2
    <3>2. QED
      BY <1>3, <3>1
  <2>3. ~FreePred(h, S, b)
    BY <1>3, <1>5
  <2>4. k.totalFree = h.totalFree + (16 * (next - b) - 8)
                        + (IF b = b THEN 0 ELSE 8) + (IF hi = next THEN 0 ELSE 8)
    BY <1>1, <1>2, <1>3
  <2> HIDE DEF F, next, E
  <2>5. Frees(h, k, n, S, b, b, hi)
    BY <1>3, <2>2, <2>3, <2>4 DEF Frees, F, next
  <2>6. QED
    BY <2>1, <2>5
<1>6. CASE "PREVFREE" \in k.hdr[b].flags
  <2>1. PICK p \in S : BtNext(h, p) = b /\ BtFree(h, p)
    BY <1>3, <1>6 DEF FreePred
  <2>2. p \in F
    BY <2>1 DEF FreeOf
  <2>3. p \in 0..(n - 1) /\ BtSize(h, p) = b - p /\ p < b /\ h.foot[b - 1] = h.hdr[p]
    <3>1. h \in Words(n) /\ Cut(h, n, S) /\ \A c \in S : Fits(h, n, S, c)
      BY <1>1
    <3>2. LET end == BtNext(h, p)
          IN  p \in 0..(n - 1) /\ end \in (p + 1)..n /\ BtSize(h, p) = end - p
              /\ h.foot[end - 1] = h.hdr[p]
      <4> HIDE DEF F
      <4>1. p \in FreeOf(h, S)
        BY <2>2 DEF F
      <4>2. QED
        BY <3>1, <4>1, FreeBlockIs
    <3>3. QED
      BY <2>1, <3>2
  <2> DEFINE kept == BtHas(k, b, "ISLAST")
             tag == [size |-> hi - p, flags |-> kept]
             x1 == FreeRemove(k, p)
             x2 == BtMake(x1, p, hi - p, kept)
             x3 == [x2 EXCEPT !.totalFree = @ + USEDBLK_SZ]
  <2>4. kept \in SUBSET Flags /\ "USED" \notin kept /\ ("ISLAST" \in kept => hi = n)
    BY <1>3 DEF BtHas, Flags
  <2> HIDE DEF F, next
  <2>5. /\ b \in 0..n /\ p \in 0..n /\ hi \in 0..n /\ p < b /\ b < hi /\ next \in 0..n
        /\ b - 1 \in 0..(n - 1) /\ b - 1 < b /\ hi - 1 \in 0..(n - 1) /\ b - 1 # hi - 1
        /\ hi - p \in Nat /\ hi - p > 0 /\ p + (hi - p) <= n /\ p + (hi - p) - 1 = hi - 1
        /\ (hi - b) + (b - p) = hi - p /\ b - (b - p) = p /\ p # next
    BY <1>2, <1>4, <2>3
  <2>6. k.hdr[p] = h.hdr[p] /\ k.foot[b - 1] = h.foot[b - 1]
    BY <1>3, <2>3, <2>5
  <2>7. CoalescePrev(k, b) = ArenaFreeInsert(Scrub(x3, p), p)
    <3>1. BtPrev(k, b) = p
      BY <2>3, <2>5, <2>6 DEF BtPrev, BtSize
    <3>2. BtSize(k, b) + BtSize(k, p) = hi - p
      BY <1>3, <2>3, <2>5, <2>6 DEF BtSize
    <3>3. BtHas(k, b, "PREVFREE") # {}
      BY <1>6 DEF BtHas
    <3> HIDE DEF kept
    <3>4. QED
      BY <3>1, <3>2, <3>3 DEF CoalescePrev, kept
  <2> HIDE DEF kept
  <2>8. /\ x1 \in Words(n) /\ x1.hdr = k.hdr /\ x1.foot = k.foot
        /\ x1.totalFree = k.totalFree /\ x1.wild = k.wild
        /\ Listed(x1, n, E \ {p})
        /\ \A u \in 0..(n - 1) : u \notin E => x1.next[u] = k.next[u] /\ x1.prev[u] = k.prev[u]
    <3>1. p \in E /\ E \in SUBSET (0..(n - 1))
      BY <1>1, <2>2, <2>5
    <3> HIDE DEF E
    <3>2. QED
      BY <1>3, <3>1, RemoveKeeps
  <2> HIDE DEF x1
  <2>9. /\ x2 \in Words(n) /\ x2.prev = x1.prev /\ x2.next = x1.next
        /\ x2.totalFree = k.totalFree /\ x2.wild = h.wild
        /\ \A u \in 0..n : x2.hdr[u] = IF u = p THEN tag ELSE k.hdr[u]
        /\ \A u \in 0..(n - 1) : x2.foot[u] = IF u = hi - 1 THEN tag ELSE k.foot[u]
    <3> DEFINE size == hi - p
    <3>1. /\ x1 \in Words(n) /\ p \in 0..(n - 1) /\ size \in Nat /\ size > 0 /\ p + size <= n
          /\ kept \in SUBSET Flags
      BY <2>3, <2>4, <2>5, <2>8
    <3>2. size = hi - p /\ p + size - 1 = hi - 1
      BY <2>5
    <3> HIDE DEF size
    <3>3. Made(BtMake(x1, p, size, kept), x1, n, p, size, kept)
      BY <3>1, MakeIs
    <3>4. x2 = BtMake(x1, p, size, kept) /\ tag = [size |-> size, flags |-> kept]
      BY <3>2
    <3> HIDE DEF x2, tag
    <3>5. /\ x2 \in Words(n) /\ x2.prev = x1.prev /\ x2.next = x1.next
          /\ x2.totalFree = k.totalFree /\ x2.wild = h.wild
          /\ \A u \in 0..n : x2.hdr[u] = IF u = p THEN tag ELSE k.hdr[u]
      BY <1>3, <2>8, <3>3, <3>4 DEF Made
    <3>6. \A u \in 0..(n - 1) : x2.foot[u] = IF u = hi - 1 THEN tag ELSE k.foot[u]
      BY <2>4, <2>8, <3>2, <3>3, <3>4 DEF Made
    <3>7. QED
      BY <3>5, <3>6
  <2> HIDE DEF x2
  <2>10. /\ x3 \in Words(n) /\ x3.hdr = x2.hdr /\ x3.foot = x2.foot
         /\ x3.prev = x1.prev /\ x3.next = x1.next /\ x3.wild = h.wild
         /\ x3.totalFree = k.totalFree + 8
    <3>1. k.totalFree + 8 \in Int
      BY <1>1, <1>3, <2>5
    <3>2. x3 = [x2 EXCEPT !.totalFree = k.totalFree + 8]
      BY <2>9 DEF USEDBLK_SZ
    <3> HIDE DEF x3
    <3>3. QED
      BY <2>9, <3>1, <3>2, TotalIs
  <2> HIDE DEF x3
  <2>11. /\ x3.hdr[p] = tag
         /\ x3.hdr[hi] = k.hdr[hi]
         /\ \A u \in 0..(n - 1) : u < p \/ u > hi => x3.hdr[u] = h.hdr[u]
    <3>1. ASSUME NEW u \in 0..(n - 1), u < p \/ u > hi PROVE x3.hdr[u] = h.hdr[u]
      <4>1. u \in 0..n /\ u # p /\ (u < b \/ u > hi)
        BY <2>5, <3>1
      <4>2. QED
        BY <1>3, <2>9, <2>10, <4>1
    <3>2. p # hi
      BY <2>5
    <3>3. QED
      BY <2>5, <2>9, <2>10, <3>1, <3>2
  <2>12. /\ x3.foot[hi - 1] = tag
         /\ \A u \in 0..(n - 1) : u < p \/ u >= hi => x3.foot[u] = h.foot[u]
    <3>1. ASSUME NEW u \in 0..(n - 1), u < p \/ u >= hi
          PROVE  u # hi - 1 /\ (u < b \/ u >= hi)
      BY <2>5, <3>1
    <3>2. QED
      BY <1>3, <2>5, <2>9, <2>10, <3>1
  <2>13. Listed(x3, n, F \ {p, next})
    <3>1. F \ {p, next} = E \ {p}
      OBVIOUS
    <3> HIDE DEF E
    <3>2. Listed(x3, n, E \ {p})
      BY <2>8, <2>10, SameList
    <3>3. QED
      BY <3>1, <3>2
  <2>14. \A u \in 0..(n - 1) : u \notin F => x3.next[u] = h.next[u] /\ x3.prev[u] = h.prev[u]
    BY <1>3, <2>8, <2>10
  <2>15. x3.totalFree = h.totalFree + (16 * (next - b) - 8)
                          + (IF p = b THEN 0 ELSE 8) + (IF hi = next THEN 0 ELSE 8)
    BY <1>1, <1>3, <2>5, <2>10
  <2>16. /\ x3.hdr[p].size = hi - p /\ "USED" \notin x3.hdr[p].flags
         /\ "ISLAST" \in x3.hdr[p].flags => hi = n
         /\ x3.foot[hi - 1] = x3.hdr[p]
    BY <2>4, <2>11, <2>12
  <2> HIDE DEF E, tag
  <2>17. Frees(h, x3, n, S, p, b, hi)
    BY <1>3, <2>1, <2>2, <2>10, <2>11, <2>12, <2>13, <2>14, <2>15, <2>16 DEF Frees, F, next
  <2>18. QED
    BY <2>7, <2>17
<1>7. QED
  BY <1>5, <1>6

(* ArenaMemFree of a used block keeps an arena good.                        *)
LEMMA FreeGood ==
  ASSUME NEW n \in Nat, NEW h, NEW S, Good(h, n, S), NEW b \in S, ~BtFree(h, b), ~Wild(h, b)
  PROVE  LET g == ArenaMemFree(h, b)
         IN  \E R : /\ Good(g, n, R) /\ g.wild = h.wild
                    /\ UsedOf(g, R) = UsedOf(h, S) \ {b}
<1> DEFINE k == Joined(h, b)
           g == ArenaMemFree(h, b)
<1>1. g = CoalescePrev(k, b)
  BY DEF ArenaMemFree, Joined, Freed
<1>2. PICK hi : Joins(h, k, n, S, b, hi)
  <2> HIDE DEF k
  <2>1. CASE BtNext(h, b) \in FreeOf(h, S)
    BY <2>1, JoinsNext DEF k
  <2>2. CASE BtNext(h, b) \notin FreeOf(h, S)
    BY <2>2, JoinsNone DEF k
  <2>3. QED
    BY <2>1, <2>2
<1> HIDE DEF k
<1>3. PICK x, lo : /\ CoalescePrev(k, b) = ArenaFreeInsert(Scrub(x, lo), lo)
                   /\ Frees(h, x, n, S, lo, b, hi)
  BY <1>2, JoinedFrees
<1>4. g = ArenaFreeInsert(Scrub(x, lo), lo)
  BY <1>1, <1>3
<1> HIDE DEF g
<1>5. Good(g, n, Recuts(S, lo, hi, hi)) /\ g.wild = h.wild /\ UsedOf(g, Recuts(S, lo, hi, hi)) = UsedOf(h, S) \ {b}
  BY <1>3, <1>4, FreesGood
<1>6. QED
  BY <1>5 DEF g

(* Allocation of a block that fits, with the data that its client writes.   *)
LEMMA AllocGood ==
  ASSUME NEW n \in Nat, NEW h, NEW S, Good(h, n, S), NEW reqsz \in Nat, reqsz > 0,
         NEW b, b = ArenaFindFit(h, reqsz), b # NULL
  PROVE  LET g == Fill(ArenaMemAlloc(h, b, reqsz), b)
         IN  /\ b \in S /\ BtFree(h, b)
             /\ \E R : /\ Good(g, n, R) /\ g.wild = h.wild
                       /\ UsedOf(g, R) = UsedOf(h, S) \cup {b}
<1> DEFINE F == FreeOf(h, S)
           x == ArenaMemAlloc(h, b, reqsz)
           g == Fill(x, b)
           mid == b + reqsz
           R == Recuts(S, b, mid, BtNext(h, b))
<1>1. /\ h \in Words(n) /\ Cut(h, n, S) /\ Listed(h, n, F) /\ F \in SUBSET (0..(n - 1))
  BY GoodType
<1>2. n > 0
  BY <1>1, CutType
<1>3. b \in F /\ BtSize(h, b) >= reqsz
  <2> HIDE DEF F
  <2>1. QED
    BY <1>1, <1>2, FindFitIs
<1>4. b \in S /\ BtFree(h, b)
  BY <1>3 DEF FreeOf
<1>5. BtSize(h, b) \in Nat
  BY <1>1, <1>4, CutType
<1> HIDE DEF F
<1>6. Takes(h, x, n, S, b, b, mid)
  <2>1. b \in FreeOf(h, S)
    BY <1>3 DEF F
  <2>2. CASE BtSize(h, b) > reqsz
    BY <2>1, <2>2, AllocSplits
  <2>3. CASE BtSize(h, b) = reqsz
    BY <2>1, <2>3, AllocWhole
  <2>4. QED
    BY <1>3, <1>5, <2>2, <2>3
<1> HIDE DEF x, mid
<1>7. Good(g, n, R) /\ g.wild = h.wild /\ UsedOf(g, R) = UsedOf(h, S) \cup {b}
  BY <1>3, <1>4, <1>6, TakesGood DEF F
<1>8. QED
  BY <1>4, <1>7 DEF x

(* Growth of a used block into the free one that follows.                   *)
LEMMA GrowGood ==
  ASSUME NEW n \in Nat, NEW h, NEW S, Good(h, n, S), NEW b \in S, ~BtFree(h, b), ~Wild(h, b),
         NEW reqsz \in Nat, reqsz > BtSize(h, b), CanExpand(h, b, reqsz)
  PROVE  LET g == Fill(Expand(h, b, reqsz), b)
         IN  \E R : Good(g, n, R) /\ g.wild = h.wild /\ UsedOf(g, R) = UsedOf(h, S)
<1> DEFINE f == BtNext(h, b)
           x == Expand(h, b, reqsz)
           g == Fill(x, b)
           mid == b + reqsz
           R == Recuts(S, b, mid, BtNext(h, f))
<1>1. h \in Words(n) /\ Cut(h, n, S)
  BY GoodType
<1>2. BtFree(h, f) /\ BtSize(h, b) + BtSize(h, f) >= reqsz
  BY DEF CanExpand
<1>3. f \in FreeOf(h, S)
  <2>1. DOMAIN h.foot = 0..(n - 1)
    BY <1>1, WordsType
  <2>2. f \in DOMAIN h.foot
    BY <1>2 DEF Wild
  <2>3. f \in S \cup {n}
    BY <1>1 DEF Cut
  <2> HIDE DEF f
  <2>4. f # n
    BY <2>1, <2>2
  <2>5. QED
    BY <1>2, <2>3, <2>4 DEF FreeOf
<1>4. BtSize(h, b) \in Nat /\ BtSize(h, f) \in Nat
  <2>1. f \in S
    BY <1>3 DEF FreeOf
  <2> HIDE DEF f
  <2>2. QED
    BY <1>1, <2>1, CutType
<1>5. Takes(h, x, n, S, b, f, mid)
  <2>1. f = BtNext(h, b)
    OBVIOUS
  <2> HIDE DEF f, x, mid
  <2>2. CASE BtSize(h, b) + BtSize(h, f) > reqsz
    BY <1>3, <2>1, <2>2, ExpandSplits DEF x, mid
  <2>3. CASE BtSize(h, b) + BtSize(h, f) = reqsz
    BY <1>3, <2>1, <2>3, ExpandWhole DEF x, mid
  <2>4. QED
    BY <1>2, <1>4, <2>2, <2>3
<1>6. f = BtNext(h, b)
  OBVIOUS
<1> HIDE DEF x, mid, f
<1>7. Good(g, n, R) /\ g.wild = h.wild /\ UsedOf(g, R) = UsedOf(h, S) \cup {b}
  BY <1>3, <1>5, <1>6, TakesGood
<1>8. UsedOf(h, S) \cup {b} = UsedOf(h, S)
  BY DEF UsedOf
<1>9. QED
  BY <1>7, <1>8 DEF x

(* Both parts of a used block are used blocks.                              *)
LEMMA SplitGood ==
  ASSUME NEW n \in Nat, NEW h, NEW S, Good(h, n, S), NEW b \in S, ~BtFree(h, b),
         NEW reqsz \in Nat, reqsz > 0, reqsz < BtSize(h, b)
  PROVE  LET g == Split(h, b, reqsz)
         IN  /\ b + reqsz \in 0..(n - 1) /\ b + reqsz \notin S
             /\ \E R : /\ Good(g, n, R) /\ g.wild = h.wild
                       /\ UsedOf(g, R) = UsedOf(h, S) \cup {b + reqsz}
<1> DEFINE F == FreeOf(h, S)
           hi == BtNext(h, b)
           mid == b + reqsz
           rest == BtSize(h, b) - reqsz
           flags1 == {"USED"} \cup BtHas(h, b, "PREVFREE")
           flags2 == {"USED"} \cup BtHas(h, b, "ISLAST")
           tag1 == [size |-> reqsz, flags |-> flags1]
           tag2 == [size |-> rest, flags |-> flags2]
           x1 == BtMake(h, b, reqsz, flags1)
           g == BtMake(x1, mid, rest, flags2)
           R == Recuts(S, b, mid, hi)
<1>1. /\ h \in Words(n) /\ Cut(h, n, S) /\ \A c \in S : Fits(h, n, S, c)
      /\ h.totalFree = Sums(Offers(h, n, S), n)[n] /\ Listed(h, n, F)
      /\ S \in SUBSET (0..(n - 1)) /\ F \in SUBSET (0..(n - 1))
      /\ Sums(Offers(h, n, S), n)[n] \in Int
  BY GoodType
<1>2. b \in 0..(n - 1) /\ hi = b + BtSize(h, b) /\ hi \in (b + 1)..n /\ hi \in S \cup {n}
  <2>1. hi \in S \cup {n}
    BY <1>1 DEF Cut
  <2>2. QED
    BY <1>1, <2>1, CutType
<1>3. BtSize(h, b) \in 1..n
  BY <1>1, CutType
<1>4. /\ ("ISLAST" \in h.hdr[b].flags => hi = n)
      /\ BtHasCanary(h, b) /\ Untouched(h, b)
      /\ "PREVFREE" \in h.hdr[b].flags <=> FreePred(h, S, b)
  BY <1>1 DEF Fits
<1>5. /\ flags1 \in SUBSET Flags /\ "USED" \in flags1 /\ "ISLAST" \notin flags1
      /\ "PREVFREE" \in flags1 <=> FreePred(h, S, b)
      /\ flags2 \in SUBSET Flags /\ "USED" \in flags2 /\ "PREVFREE" \notin flags2
      /\ "ISLAST" \in flags2 => hi = n
  BY <1>4 DEF BtHas, Flags
<1>6. Split(h, b, reqsz) = g
  BY DEF Split
<1> HIDE DEF hi, flags1, flags2, mid, rest
<1>7. /\ b \in 0..n /\ mid \in 0..n /\ hi \in 0..n /\ b < mid /\ mid < hi
      /\ rest = hi - mid /\ rest \in Nat /\ rest > 0 /\ mid + rest <= n
      /\ mid + rest - 1 = hi - 1 /\ b + reqsz = mid /\ b + reqsz <= n /\ b + reqsz - 1 = mid - 1
      /\ mid \in 0..(n - 1) /\ mid - 1 \in 0..(n - 1) /\ hi - 1 \in 0..(n - 1) /\ mid - b = reqsz
      /\ mid - 1 # hi - 1 /\ mid # b /\ hi # b /\ hi # mid
  BY <1>2, <1>3 DEF mid, rest
<1>8. /\ x1 \in Words(n) /\ x1.prev = h.prev /\ x1.next = h.next
      /\ x1.totalFree = h.totalFree /\ x1.wild = h.wild
      /\ \A u \in 0..n : x1.hdr[u] = IF u = b THEN tag1 ELSE h.hdr[u]
      /\ \A u \in 0..(n - 1) : x1.foot[u] = IF u = mid - 1 THEN CANARY ELSE h.foot[u]
  <2>1. Made(BtMake(h, b, reqsz, flags1), h, n, b, reqsz, flags1)
    <3>1. /\ h \in Words(n) /\ b \in 0..(n - 1) /\ reqsz \in Nat /\ reqsz > 0 /\ b + reqsz <= n
          /\ flags1 \in SUBSET Flags
      BY <1>1, <1>2, <1>5, <1>7
    <3>2. QED
      BY <3>1, MakeIs
  <2> HIDE DEF x1
  <2>2. x1 = BtMake(h, b, reqsz, flags1)
    BY DEF x1
  <2>3. \A u \in 0..(n - 1) : x1.foot[u] = IF u = mid - 1 THEN CANARY ELSE h.foot[u]
    BY <1>5, <1>7, <2>1, <2>2 DEF Made
  <2>4. QED
    BY <2>1, <2>2, <2>3 DEF Made
<1> HIDE DEF x1
<1>9. /\ g \in Words(n) /\ g.prev = h.prev /\ g.next = h.next
      /\ g.totalFree = h.totalFree /\ g.wild = h.wild
      /\ \A u \in 0..n : g.hdr[u] = IF u = mid THEN tag2 ELSE x1.hdr[u]
      /\ \A u \in 0..(n - 1) : g.foot[u] = IF u = hi - 1 THEN CANARY ELSE x1.foot[u]
  <2>1. Made(BtMake(x1, mid, rest, flags2), x1, n, mid, rest, flags2)
    <3>1. /\ x1 \in Words(n) /\ mid \in 0..(n - 1) /\ rest \in Nat /\ rest > 0 /\ mid + rest <= n
          /\ flags2 \in SUBSET Flags
      BY <1>5, <1>7, <1>8
    <3>2. QED
      BY <3>1, MakeIs
  <2>2. g = BtMake(x1, mid, rest, flags2)
    OBVIOUS
  <2> HIDE DEF g
  <2>3. \A u \in 0..(n - 1) : g.foot[u] = IF u = hi - 1 THEN CANARY ELSE x1.foot[u]
    BY <1>5, <1>7, <2>1, <2>2 DEF Made
  <2>4. QED
    BY <1>8, <2>1, <2>2, <2>3 DEF Made
<1> HIDE DEF g, tag1, tag2
<1>10. /\ g.hdr[b] = tag1 /\ g.hdr[mid] = tag2 /\ g.hdr[hi] = h.hdr[hi]
       /\ \A u \in 0..n : u # b /\ u # mid => g.hdr[u] = h.hdr[u]
  BY <1>7, <1>8, <1>9
<1>11. /\ g.foot[mid - 1] = CANARY /\ g.foot[hi - 1] = CANARY
       /\ \A u \in 0..(n - 1) : u # mid - 1 /\ u # hi - 1 => g.foot[u] = h.foot[u]
  BY <1>7, <1>8, <1>9
<1>12. /\ ~BtFree(g, b) /\ ~BtFree(g, mid)
       /\ BtNext(g, b) = mid /\ BtNext(g, mid) = hi
  <2>1. ~BtFree(g, b) /\ ~BtFree(g, mid)
    BY <1>5, <1>10 DEF BtFree, tag1, tag2
  <2>2. g.hdr[b].size = reqsz /\ g.hdr[mid].size = rest
    BY <1>10 DEF tag1, tag2
  <2>3. b + reqsz = mid /\ mid + rest = hi
    BY <1>7
  <2>4. QED
    BY <2>1, <2>2, <2>3 DEF BtNext, BtSize
<1>13. \A u \in b..(hi - 1) : /\ h.prev[u] = DATAPTR /\ h.next[u] = DATAPTR
                              /\ u > b => h.hdr[u] = DATA /\ h.foot[u - 1] = DATA
  BY <1>4 DEF Untouched, hi
<1>14. Untouched(g, b)
  <2>1. ASSUME NEW u \in b..(mid - 1)
        PROVE  /\ g.prev[u] = DATAPTR /\ g.next[u] = DATAPTR
               /\ u > b => g.hdr[u] = DATA /\ g.foot[u - 1] = DATA
    <3>1. u \in b..(hi - 1)
      BY <1>7
    <3>2. u > b => /\ u \in 0..n /\ u # b /\ u # mid
                   /\ u - 1 \in 0..(n - 1) /\ u - 1 # mid - 1 /\ u - 1 # hi - 1
      BY <1>7
    <3>3. QED
      BY <1>9, <1>10, <1>11, <1>13, <3>1, <3>2
  <2>2. QED
    BY <1>12, <2>1 DEF Untouched
<1>15. Untouched(g, mid)
  <2>1. ASSUME NEW u \in mid..(hi - 1)
        PROVE  /\ g.prev[u] = DATAPTR /\ g.next[u] = DATAPTR
               /\ u > mid => g.hdr[u] = DATA /\ g.foot[u - 1] = DATA
    <3>1. u \in b..(hi - 1) /\ u > b
      BY <1>7
    <3>2. u > mid => /\ u \in 0..n /\ u # b /\ u # mid
                     /\ u - 1 \in 0..(n - 1) /\ u - 1 # mid - 1 /\ u - 1 # hi - 1
      BY <1>7
    <3>3. QED
      BY <1>9, <1>10, <1>11, <1>13, <3>1, <3>2
  <2>2. QED
    BY <1>12, <2>1 DEF Untouched
<1>16. ASSUME NEW c \in S PROVE c <= b \/ c >= hi
  <2>1. c \in 0..(n - 1) /\ (b < c => hi <= c)
    BY <1>1 DEF Cut, hi
  <2>2. QED
    BY <1>7, <2>1
<1>17. Recut(h, g, n, S, b, mid, hi)
  <2>1. ASSUME NEW c \in S, c < b \/ c >= hi PROVE g.hdr[c].size = h.hdr[c].size
    <3>1. c \in 0..(n - 1)
      BY <1>1
    <3>2. c \in 0..n /\ c # b /\ c # mid
      BY <1>7, <2>1, <3>1
    <3>3. QED
      BY <1>10, <3>2
  <2>2. mid \in b..hi /\ b # mid
    BY <1>7
  <2>3. g.hdr[b].size = mid - b /\ g.hdr[mid].size = hi - mid
    BY <1>7, <1>10 DEF tag1, tag2
  <2>4. QED
    BY <1>2, <2>1, <2>2, <2>3 DEF Recut
<1>18. Edited(h, g, n, S, b, hi)
  <2>1. ASSUME NEW u \in 0..(n - 1), u < b \/ u >= hi PROVE g.foot[u] = h.foot[u]
    <3>1. u # mid - 1 /\ u # hi - 1
      BY <1>7, <2>1
    <3>2. QED
      BY <1>11, <3>1
  <2>2. ASSUME NEW u \in 0..(n - 1), u < b \/ u > hi PROVE g.hdr[u] = h.hdr[u]
    <3>1. u \in 0..n /\ u # b /\ u # mid
      BY <1>7, <2>2
    <3>2. QED
      BY <1>10, <3>1
  <2>3. QED
    BY <1>9, <1>10, <2>1, <2>2 DEF Edited
<1>19. Edit(h, g, n, S, b, mid, hi)
  <2>1. FirstFits(h, g, n, S, b, mid, hi)
    <3>1. g.hdr[b].flags = flags1
      BY <1>10 DEF tag1
    <3>2. QED
      BY <1>5, <1>11, <1>12, <1>14, <3>1 DEF FirstFits
  <2>2. SecondFits(g, n, b, mid, hi)
    <3>1. g.hdr[mid].flags = flags2
      BY <1>10 DEF tag2
    <3>2. QED
      BY <1>5, <1>11, <1>12, <1>15, <3>1 DEF SecondFits
  <2>3. NextFits(h, g, S, b, mid, hi)
    <3>1. Last(b, mid, hi) = mid
      BY <1>7 DEF Last
    <3>2. ASSUME hi \in S, ~BtFree(h, hi) PROVE "PREVFREE" \notin g.hdr[hi].flags
      <4>1. ~FreePred(h, S, hi)
        <5>1. ASSUME NEW p \in S, BtNext(h, p) = hi, BtFree(h, p) PROVE FALSE
          <6>1. BtNext(h, b) = hi
            BY DEF hi
          <6>2. p = b
            BY <1>1, <5>1, <6>1, PredUnique
          <6>3. QED
            BY <5>1, <6>2
        <5>2. QED
          BY <5>1 DEF FreePred
      <4>2. "PREVFREE" \in h.hdr[hi].flags <=> FreePred(h, S, hi)
        BY <1>1, <3>2 DEF Fits
      <4>3. QED
        BY <1>10, <4>1, <4>2
    <3>3. QED
      BY <1>12, <3>1, <3>2 DEF NextFits
  <2>4. QED
    BY <1>17, <1>18, <2>1, <2>2, <2>3 DEF Edit
<1>20. /\ FreeOf(g, R) = {c \in FreeOf(h, S) : c < b \/ c >= hi}
                            \cup {c \in {c \in {b, mid} : c < hi} : BtFree(g, c)}
       /\ UsedOf(g, R) = {c \in UsedOf(h, S) : c < b \/ c >= hi}
                            \cup {c \in {c \in {b, mid} : c < hi} : ~BtFree(g, c)}
  BY <1>1, <1>9, <1>17, <1>18, RecutFree DEF R
<1>21. ASSUME NEW c \in S, c # b PROVE c < b \/ c >= hi
  <2>1. c \in 0..(n - 1) /\ (c <= b \/ c >= hi)
    BY <1>1, <1>16
  <2>2. QED
    BY <1>7, <1>21, <2>1
<1>22. b < hi /\ ~(b < b) /\ ~(b >= hi) /\ ~(mid < b) /\ ~(mid >= hi)
  BY <1>7
<1>23. FreeOf(g, R) = F
  <2>1. ASSUME NEW c \in FreeOf(g, R) PROVE c \in F
    BY <1>12, <1>20 DEF F
  <2>2. ASSUME NEW c \in F PROVE c \in FreeOf(g, R)
    <3>1. c \in S /\ c # b
      BY DEF F, FreeOf
    <3>2. c < b \/ c >= hi
      BY <1>21, <3>1
    <3>3. QED
      BY <1>20, <3>2 DEF F
  <2>3. QED
    BY <2>1, <2>2
<1>24. UsedOf(g, R) = UsedOf(h, S) \cup {mid}
  <2>1. ASSUME NEW c \in UsedOf(g, R) PROVE c \in UsedOf(h, S) \cup {mid}
    <3>1. b \in UsedOf(h, S)
      BY DEF UsedOf
    <3>2. QED
      BY <1>20, <3>1
  <2>2. ASSUME NEW c \in UsedOf(h, S) PROVE c \in UsedOf(g, R)
    <3>1. c \in S
      BY DEF UsedOf
    <3>2. CASE c = b
      BY <1>12, <1>20, <1>22, <3>2
    <3>3. CASE c # b
      BY <1>20, <1>21, <3>1, <3>3
    <3>4. QED
      BY <3>2, <3>3
  <2>3. mid \in UsedOf(g, R)
    BY <1>7, <1>12, <1>20
  <2>4. QED
    BY <2>1, <2>2, <2>3
<1>25. g.totalFree = Sums(Offers(g, n, R), n)[n]
  <2>1. b \in b..(hi - 1)
    BY <1>7
  <2>2. ASSUME NEW u \in b..(hi - 1) PROVE u \notin FreeOf(h, S) /\ u \notin FreeOf(g, R)
    <3>1. u \notin FreeOf(h, S)
      <4>1. u \in S => u = b
        BY <1>7, <1>21
      <4>2. QED
        BY <4>1 DEF FreeOf
    <3>2. QED
      BY <1>23, <3>1 DEF F
  <2>3. Sums(Offers(g, n, R), n)[n] =
          Sums(Offers(h, n, S), n)[n] + (Offer(g, R, b) - Offer(h, S, b))
            + IF b = b THEN 0 ELSE Offer(g, R, b) - Offer(h, S, b)
    BY <1>1, <1>9, <1>17, <1>18, <2>1, <2>2, RecutTotal DEF R
  <2>4. Offer(g, R, b) = 0 /\ Offer(h, S, b) = 0
    BY <2>1, <2>2 DEF Offer
  <2>5. QED
    BY <1>1, <1>9, <2>3, <2>4
<1>26. Good(g, n, R)
  <2>1. Listed(g, n, FreeOf(g, R))
    <3>1. Listed(g, n, F)
      <4> HIDE DEF F
      <4>1. QED
        BY <1>1, <1>9, SameList
    <3>2. QED
      BY <1>23, <3>1
  <2>2. QED
    BY <1>9, <1>19, <1>25, <2>1, GoodEdit DEF R
<1>27. mid \notin S
  BY <1>7, <1>16
<1>28. b + reqsz \in 0..(n - 1) /\ b + reqsz \notin S
  BY <1>7, <1>27
<1>29. UsedOf(g, R) = UsedOf(h, S) \cup {b + reqsz}
  BY <1>7, <1>24
<1>30. QED
  BY <1>6, <1>9, <1>26, <1>28, <1>29 DEF R

-----------------------------------------------------------------------------
(* What holds of good arenas.                                               *)
LEMMA TotalBound ==
  ASSUME NEW n \in Nat, NEW h, NEW S, Good(h, n, S)
  PROVE  h.totalFree \in 0..(ALIGNMENT * n - USEDBLK_SZ)
<1> DEFINE w == Offers(h, n, S)
           s == Sums(w, n)
           Q(k) == \A p \in S : p < k /\ k <= BtNext(h, p) =>
                                  0 <= s[k] /\ s[k] <= 16 * BtNext(h, p) - 8
           T == {k \in Nat : k <= n => Q(k)}
<1>1. /\ h \in Words(n) /\ Cut(h, n, S) /\ S \in SUBSET (0..(n - 1))
      /\ h.totalFree = s[n]
  BY GoodType
<1>2. /\ 0 \in S /\ n > 0
      /\ \A b \in S : b \in 0..(n - 1) /\ BtNext(h, b) \in (b + 1)..n /\ BtSize(h, b) = BtNext(h, b) - b
  <2>1. \A b \in S : BtNext(h, b) = b + BtSize(h, b) /\ BtSize(h, b) \in 1..n /\ b \in 0..(n - 1)
    BY <1>1, CutType
  <2>2. QED
    BY <1>1, <2>1, CutType
<1>3. w \in [0..(n - 1) -> Int]
  BY <1>1, OffersType
<1>4. s \in [0..n -> Int] /\ s[0] = 0 /\ \A k \in 1..n : s[k] = s[k - 1] + w[k - 1]
  <2> HIDE DEF w
  <2>1. QED
    BY <1>3, SumsExist
<1>5. \A u \in 0..(n - 1) : w[u] = IF u \in FreeOf(h, S) THEN 16 * BtSize(h, u) - 8 ELSE 0
  BY DEF Offers, Offer, ALIGNMENT, USEDBLK_SZ
<1>6. \A u \in FreeOf(h, S) : u \in S
  BY DEF FreeOf
<1> HIDE DEF w, s
<1>7. 0 \in T
  <2>1. \A p \in S : ~(p < 0)
    BY <1>2
  <2>2. QED
    BY <2>1
<1>8. ASSUME NEW k \in T PROVE k + 1 \in T
  <2>1. k \in Nat /\ k + 1 \in Nat /\ (k + 1) - 1 = k
    OBVIOUS
  <2>2. SUFFICES ASSUME k + 1 <= n PROVE Q(k + 1)
    BY <2>1
  <2>3. Q(k) /\ k \in 0..(n - 1) /\ k + 1 \in 1..n /\ k \in 0..n
    BY <2>1, <2>2
  <2>4. SUFFICES ASSUME NEW p \in S, p < k + 1, k + 1 <= BtNext(h, p),
                        NEW end, end = BtNext(h, p)
                 PROVE  0 <= s[k + 1] /\ s[k + 1] <= 16 * end - 8
    OBVIOUS
  <2>5. p \in 0..(n - 1) /\ end \in (p + 1)..n /\ BtSize(h, p) = end - p
    BY <1>2, <2>4
  <2>6. s[k + 1] = s[k] + w[k] /\ s[k] \in Int /\ s[0] = 0
    BY <1>4, <2>1, <2>3
  <2>7. k + 1 <= end /\ p < k + 1
    BY <2>4
  <2>8. CASE p = k
    <3>1. w[k] = 0 \/ w[k] = 16 * (end - k) - 8
      BY <1>5, <2>3, <2>5, <2>8
    <3>2. CASE k = 0
      <4>1. QED
        BY <2>5, <2>6, <2>7, <3>1, <3>2
    <3>3. CASE k # 0
      <4>1. PICK q \in S : BtNext(h, q) = k
        <5>1. k \in S \cup {n}
          BY <2>8
        <5> HIDE DEF T, Q
        <5>2. QED
          BY <1>1, <3>3, <5>1, Pred
      <4>2. q < k /\ k <= BtNext(h, q)
        BY <1>2, <2>1, <4>1
      <4>3. 0 <= s[k] /\ s[k] <= 16 * k - 8
        BY <2>3, <4>1, <4>2
      <4>4. QED
        BY <2>1, <2>5, <2>6, <2>7, <3>1, <4>3
    <3>4. QED
      BY <3>2, <3>3
  <2>9. CASE p # k
    <3>1. p < k /\ k < end
      <4>1. QED
        BY <2>1, <2>5, <2>7, <2>9
    <3>2. k \notin S
      <4>1. ASSUME k \in S PROVE FALSE
        <5>1. end <= k
          BY <1>1, <2>4, <3>1, <4>1 DEF Cut
        <5>2. QED
          BY <2>1, <2>5, <3>1, <5>1
      <4>2. QED
        BY <4>1
    <3>3. w[k] = 0
      BY <1>5, <1>6, <2>3, <3>2
    <3>4. k <= end
      <4>1. QED
        BY <2>1, <2>5, <3>1
    <3>5. 0 <= s[k] /\ s[k] <= 16 * end - 8
      BY <2>3, <2>4, <3>1, <3>4
    <3>6. QED
      BY <2>6, <3>3, <3>5
  <2>10. QED
    BY <2>8, <2>9
<1>9. T = Nat
  <2> HIDE DEF T
  <2>1. T \in SUBSET Nat
    BY DEF T
  <2>2. QED
    BY <1>7, <1>8, <2>1, NatInduct
<1>10. Q(n)
  <2>1. n \in T
    BY <1>9
  <2> HIDE DEF Q
  <2>2. QED
    BY <2>1
<1>11. PICK p \in S : BtNext(h, p) = n
  <2>1. n \in S \cup {n} /\ n # 0
    BY <1>2
  <2>2. QED
    BY <1>1, <2>1, Pred
<1>12. p < n /\ n <= BtNext(h, p)
  BY <1>2, <1>11
<1>13. 0 <= s[n] /\ s[n] <= 16 * n - 8
  BY <1>10, <1>11, <1>12
<1>14. s[n] \in Int
  BY <1>4
<1>15. QED
  BY <1>1, <1>13, <1>14 DEF ALIGNMENT, USEDBLK_SZ

(* A client that writes to its block again changes nothing.                 *)
LEMMA FillSame ==
  ASSUME NEW n \in Nat, NEW h, NEW S, Good(h, n, S), NEW b \in S, ~BtFree(h, b)
  PROVE  /\ BtNext(h, b) \in (b + 1)..n /\ BtHasCanary(h, b)
         /\ Fill(h, b) = h
<1> DEFINE g == Fill(h, b)
           end == BtNext(h, b)
<1>1. h \in Words(n) /\ Cut(h, n, S) /\ Fits(h, n, S, b)
  BY GoodType
<1>2. b \in 0..(n - 1) /\ end \in (b + 1)..n
  BY <1>1, CutType
<1>3. BtHasCanary(h, b) /\ Untouched(h, b)
  BY <1>1 DEF Fits
<1>4. /\ g \in Words(n) /\ g.totalFree = h.totalFree /\ g.wild = h.wild
      /\ \A u \in 0..n : g.hdr[u] = IF b < u /\ u < end THEN DATA ELSE h.hdr[u]
      /\ \A u \in 0..(n - 1) : g.foot[u] = IF b <= u /\ u < end - 1 THEN DATA ELSE h.foot[u]
      /\ \A u \in -1..n : /\ g.prev[u] = IF b <= u /\ u < end THEN DATAPTR ELSE h.prev[u]
                          /\ g.next[u] = IF b <= u /\ u < end THEN DATAPTR ELSE h.next[u]
  BY <1>1, <1>2, FillIs
<1>5. \A u \in b..(end - 1) : /\ h.prev[u] = DATAPTR /\ h.next[u] = DATAPTR
                              /\ u > b => h.hdr[u] = DATA /\ h.foot[u - 1] = DATA
  BY <1>3 DEF Untouched
<1> HIDE DEF g, end
<1>6. \A u \in 0..n : g.hdr[u] = h.hdr[u]
  <2>1. ASSUME NEW u \in 0..n, b < u /\ u < end PROVE h.hdr[u] = DATA
    <3>1. u \in b..(end - 1) /\ u > b
      BY <1>2, <2>1
    <3>2. QED
      BY <1>5, <3>1
  <2>2. QED
    BY <1>4, <2>1
<1>7. \A u \in 0..(n - 1) : g.foot[u] = h.foot[u]
  <2>1. ASSUME NEW u \in 0..(n - 1), b <= u /\ u < end - 1 PROVE h.foot[u] = DATA
    <3>1. u + 1 \in b..(end - 1) /\ u + 1 > b /\ (u + 1) - 1 = u
      BY <1>2, <2>1
    <3>2. h.foot[(u + 1) - 1] = DATA
      BY <1>5, <3>1
    <3>3. QED
      BY <3>1, <3>2
  <2>2. QED
    BY <1>4, <2>1
<1>8. \A u \in -1..n : g.prev[u] = h.prev[u] /\ g.next[u] = h.next[u]
  <2>1. ASSUME NEW u \in -1..n, b <= u /\ u < end PROVE h.prev[u] = DATAPTR /\ h.next[u] = DATAPTR
    <3>1. u \in b..(end - 1)
      BY <1>2, <2>1
    <3>2. QED
      BY <1>5, <3>1
  <2>2. QED
    BY <1>4, <2>1
<1> DEFINE tags == [size : Int, flags : SUBSET Flags]
           words == [hdr : [0..n -> tags], foot : [0..(n - 1) -> tags],
                     prev : [-1..n -> -2..n], next : [-1..n -> -2..n],
                     totalFree : Int, wild : BOOLEAN]
<1>9. g \in words /\ h \in words
  BY <1>1, <1>4 DEF Words
<1> HIDE DEF tags
<1>10. g.hdr = h.hdr
  <2>1. g.hdr \in [0..n -> tags] /\ h.hdr \in [0..n -> tags]
    BY <1>9
  <2>2. QED
    BY <1>6, <2>1
<1>11. g.foot = h.foot
  <2>1. g.foot \in [0..(n - 1) -> tags] /\ h.foot \in [0..(n - 1) -> tags]
    BY <1>9
  <2>2. QED
    BY <1>7, <2>1
<1>12. g.prev = h.prev /\ g.next = h.next
  <2>1. /\ g.prev \in [-1..n -> -2..n] /\ h.prev \in [-1..n -> -2..n]
        /\ g.next \in [-1..n -> -2..n] /\ h.next \in [-1..n -> -2..n]
    BY <1>9
  <2>2. QED
    BY <1>8, <2>1, SMTT(20)
<1>13. g = h
  <2> DEFINE fields(r) == [hdr |-> r.hdr, foot |-> r.foot, prev |-> r.prev, next |-> r.next,
                           totalFree |-> r.totalFree, wild |-> r.wild]
  <2>1. \A r \in words : r = fields(r)
    OBVIOUS
  <2>2. fields(g) = fields(h)
    BY <1>4, <1>10, <1>11, <1>12
  <2> HIDE DEF fields, words
  <2>3. QED
    BY <1>9, <2>1, <2>2
<1>14. QED
  BY <1>2, <1>3, <1>13 DEF g, end

(* The assertions of ArenaCheck.                                            *)
LEMMA GoodTags ==
  ASSUME NEW n \in Nat, NEW h, NEW S, Good(h, n, S)
  PROVE  TagsMatch(h)
<1>1. h \in Words(n) /\ Cut(h, n, S) /\ \A c \in S : Fits(h, n, S, c)
  BY GoodType
<1>2. Walk(h)[n] = n /\ Blocks(h) = S
  BY <1>1, BlocksAre
<1>3. DOMAIN h.foot = 0..(n - 1) /\ Cardinality(DOMAIN h.foot) = n
  BY <1>1, WordsType
<1>4. ASSUME NEW b \in S
      PROVE  /\ BtFree(h, b) => /\ h.foot[BtNext(h, b) - 1] = h.hdr[b]
                                /\ BtNext(h, b) \in DOMAIN h.foot => ~BtFree(h, BtNext(h, b))
             /\ ~BtFree(h, b) =>
                  /\ BtHasCanary(h, b)
                  /\ BtHas(h, b, "PREVFREE") # {} <=>
                       \E prev \in S : BtNext(h, prev) = b /\ BtFree(h, prev)
  <2>1. Fits(h, n, S, b)
    BY <1>1
  <2>2. BtNext(h, b) \in S \cup {n}
    BY <1>1 DEF Cut
  <2>3. BtNext(h, b) \in DOMAIN h.foot => BtNext(h, b) \in S
    BY <1>3, <2>2
  <2>4. BtFree(h, b) => /\ h.foot[BtNext(h, b) - 1] = h.hdr[b]
                        /\ BtNext(h, b) \in DOMAIN h.foot => ~BtFree(h, BtNext(h, b))
    BY <2>1, <2>3 DEF Fits
  <2>5. BtHas(h, b, "PREVFREE") # {} <=> "PREVFREE" \in h.hdr[b].flags
    BY DEF BtHas
  <2>6. ~BtFree(h, b) =>
          /\ BtHasCanary(h, b)
          /\ BtHas(h, b, "PREVFREE") # {} <=>
               \E prev \in S : BtNext(h, prev) = b /\ BtFree(h, prev)
    BY <2>1, <2>5 DEF Fits, FreePred
  <2>7. QED
    BY <2>4, <2>6
<1>5. QED
  BY <1>2, <1>3, <1>4 DEF TagsMatch

LEMMA GoodList ==
  ASSUME NEW n \in Nat, NEW h, NEW S, Good(h, n, S)
  PROVE  FreeMatches(h)
<1> DEFINE at == FreeList(h)
           F == FreeOf(h, S)
<1>1. /\ h \in Words(n) /\ Cut(h, n, S) /\ Listed(h, n, F)
      /\ h.totalFree = Sums(Offers(h, n, S), n)[n]
      /\ F \in SUBSET (0..(n - 1))
  BY GoodType
<1>2. Blocks(h) = S /\ n > 0
  BY <1>1, BlocksAre, CutType
<1>3. Cardinality(DOMAIN h.foot) = n
  BY <1>1, WordsType
<1>4. {b \in Blocks(h) : BtFree(h, b)} = F
  BY <1>2 DEF FreeOf
<1>5. h.totalFree = FreeMem(h)[Cardinality(DOMAIN h.foot)]
  BY <1>1, <1>2, <1>3, FreeMemIs
<1>6. HEAD \notin F
  BY <1>1 DEF HEAD
<1> HIDE DEF F
<1>7. /\ at \in [0..(n - 1) -> F \cup {HEAD}]
      /\ \A j, k \in 0..(n - 1) : at[j] = at[k] => j = k \/ at[j] = HEAD
      /\ \A b \in F : \E k \in 0..(n - 1) : at[k] = b
  BY <1>1, <1>2, ListWalk
<1> HIDE DEF at
<1>8. DOMAIN at = 0..(n - 1)
  BY <1>7
<1>9. {at[k] : k \in DOMAIN at} \ {HEAD} = F
  BY <1>6, <1>7, <1>8
<1>10. \A j, k \in DOMAIN at : at[j] = at[k] => j = k \/ at[j] = HEAD
  BY <1>7, <1>8
<1>11. QED
  BY <1>4, <1>5, <1>9, <1>10 DEF FreeMatches, at

LEMMA SumOfOne ==
  ASSUME NEW n \in Nat, n > 0, NEW w \in [0..(n - 1) -> Int],
         \A u \in 0..(n - 1) : u # 0 => w[u] = 0
  PROVE  Sums(w, n)[n] = w[0]
<1> DEFINE s == Sums(w, n)
           T == {k \in Nat : k <= n => s[k] = IF k = 0 THEN 0 ELSE w[0]}
<1>1. s \in [0..n -> Int] /\ s[0] = 0 /\ \A k \in 1..n : s[k] = s[k - 1] + w[k - 1]
  BY SumsExist
<1> HIDE DEF s
<1>2. 0 \in T
  BY <1>1
<1>3. ASSUME NEW k \in T PROVE k + 1 \in T
  <2>1. SUFFICES ASSUME k + 1 <= n PROVE s[k + 1] = w[0]
    OBVIOUS
  <2>2. k \in 0..(n - 1) /\ k + 1 \in 1..n /\ (k + 1) - 1 = k
    BY <2>1
  <2>3. s[k + 1] = s[k] + w[k] /\ s[k] = IF k = 0 THEN 0 ELSE w[0]
    BY <1>1, <2>2
  <2>4. w[0] \in Int /\ (k # 0 => w[k] = 0)
    BY <2>2
  <2> HIDE DEF T
  <2>5. QED
    BY <2>2, <2>3, <2>4
<1>4. T = Nat
  <2> HIDE DEF T
  <2>1. T \in SUBSET Nat
    BY DEF T
  <2>2. QED
    BY <1>2, <1>3, <2>1, NatInduct
<1>5. n \in T
  BY <1>4
<1>6. QED
  BY <1>5 DEF s

(* A new arena is one free block.                                           *)
LEMMA AddGood ==
  ASSUME NEW ar, NEW n \in Nat, n = Units(ar), n > 0,
         NEW end \in [size : Int, flags : SUBSET Flags]
  PROVE  LET g == AddMemory(ar, end)
         IN  Good(g, n, {0}) /\ UsedOf(g, {0}) = {} /\ g.wild = FALSE
<1> DEFINE words == [hdr |-> [u \in 0..n |-> IF u = n THEN end ELSE DATA],
                     foot |-> [u \in 0..(n - 1) |-> DATA],
                     prev |-> [u \in -1..n |-> IF u = HEAD THEN HEAD ELSE DATAPTR],
                     next |-> [u \in -1..n |-> IF u = HEAD THEN HEAD ELSE DATAPTR],
                     totalFree |-> ALIGNMENT * n - USEDBLK_SZ,
                     wild |-> FALSE]
           tag == [size |-> n, flags |-> {"ISLAST"}]
           x == BtMake(words, 0, n, {"ISLAST"})
           g == ArenaFreeInsert(x, 0)
<1>1. AddMemory(ar, end) = g
  BY DEF AddMemory
<1>2. words \in Words(n)
  <2>1. DATA \in [size : Int, flags : SUBSET Flags]
    BY DEF DATA
  <2>2. [u \in 0..n |-> IF u = n THEN end ELSE DATA] \in [0..n -> [size : Int, flags : SUBSET Flags]]
    BY <2>1
  <2>3. [u \in 0..(n - 1) |-> DATA] \in [0..(n - 1) -> [size : Int, flags : SUBSET Flags]]
    BY <2>1
  <2>4. [u \in -1..n |-> IF u = HEAD THEN HEAD ELSE DATAPTR] \in [-1..n -> -2..n]
    BY DEF HEAD, DATAPTR
  <2>5. ALIGNMENT * n - USEDBLK_SZ \in Int
    BY DEF ALIGNMENT, USEDBLK_SZ
  <2>6. QED
    BY <2>2, <2>3, <2>4, <2>5 DEF Words
<1>3. words.next[HEAD] = HEAD /\ words.prev[HEAD] = HEAD
  <2>1. HEAD \in -1..n
    BY DEF HEAD
  <2>2. QED
    BY <2>1
<1>4. words.totalFree = 16 * n - 8 /\ words.wild = FALSE
  BY DEF ALIGNMENT, USEDBLK_SZ
<1> HIDE DEF words
<1>5. Listed(words, n, {})
  <2>1. [u \in 0..(n - 1) |-> 0] \in [0..(n - 1) -> Nat]
    OBVIOUS
  <2>2. \A pos : Linked(words, {}, pos)
    BY <1>3 DEF Linked
  <2>3. QED
    BY <2>1, <2>2 DEF Listed
<1>6. /\ x \in Words(n) /\ x.prev = words.prev /\ x.next = words.next
      /\ x.totalFree = 16 * n - 8 /\ x.wild = FALSE
      /\ x.hdr[0] = tag /\ x.foot[n - 1] = tag
  <2> DEFINE flags == {"ISLAST"}
  <2>1. flags \in SUBSET Flags /\ "USED" \notin flags
    BY DEF Flags
  <2> HIDE DEF flags
  <2>2. Made(BtMake(words, 0, n, flags), words, n, 0, n, flags)
    <3>1. 0 \in 0..(n - 1) /\ 0 + n <= n
      OBVIOUS
    <3>2. QED
      BY <1>2, <2>1, <3>1, MakeIs
  <2>3. x = BtMake(words, 0, n, flags) /\ tag = [size |-> n, flags |-> flags]
    BY DEF flags
  <2> HIDE DEF x, tag
  <2>4. 0 \in 0..n /\ n - 1 \in 0..(n - 1) /\ n - 1 = 0 + n - 1
    OBVIOUS
  <2>5. QED
    BY <1>4, <2>1, <2>2, <2>3, <2>4 DEF Made
<1> HIDE DEF x
<1>7. /\ g \in Words(n) /\ g.hdr = x.hdr /\ g.foot = x.foot
      /\ g.totalFree = 16 * n - 8 /\ g.wild = FALSE /\ Listed(g, n, {0})
  <2> DEFINE F == {}
  <2>1. 0 \in 0..(n - 1) /\ F \in SUBSET (0..(n - 1)) /\ 0 \notin F /\ F \cup {0} = {0}
    OBVIOUS
  <2>2. Listed(x, n, F)
    BY <1>2, <1>5, <1>6, SameList
  <2> HIDE DEF F
  <2>3. Inserted(ArenaFreeInsert(x, 0), x, n, F, 0)
    BY <1>6, <2>1, <2>2, InsertKeeps
  <2> HIDE DEF g
  <2>4. QED
    BY <1>6, <2>1, <2>3 DEF g, Inserted
<1> HIDE DEF g
<1>8. BtFree(g, 0) /\ BtSize(g, 0) = n /\ BtNext(g, 0) = n
  <2>1. BtFree(g, 0) /\ BtSize(g, 0) = n
    BY <1>6, <1>7 DEF BtFree, BtSize
  <2>2. BtNext(g, 0) = 0 + n
    BY <2>1 DEF BtNext
  <2>3. QED
    BY <2>1, <2>2
<1> DEFINE S == {0}
<1>9. FreeOf(g, S) = {0} /\ UsedOf(g, S) = {}
  BY <1>8 DEF FreeOf, UsedOf
<1>10. Cut(g, n, S)
  <2>1. S \subseteq 0..(n - 1)
    OBVIOUS
  <2>2. \A b, c \in S : b < c => BtNext(g, b) <= c
    OBVIOUS
  <2>3. QED
    BY <1>8, <2>1, <2>2 DEF Cut
<1>11. ASSUME NEW b \in S PROVE Fits(g, n, S, b)
  <2>1. b = 0 /\ n \notin S
    OBVIOUS
  <2> HIDE DEF S
  <2>2. QED
    BY <1>6, <1>7, <1>8, <2>1 DEF Fits
<1>12. g.totalFree = Sums(Offers(g, n, S), n)[n]
  <2> DEFINE w == Offers(g, n, S)
  <2>1. w \in [0..(n - 1) -> Int]
    <3>1. S \in SUBSET (0..(n - 1))
      OBVIOUS
    <3> HIDE DEF S
    <3>2. QED
      BY <1>7, <3>1, OffersType
  <2>2. 0 \in 0..(n - 1)
    OBVIOUS
  <2>3. w[0] = 16 * n - 8 /\ \A u \in 0..(n - 1) : u # 0 => w[u] = 0
    <3> HIDE DEF S
    <3>1. QED
      BY <1>8, <1>9, <2>2 DEF Offers, Offer, ALIGNMENT, USEDBLK_SZ
  <2> HIDE DEF w
  <2>4. Sums(w, n)[n] = w[0]
    BY <2>1, <2>3, SumOfOne
  <2>5. QED
    BY <1>7, <2>3, <2>4 DEF w
<1>13. Good(g, n, S)
  <2> HIDE DEF S
  <2>1. QED
    BY <1>7, <1>9, <1>10, <1>11, <1>12 DEF Good
<1>14. QED
  BY <1>1, <1>7, <1>9, <1>13

-----------------------------------------------------------------------------
(* The state: arenas, and who has which block.                              *)
InCall(j) == {j.bt, j.old} \ {NULL}

Owned(blocks, jobs) == blocks \cup UNION {InCall(jobs[t]) : t \in Tasks}

InUse(h) == UsedOf(h, Blocks(h))

GoodArena(h, n) == h.wild \/ Good(h, n, Blocks(h))

(* The used blocks of an arena are those of P that lie in it.               *)
Holds(h, ar, P) == h.wild \/ InUse(h) = {p.bt : p \in {q \in P : q.ar = ar}}

(* A call has what its step needs, ...                                      *)
JobFits(j) ==
  /\ j.do = "none" => j = Idle
  /\ j.do = "alloc" => j.bt = NULL /\ j.i > 0 /\ j.size \in Sizes
  /\ j.do = "free" => j.bt # NULL /\ j.bt # j.old

(* ... and no other call and no client has its blocks.                      *)
Apart(blocks, jobs) ==
  /\ \A t \in Tasks : JobFits(jobs[t]) /\ InCall(jobs[t]) \cap blocks = {}
  /\ \A t, u \in Tasks : t # u => InCall(jobs[t]) \cap InCall(jobs[u]) = {}

IInv ==
  /\ TypeOK
  /\ \A ar \in DOMAIN Arenas : /\ GoodArena(heap[ar], Units(ar))
                               /\ Holds(heap[ar], ar, Owned(live, job))
  /\ Apart(live, job)

LEMMA LayoutType ==
  ASSUME Arenas \in Layouts
  PROVE  /\ Len(Arenas) \in Nat /\ DOMAIN Arenas = 1..Len(Arenas)
         /\ \A ar \in DOMAIN Arenas : /\ Units(ar) \in Nat /\ Units(ar) >= 2
                                      /\ Arenas[ar].attributes \in SUBSET MemoryFlags
<1> DEFINE Region == [units : Nat, attributes : SUBSET MemoryFlags]
<1>1. Arenas \in Seq(Region)
  BY LayoutsAssumption
<1>2. \A ar \in DOMAIN Arenas : Arenas[ar].units >= 2
  BY LayoutsAssumption
<1>3. Len(Arenas) \in Nat /\ DOMAIN Arenas = 1..Len(Arenas)
  BY <1>1
<1>4. \A ar \in DOMAIN Arenas : Arenas[ar] \in Region
  <2> HIDE DEF Region
  <2>1. QED
    BY <1>1, <1>3
<1>5. QED
  BY <1>2, <1>3, <1>4 DEF Units

LEMMA BlockType ==
  ASSUME Arenas \in Layouts, NEW p \in Block
  PROVE  /\ p.ar \in DOMAIN Arenas /\ p.bt \in 0..(Units(p.ar) - 1)
         /\ p = [ar |-> p.ar, bt |-> p.bt] /\ p # NULL
<1>1. PICK ar \in DOMAIN Arenas : p \in [ar : {ar}, bt : 0..(Units(ar) - 1)]
  BY DEF Block
<1>2. ar \in Int /\ Units(ar) \in Nat
  BY LayoutType
<1>3. p \in [ar : Int, bt : Int]
  BY <1>1, <1>2
<1>4. QED
  BY <1>1, <1>3, NullAssumption

LEMMA MakesBlock ==
  ASSUME Arenas \in Layouts, NEW ar \in DOMAIN Arenas, NEW bt \in 0..(Units(ar) - 1)
  PROVE  [ar |-> ar, bt |-> bt] \in Block
BY DEF Block

LEMMA BlockSizeIs ==
  ASSUME NEW size \in Nat \ {0}
  PROVE  BlockSize(size) \in Nat /\ BlockSize(size) > 0
<1>1. BlockSize(size) = (size + 23) \div 16
  BY DEF BlockSize, ALIGNMENT, USEDBLK_SZ
<1>2. QED
  BY <1>1

LEMMA GoodBlocks ==
  ASSUME NEW n \in Nat, NEW h, NEW S, Good(h, n, S)
  PROVE  Blocks(h) = S /\ GoodArena(h, n) /\ InUse(h) = UsedOf(h, S)
<1>1. h \in Words(n) /\ Cut(h, n, S)
  BY GoodType
<1>2. Blocks(h) = S
  BY <1>1, BlocksAre
<1>3. QED
  BY <1>2 DEF GoodArena, InUse

LEMMA UsedIs ==
  ASSUME NEW h, NEW n, GoodArena(h, n), ~h.wild, NEW b \in InUse(h)
  PROVE  Good(h, n, Blocks(h)) /\ b \in Blocks(h) /\ ~BtFree(h, b)
BY DEF GoodArena, InUse, UsedOf

(* The block of an owner is a used one.                                     *)
LEMMA OwnedUsed ==
  ASSUME Arenas \in Layouts, NEW P \in SUBSET Block, NEW p \in P, NEW h,
         Holds(h, p.ar, P), ~h.wild
  PROVE  p.bt \in InUse(h)
BY DEF Holds

LEMMA OthersHold ==
  ASSUME NEW h, NEW ar, NEW P, NEW Q, \A q : q.ar = ar => (q \in P <=> q \in Q), Holds(h, ar, P)
  PROVE  Holds(h, ar, Q)
<1>1. {q \in P : q.ar = ar} = {q \in Q : q.ar = ar}
  OBVIOUS
<1>2. QED
  BY <1>1 DEF Holds

LEMMA AddHolds ==
  ASSUME NEW h, NEW g, NEW ar, NEW P, NEW p, p.ar = ar,
         Holds(h, ar, P), ~h.wild, InUse(g) = InUse(h) \cup {p.bt}
  PROVE  Holds(g, ar, P \cup {p})
BY DEF Holds

LEMMA DropHolds ==
  ASSUME Arenas \in Layouts, NEW h, NEW g, NEW ar, NEW P \in SUBSET Block, NEW p \in P, p.ar = ar,
         Holds(h, ar, P), ~h.wild, InUse(g) = InUse(h) \ {p.bt}
  PROVE  Holds(g, ar, P \ {p})
<1>1. \A q \in P : q = [ar |-> q.ar, bt |-> q.bt]
  BY BlockType
<1>2. \A q \in P : q.ar = ar /\ q.bt = p.bt => q = p
  BY <1>1
<1>3. InUse(h) = {q.bt : q \in {q \in P : q.ar = ar}}
  BY DEF Holds
<1>4. {q.bt : q \in {q \in P \ {p} : q.ar = ar}} = {q.bt : q \in {q \in P : q.ar = ar}} \ {p.bt}
  BY <1>2
<1>5. QED
  BY <1>3, <1>4 DEF Holds

(* What neither clients nor task t have, a step of t leaves to the others.  *)
OthersHave(blocks, jobs, t) == Owned(blocks, jobs) \ (blocks \cup InCall(jobs[t]))

LEMMA Rejob ==
  ASSUME NEW blocks, NEW jobs, Apart(blocks, jobs), NEW t \in Tasks, t \in DOMAIN jobs,
         NEW j, NEW after, JobFits(j), InCall(j) \cap after = {},
         (after \cup InCall(j)) \cap OthersHave(blocks, jobs, t) = {}
  PROVE  /\ Apart(after, [jobs EXCEPT ![t] = j])
         /\ Owned(after, [jobs EXCEPT ![t] = j]) =
              OthersHave(blocks, jobs, t) \cup (after \cup InCall(j))
<1> DEFINE mine == blocks \cup InCall(jobs[t])
           mine2 == after \cup InCall(j)
           new == [jobs EXCEPT ![t] = j]
           others == UNION {InCall(jobs[u]) : u \in Tasks \ {t}}
<1>1. mine2 \cap (Owned(blocks, jobs) \ mine) = {}
  BY DEF OthersHave
<1>2. new[t] = j /\ \A u \in Tasks : u # t => new[u] = jobs[u]
  OBVIOUS
<1> HIDE DEF new
<1>3. others \cap mine = {}
  BY DEF Apart
<1>4. Owned(blocks, jobs) = mine \cup others
  BY DEF Owned
<1>5. Owned(after, new) = mine2 \cup others
  <2>1. UNION {InCall(new[u]) : u \in Tasks} = InCall(j) \cup others
    BY <1>2
  <2>2. QED
    BY <2>1 DEF Owned
<1>6. mine2 \cap others = {}
  BY <1>1, <1>3, <1>4
<1>7. \A u \in Tasks : u # t => InCall(jobs[u]) \subseteq others
  OBVIOUS
<1>8. Apart(after, new)
  <2>1. ASSUME NEW u \in Tasks PROVE JobFits(new[u]) /\ InCall(new[u]) \cap after = {}
    <3>1. CASE u = t
      BY <1>2, <3>1
    <3>2. CASE u # t
      <4>1. InCall(jobs[u]) \cap after = {}
        BY <1>6, <1>7, <3>2
      <4>2. QED
        BY <1>2, <3>2, <4>1 DEF Apart
    <3>3. QED
      BY <3>1, <3>2
  <2>2. ASSUME NEW u \in Tasks, NEW v \in Tasks, u # v PROVE InCall(new[u]) \cap InCall(new[v]) = {}
    <3>1. CASE u = t
      <4>1. InCall(jobs[v]) \cap InCall(j) = {}
        BY <1>6, <1>7, <2>2, <3>1
      <4>2. QED
        BY <1>2, <2>2, <3>1, <4>1
    <3>2. CASE v = t
      <4>1. InCall(jobs[u]) \cap InCall(j) = {}
        BY <1>6, <1>7, <2>2, <3>2
      <4>2. QED
        BY <1>2, <2>2, <3>2, <4>1
    <3>3. CASE u # t /\ v # t
      BY <1>2, <2>2, <3>3 DEF Apart
    <3>4. QED
      BY <3>1, <3>2, <3>3
  <2>3. QED
    BY <2>1, <2>2 DEF Apart
<1>9. Owned(after, new) = (Owned(blocks, jobs) \ mine) \cup mine2
  BY <1>3, <1>4, <1>5
<1>10. QED
  BY <1>8, <1>9 DEF new, OthersHave

-----------------------------------------------------------------------------
(* Steps.                                                                   *)
Jobs == [do : {"none", "alloc", "free"}, i : 0..(Len(Arenas) + 1), size : Sizes \cup {0},
         attributes : SUBSET MemoryFlags, bt : Block \cup {NULL}, old : Block \cup {NULL}]

GoodHeap(words, P) ==
  /\ DOMAIN words = DOMAIN Arenas
  /\ \A ar \in DOMAIN Arenas :
       /\ words[ar] \in Words(Units(ar))
       /\ words[ar].totalFree \in 0..(ALIGNMENT * Units(ar) - USEDBLK_SZ)
       /\ GoodArena(words[ar], Units(ar)) /\ Holds(words[ar], ar, P)

LEMMA Unpack ==
  ASSUME IInv
  PROVE  /\ Arenas \in Layouts /\ GoodHeap(heap, Owned(live, job))
         /\ live \in SUBSET Block /\ job \in [Tasks -> Jobs]
         /\ MemMtx \in Tasks \cup {NULL} /\ halted \in BOOLEAN
         /\ Apart(live, job) /\ Owned(live, job) \in SUBSET Block
<1>1. /\ Arenas \in Layouts /\ live \in SUBSET Block /\ job \in [Tasks -> Jobs]
      /\ MemMtx \in Tasks \cup {NULL} /\ halted \in BOOLEAN /\ Apart(live, job)
  BY DEF IInv, TypeOK, Jobs
<1>2. GoodHeap(heap, Owned(live, job))
  BY DEF IInv, TypeOK, GoodHeap
<1>3. \A t \in Tasks : InCall(job[t]) \subseteq Block
  <2>1. \A t \in Tasks : job[t] \in Jobs
    BY <1>1
  <2>2. \A t \in Tasks : job[t].bt \in Block \cup {NULL} /\ job[t].old \in Block \cup {NULL}
    BY <2>1 DEF Jobs
  <2>3. QED
    BY <2>2 DEF InCall
<1>4. Owned(live, job) \in SUBSET Block
  BY <1>1, <1>3 DEF Owned
<1>5. QED
  BY <1>1, <1>2, <1>4

LEMMA Repack ==
  ASSUME IInv, UNCHANGED Arenas, GoodHeap(heap', Owned(live', job')),
         live' \in SUBSET Block, job' \in [Tasks -> Jobs],
         MemMtx' \in Tasks \cup {NULL}, halted' \in BOOLEAN, Apart(live', job')
  PROVE  IInv'
<1>1. Block' = Block /\ Arenas \in Layouts
  BY Unpack DEF Block, Units
<1>2. TypeOK'
  BY <1>1 DEF TypeOK, Jobs, GoodHeap, Units
<1>3. \A ar \in DOMAIN Arenas : /\ GoodArena(heap'[ar], Units(ar))
                                /\ Holds(heap'[ar], ar, Owned(live', job'))
  BY DEF GoodHeap
<1>4. QED
  BY <1>2, <1>3 DEF IInv, Units

LEMMA IdleIs ==
  ASSUME Arenas \in Layouts
  PROVE  /\ Idle.do = "none" /\ Idle.i = 0 /\ Idle.size = 0 /\ Idle.attributes = {}
         /\ Idle.bt = NULL /\ Idle.old = NULL /\ InCall(Idle) = {} /\ JobFits(Idle)
         /\ Idle \in Jobs
<1>1. 0 \in 0..(Len(Arenas) + 1)
  BY LayoutType
<1>2. QED
  BY <1>1 DEF Idle, InCall, JobFits, Jobs

(* An arena that an operation leaves good.                                  *)
LEMMA SetArena ==
  ASSUME Arenas \in Layouts, NEW words, NEW P, GoodHeap(words, P),
         NEW ar \in DOMAIN Arenas, NEW g, NEW S, Good(g, Units(ar), S),
         NEW Q, Holds(g, ar, Q), \A q : q.ar # ar => (q \in P <=> q \in Q)
  PROVE  GoodHeap([words EXCEPT ![ar] = g], Q)
<1> DEFINE new == [words EXCEPT ![ar] = g]
<1>1. DOMAIN new = DOMAIN Arenas /\ new[ar] = g /\ \A a \in DOMAIN Arenas : a # ar => new[a] = words[a]
  BY DEF GoodHeap
<1> HIDE DEF new
<1>2. Units(ar) \in Nat
  BY LayoutType
<1>3. /\ g \in Words(Units(ar)) /\ g.totalFree \in 0..(ALIGNMENT * Units(ar) - USEDBLK_SZ)
      /\ GoodArena(g, Units(ar))
  BY <1>2, GoodType, TotalBound, GoodBlocks
<1>4. ASSUME NEW a \in DOMAIN Arenas, a # ar PROVE Holds(words[a], a, Q)
  <2>1. Holds(words[a], a, P)
    BY DEF GoodHeap
  <2>2. \A q : q.ar = a => (q \in P <=> q \in Q)
    BY <1>4
  <2>3. QED
    BY <2>1, <2>2, OthersHold
<1>5. ASSUME NEW a \in DOMAIN Arenas
      PROVE  /\ new[a] \in Words(Units(a))
             /\ new[a].totalFree \in 0..(ALIGNMENT * Units(a) - USEDBLK_SZ)
             /\ GoodArena(new[a], Units(a)) /\ Holds(new[a], a, Q)
  <2>1. CASE a = ar
    BY <1>1, <1>3, <2>1
  <2>2. CASE a # ar
    BY <1>1, <1>4, <2>2 DEF GoodHeap
  <2>3. QED
    BY <2>1, <2>2
<1>6. QED
  BY <1>1, <1>5 DEF GoodHeap, new

(* An arena about which nothing is known from now on.                       *)
LEMMA SetWild ==
  ASSUME Arenas \in Layouts, NEW words, NEW P, GoodHeap(words, P),
         NEW ar \in DOMAIN Arenas, NEW Q, \A q : q.ar # ar => (q \in P <=> q \in Q)
  PROVE  GoodHeap([words EXCEPT ![ar] = [@ EXCEPT !.wild = TRUE]], Q)
<1> DEFINE g == [words[ar] EXCEPT !.wild = TRUE]
           new == [words EXCEPT ![ar] = g]
<1>1. DOMAIN new = DOMAIN Arenas /\ new[ar] = g /\ \A a \in DOMAIN Arenas : a # ar => new[a] = words[a]
  BY DEF GoodHeap
<1>2. [words EXCEPT ![ar] = [@ EXCEPT !.wild = TRUE]] = new
  OBVIOUS
<1> HIDE DEF new
<1>3. /\ words[ar] \in Words(Units(ar))
      /\ words[ar].totalFree \in 0..(ALIGNMENT * Units(ar) - USEDBLK_SZ)
  BY DEF GoodHeap
<1>4. g \in Words(Units(ar)) /\ g.totalFree = words[ar].totalFree /\ g.wild = TRUE
  BY <1>3 DEF Words
<1> HIDE DEF g
<1>5. GoodArena(g, Units(ar)) /\ Holds(g, ar, Q)
  BY <1>4 DEF GoodArena, Holds
<1>6. ASSUME NEW a \in DOMAIN Arenas, a # ar PROVE Holds(words[a], a, Q)
  <2>1. Holds(words[a], a, P)
    BY DEF GoodHeap
  <2>2. \A q : q.ar = a => (q \in P <=> q \in Q)
    BY <1>6
  <2>3. QED
    BY <2>1, <2>2, OthersHold
<1>7. ASSUME NEW a \in DOMAIN Arenas
      PROVE  /\ new[a] \in Words(Units(a))
             /\ new[a].totalFree \in 0..(ALIGNMENT * Units(a) - USEDBLK_SZ)
             /\ GoodArena(new[a], Units(a)) /\ Holds(new[a], a, Q)
  <2>1. CASE a = ar
    BY <1>1, <1>3, <1>4, <1>5, <2>1
  <2>2. CASE a # ar
    BY <1>1, <1>6, <2>2 DEF GoodHeap
  <2>3. QED
    BY <2>1, <2>2
<1>8. QED
  BY <1>1, <1>2, <1>7 DEF GoodHeap

(* A block of an owner in an arena that is known.                           *)
LEMMA OwnedIs ==
  ASSUME IInv, NEW p \in Owned(live, job), NEW h, h = heap[p.ar], ~h.wild
  PROVE  /\ p \in Block /\ p.ar \in DOMAIN Arenas /\ Units(p.ar) \in Nat
         /\ p.bt \in 0..(Units(p.ar) - 1) /\ p = [ar |-> p.ar, bt |-> p.bt] /\ p # NULL
         /\ Good(h, Units(p.ar), Blocks(h)) /\ p.bt \in Blocks(h) /\ ~BtFree(h, p.bt)
         /\ Holds(h, p.ar, Owned(live, job))
<1> DEFINE P == Owned(live, job)
<1>1. Arenas \in Layouts /\ GoodHeap(heap, P) /\ P \in SUBSET Block
  BY Unpack
<1>2. p \in P
  OBVIOUS
<1> HIDE DEF P
<1>3. /\ p \in Block /\ p.ar \in DOMAIN Arenas
      /\ p.bt \in 0..(Units(p.ar) - 1) /\ p = [ar |-> p.ar, bt |-> p.bt] /\ p # NULL
  BY <1>1, <1>2, BlockType
<1>4. Units(p.ar) \in Nat
  BY <1>1, <1>3, LayoutType
<1>5. GoodArena(h, Units(p.ar)) /\ Holds(h, p.ar, P)
  BY <1>1, <1>3 DEF GoodHeap
<1>6. p.bt \in InUse(h)
  BY <1>1, <1>2, <1>5, OwnedUsed
<1>7. Good(h, Units(p.ar), Blocks(h)) /\ p.bt \in Blocks(h) /\ ~BtFree(h, p.bt)
  BY <1>5, <1>6, UsedIs
<1>8. QED
  BY <1>3, <1>4, <1>5, <1>7 DEF P

LEMMA InitIInv ==
  ASSUME Init
  PROVE  IInv
<1>1. /\ Arenas \in Layouts /\ live = {} /\ job = [t \in Tasks |-> Idle]
      /\ MemMtx = NULL /\ halted = FALSE
  BY DEF Init
<1>2. PICK end \in [DOMAIN Arenas -> EndTags] :
        heap = [ar \in DOMAIN Arenas |-> AddMemory(ar, end[ar])]
  BY DEF Init
<1>3. job \in [Tasks -> Jobs] /\ \A t \in Tasks : InCall(job[t]) = {} /\ JobFits(job[t])
  BY <1>1, IdleIs
<1>4. Owned(live, job) = {} /\ Apart(live, job)
  BY <1>1, <1>3 DEF Owned, Apart
<1>5. ASSUME NEW ar \in DOMAIN Arenas
      PROVE  /\ heap[ar] \in Words(Units(ar))
             /\ heap[ar].totalFree \in 0..(ALIGNMENT * Units(ar) - USEDBLK_SZ)
             /\ GoodArena(heap[ar], Units(ar)) /\ Holds(heap[ar], ar, {})
  <2> DEFINE n == Units(ar)
             g == AddMemory(ar, end[ar])
  <2>1. n \in Nat /\ n > 0 /\ n = Units(ar)
    BY <1>1, LayoutType
  <2>2. end[ar] \in [size : Int, flags : SUBSET Flags]
    BY <1>2, EndTagsAssumption
  <2>3. heap[ar] = g
    BY <1>2
  <2> HIDE DEF n
  <2>4. Good(g, n, {0}) /\ UsedOf(g, {0}) = {}
    BY <2>1, <2>2, AddGood
  <2> HIDE DEF g
  <2>5. /\ g \in Words(n) /\ g.totalFree \in 0..(ALIGNMENT * n - USEDBLK_SZ)
        /\ GoodArena(g, n) /\ InUse(g) = {}
    BY <2>1, <2>4, GoodType, TotalBound, GoodBlocks
  <2>6. Holds(g, ar, {})
    BY <2>5 DEF Holds
  <2>7. QED
    BY <2>1, <2>3, <2>5, <2>6
<1>6. DOMAIN heap = DOMAIN Arenas
  BY <1>2
<1>7. TypeOK
  BY <1>1, <1>3, <1>5, <1>6 DEF TypeOK, Jobs
<1>8. QED
  BY <1>4, <1>5, <1>7 DEF IInv

LEMMA MemAllocStep ==
  ASSUME IInv, NEW t \in Tasks, NEW size \in Sizes, NEW attributes \in Attributes,
         MemAlloc(t, size, attributes)
  PROVE  IInv'
<1> DEFINE j == [Idle EXCEPT !.do = "alloc", !.i = 1, !.size = size, !.attributes = attributes]
           mine == live \cup InCall(job[t])
           mine2 == live \cup InCall(j)
<1>1. /\ Arenas \in Layouts /\ GoodHeap(heap, Owned(live, job))
      /\ live \in SUBSET Block /\ job \in [Tasks -> Jobs]
      /\ MemMtx \in Tasks \cup {NULL} /\ halted \in BOOLEAN
      /\ Apart(live, job)
  BY Unpack
<1>2. /\ job[t] = Idle /\ job' = [job EXCEPT ![t] = j]
      /\ UNCHANGED <<Arenas, heap, live, MemMtx, halted>>
  BY DEF MemAlloc, Begins
<1>3. InCall(job[t]) = {} /\ InCall(j) = {} /\ JobFits(j) /\ j \in Jobs
  <2>1. 1 \in 0..(Len(Arenas) + 1) /\ attributes \in SUBSET MemoryFlags
    BY <1>1, LayoutType, RequestsAssumption
  <2>2. InCall(job[t]) = {}
    BY <1>1, <1>2, IdleIs
  <2>3. j.do = "alloc" /\ j.i = 1 /\ j.size = size /\ j.bt = NULL /\ j.old = NULL
    BY DEF Idle
  <2>4. j \in Jobs
    <3>1. Idle \in Jobs
      BY <1>1, IdleIs
    <3>2. QED
      BY <2>1, <3>1 DEF Jobs
  <2> HIDE DEF j
  <2>5. InCall(j) = {} /\ JobFits(j)
    BY <2>3 DEF InCall, JobFits
  <2>6. QED
    BY <2>2, <2>4, <2>5
<1> HIDE DEF j
<1>4. Apart(live, job') /\ Owned(live, job') = Owned(live, job)
  <2>1. t \in DOMAIN job /\ mine = mine2 /\ mine \subseteq Owned(live, job)
    BY <1>1, <1>3 DEF Owned
  <2>2. /\ Apart(live, [job EXCEPT ![t] = j])
        /\ Owned(live, [job EXCEPT ![t] = j]) = (Owned(live, job) \ mine) \cup mine2
    <3>1. /\ Apart(live, job) /\ t \in DOMAIN job /\ JobFits(j) /\ InCall(j) \cap live = {}
          /\ (live \cup InCall(j)) \cap OthersHave(live, job, t) = {}
      BY <1>1, <1>3, <2>1 DEF OthersHave
    <3> HIDE DEF mine, mine2
    <3>2. Apart(live, [job EXCEPT ![t] = j])
      BY <3>1, Rejob
    <3>3. Owned(live, [job EXCEPT ![t] = j]) = OthersHave(live, job, t) \cup (live \cup InCall(j))
      BY <3>1, Rejob
    <3>4. QED
      BY <3>2, <3>3 DEF OthersHave, mine, mine2
  <2> HIDE DEF mine, mine2
  <2>3. QED
    BY <1>2, <2>1, <2>2
<1>5. job' \in [Tasks -> Jobs]
  BY <1>1, <1>2, <1>3
<1>6. QED
  BY <1>1, <1>2, <1>4, <1>5, Repack

LEMMA MemFreeStep ==
  ASSUME IInv, NEW t \in Tasks, NEW p \in live, MemFree(t, p)
  PROVE  IInv'
<1> DEFINE j == [Idle EXCEPT !.do = "free", !.bt = p]
           after == live \ {p}
           mine == live \cup InCall(job[t])
           mine2 == after \cup InCall(j)
<1>1. /\ Arenas \in Layouts /\ GoodHeap(heap, Owned(live, job))
      /\ live \in SUBSET Block /\ job \in [Tasks -> Jobs]
      /\ MemMtx \in Tasks \cup {NULL} /\ halted \in BOOLEAN
      /\ Apart(live, job)
  BY Unpack
<1>2. /\ job[t] = Idle /\ job' = [job EXCEPT ![t] = j] /\ live' = after
      /\ UNCHANGED <<Arenas, heap, MemMtx, halted>>
  BY DEF MemFree, Begins
<1>3. p \in Block /\ p # NULL
  BY <1>1, BlockType
<1>4. InCall(job[t]) = {} /\ InCall(j) = {p} /\ JobFits(j) /\ j \in Jobs
  <2>1. 0 \in 0..(Len(Arenas) + 1)
    BY <1>1, LayoutType
  <2>2. InCall(job[t]) = {}
    BY <1>1, <1>2, IdleIs
  <2>3. QED
    BY <1>3, <2>1, <2>2 DEF Idle, InCall, JobFits, Jobs
<1> HIDE DEF j
<1>5. Apart(after, job') /\ Owned(after, job') = Owned(live, job)
  <2>1. /\ t \in DOMAIN job /\ mine = mine2 /\ mine \subseteq Owned(live, job)
        /\ InCall(j) \cap after = {}
    BY <1>1, <1>4 DEF Owned
  <2>2. /\ Apart(after, [job EXCEPT ![t] = j])
        /\ Owned(after, [job EXCEPT ![t] = j]) = (Owned(live, job) \ mine) \cup mine2
    <3>1. /\ Apart(live, job) /\ t \in DOMAIN job /\ JobFits(j) /\ InCall(j) \cap after = {}
          /\ (after \cup InCall(j)) \cap OthersHave(live, job, t) = {}
      BY <1>1, <1>4, <2>1 DEF OthersHave
    <3> HIDE DEF after
    <3> HIDE DEF mine, mine2
    <3>2. Apart(after, [job EXCEPT ![t] = j])
      BY <3>1, Rejob
    <3>3. Owned(after, [job EXCEPT ![t] = j]) = OthersHave(live, job, t) \cup (after \cup InCall(j))
      BY <3>1, Rejob
    <3>4. QED
      BY <3>2, <3>3 DEF OthersHave, mine, mine2
  <2> HIDE DEF mine, mine2
  <2>3. QED
    BY <1>2, <2>1, <2>2
<1>6. job' \in [Tasks -> Jobs] /\ live' \in SUBSET Block
  BY <1>1, <1>2, <1>4
<1>7. QED
  BY <1>1, <1>2, <1>5, <1>6, Repack

LEMMA OutOfMemoryStep ==
  ASSUME IInv, NEW t \in Tasks, OutOfMemory(t)
  PROVE  IInv'
<1>1. halted' = TRUE /\ UNCHANGED <<Arenas, heap, live, job, MemMtx>>
  BY DEF OutOfMemory
<1>2. QED
  BY <1>1, Unpack, Repack

LEMMA OwnedSplit ==
  ASSUME NEW blocks, NEW jobs, NEW t \in Tasks
  PROVE  /\ Owned(blocks, jobs) = OthersHave(blocks, jobs, t) \cup (blocks \cup InCall(jobs[t]))
         /\ OthersHave(blocks, jobs, t) \cap (blocks \cup InCall(jobs[t])) = {}
BY DEF Owned, OthersHave

(* MemAlloc finds nothing in the arena.                                     *)
LEMMA AllocSkips ==
  ASSUME IInv, NEW t \in Tasks, job[t].do = "alloc", job[t].i <= Len(Arenas),
         job' = [job EXCEPT ![t].i = job[t].i + 1],
         UNCHANGED <<Arenas, heap, live, MemMtx, halted>>
  PROVE  IInv'
<1> DEFINE j == job[t]
           new == [j EXCEPT !.i = j.i + 1]
<1>1. /\ Arenas \in Layouts /\ GoodHeap(heap, Owned(live, job))
      /\ live \in SUBSET Block /\ job \in [Tasks -> Jobs]
      /\ MemMtx \in Tasks \cup {NULL} /\ halted \in BOOLEAN
      /\ Apart(live, job)
  BY Unpack
<1>2. j \in Jobs /\ Len(Arenas) \in Nat
  BY <1>1, LayoutType
<1>3. JobFits(j) /\ InCall(j) \cap live = {}
  BY <1>1 DEF Apart
<1>4. j.bt = NULL /\ j.i > 0 /\ j.size \in Sizes /\ j.i \in Nat
  <2>1. j.do = "alloc"
    OBVIOUS
  <2>2. j.i \in 0..(Len(Arenas) + 1)
    BY <1>2 DEF Jobs
  <2> HIDE DEF j
  <2>3. QED
    BY <1>2, <1>3, <2>1, <2>2 DEF JobFits
<1>5. job' = [job EXCEPT ![t] = new]
  OBVIOUS
<1>6. new \in Jobs /\ InCall(new) = InCall(j) /\ JobFits(new)
  <2>1. j.i + 1 \in 0..(Len(Arenas) + 1) /\ j.i + 1 > 0 /\ j.do = "alloc"
    BY <1>2, <1>4
  <2> HIDE DEF j
  <2>2. new \in Jobs
    BY <1>2, <2>1 DEF Jobs
  <2>3. /\ new.do = "alloc" /\ new.i = j.i + 1 /\ new.size = j.size
        /\ new.bt = j.bt /\ new.old = j.old
    BY <1>2, <2>1 DEF Jobs
  <2> HIDE DEF new
  <2>4. QED
    BY <1>4, <2>1, <2>2, <2>3 DEF InCall, JobFits
<1>7. job' \in [Tasks -> Jobs]
  BY <1>1, <1>5, <1>6
<1>8. (live \cup InCall(new)) \cap OthersHave(live, job, t) = {}
  BY <1>6, OwnedSplit
<1>9. Apart(live, job) /\ t \in DOMAIN job /\ JobFits(new) /\ InCall(new) \cap live = {}
  BY <1>1, <1>3, <1>6
<1> HIDE DEF new
<1>10. Apart(live, [job EXCEPT ![t] = new])
  BY <1>8, <1>9, Rejob
<1>11. Owned(live, [job EXCEPT ![t] = new]) = OthersHave(live, job, t) \cup (live \cup InCall(new))
  BY ONLY <1>8, <1>9, t \in Tasks, Rejob
<1>12. Owned(live, job) = OthersHave(live, job, t) \cup (live \cup InCall(j))
  BY OwnedSplit
<1>13. Owned(live, job') = Owned(live, job)
  BY <1>5, <1>6, <1>11, <1>12
<1>14. QED
  BY <1>1, <1>5, <1>7, <1>10, <1>13, Repack

(* It finds a block, that nobody has.                                       *)
LEMMA AllocTakes ==
  ASSUME IInv, NEW t \in Tasks, AllocIn(t),
         Arenas[job[t].i].attributes \cap job[t].attributes # {},
         ArenaFindFit(heap[job[t].i], BlockSize(job[t].size)) # NULL
  PROVE  IInv'
<1> DEFINE j == job[t]
           ar == j.i
           h == heap[ar]
           reqsz == BlockSize(j.size)
           bt == ArenaFindFit(h, reqsz)
           new == [ar |-> ar, bt |-> bt]
           next == IF j.old = NULL THEN Idle
                   ELSE [Idle EXCEPT !.do = "free", !.bt = j.old, !.old = new]
           after == IF j.old = NULL THEN live \cup {new} ELSE live
           n == Units(ar)
           P == Owned(live, job)
           g == Fill(ArenaMemAlloc(h, bt, reqsz), bt)
<1>1. /\ Running /\ j.do = "alloc" /\ ar <= Len(Arenas) /\ bt # NULL
      /\ heap' = [heap EXCEPT ![ar] = g]
      /\ IF j.old = NULL
         THEN live' = live \cup {new} /\ job' = [job EXCEPT ![t] = Idle]
         ELSE /\ job' = [job EXCEPT ![t] =
                          [Idle EXCEPT !.do = "free", !.bt = j.old, !.old = new]]
              /\ UNCHANGED live
      /\ UNCHANGED <<Arenas, MemMtx, halted>>
  BY DEF AllocIn
<1>2. /\ ar = j.i /\ h = heap[ar] /\ reqsz = BlockSize(j.size)
      /\ bt = ArenaFindFit(h, reqsz) /\ new = [ar |-> ar, bt |-> bt]
  OBVIOUS
<1> HIDE DEF ar, h, reqsz, bt, new
<1>3. /\ Arenas \in Layouts /\ GoodHeap(heap, P)
      /\ live \in SUBSET Block /\ job \in [Tasks -> Jobs]
      /\ MemMtx \in Tasks \cup {NULL} /\ halted \in BOOLEAN
      /\ Apart(live, job) /\ P \in SUBSET Block
  BY Unpack
<1>4. j \in Jobs /\ Len(Arenas) \in Nat /\ DOMAIN Arenas = 1..Len(Arenas)
  BY <1>3, LayoutType
<1>5. JobFits(j) /\ InCall(j) \cap live = {}
  BY <1>3 DEF Apart
<1>6. j.bt = NULL /\ j.i > 0 /\ j.size \in Sizes /\ j.i \in Nat /\ j.old \in Block \cup {NULL}
  <2>1. j.do = "alloc"
    BY <1>1
  <2>2. j.i \in 0..(Len(Arenas) + 1) /\ j.old \in Block \cup {NULL}
    BY <1>4 DEF Jobs
  <2> HIDE DEF j
  <2>3. QED
    BY <1>4, <1>5, <2>1, <2>2 DEF JobFits
<1>7. InCall(j) = {j.old} \ {NULL}
  BY <1>6 DEF InCall
<1>8. ar \in DOMAIN Arenas /\ ~h.wild /\ n \in Nat
  <2>1. ar \in DOMAIN Arenas
    BY <1>1, <1>2, <1>4, <1>6
  <2>2. QED
    BY <1>1, <1>2, <1>3, <2>1, LayoutType DEF Running
<1>9. GoodArena(h, n) /\ Holds(h, ar, P) /\ DOMAIN heap = DOMAIN Arenas
  BY <1>2, <1>3, <1>8 DEF GoodHeap
<1>10. Good(h, n, Blocks(h))
  BY <1>8, <1>9 DEF GoodArena
<1>11. reqsz \in Nat /\ reqsz > 0
  <2>1. j.size \in Nat \ {0}
    BY <1>6, RequestsAssumption
  <2>2. QED
    BY <1>2, <2>1, BlockSizeIs
<1> HIDE DEF n
<1>12. /\ bt \in Blocks(h) /\ BtFree(h, bt)
       /\ \E R : /\ Good(g, n, R) /\ g.wild = h.wild
                 /\ UsedOf(g, R) = UsedOf(h, Blocks(h)) \cup {bt}
  BY <1>1, <1>2, <1>8, <1>10, <1>11, AllocGood, SMTT(20)
<1> HIDE DEF g
<1>13. PICK R : Good(g, n, R) /\ UsedOf(g, R) = UsedOf(h, Blocks(h)) \cup {bt}
  BY <1>12
<1>14. InUse(g) = InUse(h) \cup {bt}
  BY <1>8, <1>13, GoodBlocks DEF InUse
<1>15. /\ new \in Block /\ new.ar = ar /\ new.bt = bt /\ new \notin P /\ new # NULL
  <2>1. bt \in 0..(n - 1)
    BY <1>8, <1>10, <1>12, GoodType
  <2>2. new \in Block
    BY <1>2, <1>3, <1>8, <2>1, MakesBlock DEF n
  <2>3. new.ar = ar /\ new.bt = bt
    BY <1>2
  <2>4. new \notin P
    <3>1. ASSUME new \in P PROVE FALSE
      <4>1. ~BtFree(h, bt)
        BY <1>2, <1>8, <2>3, <3>1, OwnedIs DEF P
      <4>2. QED
        BY <1>12, <4>1
    <3>2. QED
      BY <3>1
  <2>5. new # NULL
    BY <1>3, <2>2, BlockType
  <2>6. QED
    BY <2>2, <2>3, <2>4, <2>5
<1>16. Holds(g, ar, P \cup {new})
  <2> HIDE DEF P
  <2>1. QED
    BY <1>8, <1>9, <1>14, <1>15, AddHolds
<1>17. heap' = [heap EXCEPT ![ar] = g]
  BY <1>1
<1>18. GoodHeap(heap', P \cup {new})
  <2> DEFINE Q == P \cup {new}
  <2>1. \A q : q.ar # ar => (q \in P <=> q \in Q)
    BY <1>15
  <2>2. Holds(g, ar, Q)
    BY <1>16
  <2> HIDE DEF P, Q
  <2>3. GoodHeap([heap EXCEPT ![ar] = g], Q)
    BY <1>3, <1>8, <1>13, <2>1, <2>2, SetArena DEF n
  <2>4. QED
    BY <1>17, <2>3 DEF Q
<1>19. job' = [job EXCEPT ![t] = next] /\ live' = after
  <2>1. CASE j.old = NULL
    BY <1>1, <2>1
  <2>2. CASE j.old # NULL
    BY <1>1, <2>2
  <2>3. QED
    BY <2>1, <2>2
<1>20. /\ next \in Jobs /\ JobFits(next) /\ InCall(next) \cap after = {}
       /\ after \cup InCall(next) = live \cup InCall(j) \cup {new}
  <2>1. CASE j.old = NULL
    <3>1. next = Idle /\ after = live \cup {new}
      BY <2>1
    <3>2. InCall(j) = {}
      BY <1>7, <2>1
    <3> HIDE DEF j, next, after
    <3>3. QED
      BY <1>3, <3>1, <3>2, IdleIs
  <2>2. CASE j.old # NULL
    <3> DEFINE f == [Idle EXCEPT !.do = "free", !.bt = j.old, !.old = new]
    <3>1. next = f /\ after = live
      BY <2>2
    <3>2. j.old \in P /\ InCall(j) = {j.old} /\ j.old \in Block
      <4>1. InCall(j) = {j.old} /\ j.old \in Block
        BY <1>6, <1>7, <2>2
      <4>2. P = OthersHave(live, job, t) \cup (live \cup InCall(j))
        BY OwnedSplit
      <4>3. QED
        BY <4>1, <4>2
    <3>3. j.old # new /\ new \notin live
      <4>1. live \subseteq P
        BY DEF Owned
      <4>2. QED
        BY <1>15, <3>2, <4>1
    <3> HIDE DEF j, next, after, P
    <3>4. Idle \in Jobs
      BY <1>3, IdleIs
    <3>5. f \in Jobs
      BY <1>15, <3>2, <3>4 DEF Jobs
    <3>6. f.do = "free" /\ f.bt = j.old /\ f.old = new
      BY <3>4 DEF Jobs
    <3> HIDE DEF f
    <3>7. JobFits(f) /\ InCall(f) = {j.old, new}
      BY <1>15, <2>2, <3>3, <3>6 DEF JobFits, InCall
    <3>8. InCall(f) \cap live = {}
      BY <1>5, <3>2, <3>3, <3>7
    <3>9. QED
      BY <3>1, <3>2, <3>5, <3>7, <3>8
  <2>3. QED
    BY <2>1, <2>2
<1>21. live' \in SUBSET Block /\ job' \in [Tasks -> Jobs]
  BY <1>3, <1>15, <1>19, <1>20
<1> HIDE DEF next, after
<1>22. /\ Apart(live, job) /\ t \in DOMAIN job /\ JobFits(next) /\ InCall(next) \cap after = {}
       /\ (after \cup InCall(next)) \cap OthersHave(live, job, t) = {}
  <2>1. OthersHave(live, job, t) \cap (live \cup InCall(j)) = {} /\ OthersHave(live, job, t) \subseteq P
    BY OwnedSplit
  <2>2. (after \cup InCall(next)) \cap OthersHave(live, job, t) = {}
    BY <1>15, <1>20, <2>1
  <2>3. QED
    BY <1>3, <1>20, <2>2
<1>23. Apart(after, [job EXCEPT ![t] = next])
  BY <1>22, Rejob
<1>24. Owned(after, [job EXCEPT ![t] = next])
         = OthersHave(live, job, t) \cup (after \cup InCall(next))
  BY <1>22, Rejob
<1>25. Owned(live', job') = P \cup {new}
  <2>1. P = OthersHave(live, job, t) \cup (live \cup InCall(j))
    BY OwnedSplit
  <2> HIDE DEF P, j
  <2>2. Owned(live', job') = OthersHave(live, job, t) \cup (after \cup InCall(next))
    BY <1>19, <1>24
  <2>3. QED
    BY <1>20, <2>1, <2>2
<1>26. Apart(live', job') /\ GoodHeap(heap', Owned(live', job'))
  BY <1>18, <1>19, <1>23, <1>25
<1>27. QED
  BY <1>1, <1>3, <1>21, <1>26, Repack

LEMMA AllocInStep ==
  ASSUME IInv, NEW t \in Tasks, AllocIn(t)
  PROVE  IInv'
<1> DEFINE j == job[t]
           bt == ArenaFindFit(heap[j.i], BlockSize(j.size))
<1>1. Running /\ j.do = "alloc" /\ j.i <= Len(Arenas) /\ UNCHANGED <<Arenas, MemMtx, halted>>
  BY DEF AllocIn
<1>2. CASE Arenas[j.i].attributes \cap j.attributes = {} \/ bt = NULL
  <2>1. job' = [job EXCEPT ![t].i = j.i + 1] /\ UNCHANGED <<heap, live>>
    BY <1>2 DEF AllocIn
  <2>2. QED
    BY <1>1, <2>1, AllocSkips
<1>3. CASE ~(Arenas[j.i].attributes \cap j.attributes = {} \/ bt = NULL)
  BY <1>3, AllocTakes
<1>4. QED
  BY <1>2, <1>3

(* What a step of t leaves to clients and to its own call settles the rest. *)
LEMMA Settle ==
  ASSUME IInv, NEW t \in Tasks, NEW next \in Jobs, JobFits(next),
         NEW after \in SUBSET Block, InCall(next) \cap after = {},
         (after \cup InCall(next)) \cap OthersHave(live, job, t) = {},
         NEW Q, Q = OthersHave(live, job, t) \cup (after \cup InCall(next)),
         GoodHeap(heap', Q), live' = after, job' = [job EXCEPT ![t] = next],
         UNCHANGED Arenas, MemMtx' \in Tasks \cup {NULL}, halted' \in BOOLEAN
  PROVE  IInv'
<1>1. job \in [Tasks -> Jobs] /\ Apart(live, job)
  BY Unpack
<1>2. /\ Apart(live, job) /\ t \in DOMAIN job /\ JobFits(next) /\ InCall(next) \cap after = {}
      /\ (after \cup InCall(next)) \cap OthersHave(live, job, t) = {}
  BY <1>1
<1>3. Apart(after, [job EXCEPT ![t] = next])
  BY <1>2, Rejob
<1>4. Owned(after, [job EXCEPT ![t] = next])
        = OthersHave(live, job, t) \cup (after \cup InCall(next))
  BY ONLY <1>2, t \in Tasks, Rejob
<1>5. GoodHeap(heap', Owned(live', job')) /\ Apart(live', job')
  BY <1>3, <1>4
<1>6. live' \in SUBSET Block /\ job' \in [Tasks -> Jobs]
  BY <1>1
<1>7. QED
  BY <1>5, <1>6, Repack

(* ArenaMemFree gives back the block, which then nobody has.                *)
LEMMA FreesBlock ==
  ASSUME IInv, NEW p \in Owned(live, job), ~heap[p.ar].wild
  PROVE  GoodHeap([heap EXCEPT ![p.ar] = ArenaMemFree(@, p.bt)], Owned(live, job) \ {p})
<1> DEFINE P == Owned(live, job)
           Q == P \ {p}
           ar == p.ar
           h == heap[ar]
           g == ArenaMemFree(h, p.bt)
<1>1. Arenas \in Layouts /\ GoodHeap(heap, P) /\ P \in SUBSET Block
  BY Unpack
<1>2. /\ ar \in DOMAIN Arenas /\ Units(ar) \in Nat
      /\ Good(h, Units(ar), Blocks(h)) /\ p.bt \in Blocks(h) /\ ~BtFree(h, p.bt)
      /\ Holds(h, ar, P)
  BY OwnedIs
<1>3. p \in P /\ p.ar = ar /\ ~h.wild
  OBVIOUS
<1>4. \A q : q.ar # ar => (q \in P <=> q \in Q)
  OBVIOUS
<1>5. CASE Wild(h, p.bt)
  <2>1. g = [h EXCEPT !.wild = TRUE]
    BY <1>5 DEF ArenaMemFree
  <2>2. [heap EXCEPT ![ar] = ArenaMemFree(@, p.bt)] = [heap EXCEPT ![ar] = [@ EXCEPT !.wild = TRUE]]
    BY <2>1
  <2> HIDE DEF P, Q, ar
  <2>3. GoodHeap([heap EXCEPT ![ar] = [@ EXCEPT !.wild = TRUE]], Q)
    BY <1>1, <1>2, <1>4, SetWild
  <2>4. QED
    BY <2>2, <2>3 DEF P, Q, ar
<1>6. CASE ~Wild(h, p.bt)
  <2> DEFINE n == Units(ar)
  <2>1. n \in Nat /\ Good(h, n, Blocks(h)) /\ p.bt \in Blocks(h) /\ ~BtFree(h, p.bt) /\ ~Wild(h, p.bt)
    BY <1>2, <1>6
  <2> HIDE DEF n, h, P, Q
  <2>2. \E R : Good(g, n, R) /\ g.wild = h.wild /\ UsedOf(g, R) = UsedOf(h, Blocks(h)) \ {p.bt}
    BY <2>1, FreeGood
  <2> HIDE DEF g
  <2>3. PICK R : Good(g, n, R) /\ UsedOf(g, R) = UsedOf(h, Blocks(h)) \ {p.bt}
    BY <2>2
  <2>4. InUse(g) = InUse(h) \ {p.bt}
    BY <2>1, <2>3, GoodBlocks DEF InUse
  <2> HIDE DEF ar
  <2>5. Holds(g, ar, P \ {p})
    BY <1>1, <1>2, <1>3, <2>4, DropHolds
  <2>6. Holds(g, ar, Q) /\ Good(g, Units(ar), R)
    BY <2>3, <2>5 DEF Q, n
  <2>7. GoodHeap([heap EXCEPT ![ar] = g], Q)
    BY <1>1, <1>2, <1>4, <2>6, SetArena
  <2>8. [heap EXCEPT ![ar] = ArenaMemFree(@, p.bt)] = [heap EXCEPT ![ar] = g]
    BY DEF g, h
  <2>9. QED
    BY <2>7, <2>8 DEF Q, P, ar
<1>7. QED
  BY <1>5, <1>6

LEMMA FreeBlockStep ==
  ASSUME IInv, NEW t \in Tasks, FreeBlock(t)
  PROVE  IInv'
<1> DEFINE j == job[t]
           P == Owned(live, job)
           others == OthersHave(live, job, t)
<1>1. /\ Arenas \in Layouts /\ GoodHeap(heap, P) /\ live \in SUBSET Block
      /\ job \in [Tasks -> Jobs] /\ MemMtx \in Tasks \cup {NULL} /\ halted \in BOOLEAN
      /\ Apart(live, job) /\ P \in SUBSET Block
  BY Unpack
<1>2. /\ Running /\ j.do = "free" /\ UNCHANGED <<Arenas, MemMtx>>
      /\ \/ /\ heap' = [heap EXCEPT ![j.bt.ar] = ArenaMemFree(@, j.bt.bt)]
            /\ live' = live \cup ({j.old} \ {NULL})
            /\ job' = [job EXCEPT ![t] = Idle]
            /\ UNCHANGED halted
         \/ halted' = TRUE /\ UNCHANGED <<heap, live, job>>
  BY DEF FreeBlock
<1>3. JobFits(j) /\ InCall(j) \cap live = {}
  BY <1>1 DEF Apart
<1>4. /\ InCall(j) = {j.bt} \cup ({j.old} \ {NULL}) /\ j.bt # j.old /\ j.bt # NULL
  <2>1. j.bt # NULL /\ j.bt # j.old
    BY <1>2, <1>3 DEF JobFits
  <2>2. QED
    BY <2>1 DEF InCall
<1>5. P = others \cup (live \cup InCall(j)) /\ others \cap (live \cup InCall(j)) = {}
  BY OwnedSplit
<1>6. CASE halted' = TRUE /\ UNCHANGED <<heap, live, job>>
  BY <1>1, <1>2, <1>6, Repack
<1>7. CASE /\ heap' = [heap EXCEPT ![j.bt.ar] = ArenaMemFree(@, j.bt.bt)]
           /\ live' = live \cup ({j.old} \ {NULL})
           /\ job' = [job EXCEPT ![t] = Idle]
           /\ UNCHANGED halted
  <2> DEFINE after == live \cup ({j.old} \ {NULL})
             p == j.bt
  <2>1. p \in P
    BY <1>4, <1>5
  <2>2. p \in Block /\ p.ar \in DOMAIN Arenas
    BY <1>1, <2>1, BlockType
  <2>3. ~heap[p.ar].wild
    BY <1>2, <2>2 DEF Running
  <2>4. GoodHeap(heap', P \ {p})
    <3> HIDE DEF p
    <3>1. p \in Owned(live, job)
      BY <2>1
    <3>2. GoodHeap([heap EXCEPT ![p.ar] = ArenaMemFree(@, p.bt)], Owned(live, job) \ {p})
      BY <2>3, <3>1, FreesBlock
    <3>3. QED
      BY <1>7, <3>2 DEF p
  <2>5. Idle \in Jobs /\ JobFits(Idle) /\ InCall(Idle) = {}
    BY <1>1, IdleIs
  <2> HIDE DEF P, others, j
  <2>6. P \ {p} = others \cup (after \cup InCall(Idle))
    BY <1>3, <1>4, <1>5, <2>5
  <2>7. (after \cup InCall(Idle)) \cap others = {} /\ InCall(Idle) \cap after = {}
    BY <1>4, <1>5, <2>5
  <2>8. after \in SUBSET Block
    BY <1>1, <1>4, <1>5
  <2>9. live' = after /\ MemMtx' \in Tasks \cup {NULL} /\ halted' \in BOOLEAN
    BY <1>1, <1>2, <1>7
  <2>10. QED
    <3> DEFINE Q == P \ {p}
    <3>1. GoodHeap(heap', Q) /\ Q = others \cup (after \cup InCall(Idle))
      BY <2>4, <2>6
    <3> HIDE DEF Q, after
    <3>2. QED
      BY <1>2, <1>7, <2>5, <2>7, <2>8, <2>9, <3>1, Settle DEF others
<1>8. QED
  BY <1>2, <1>6, <1>7

(* Shrinking leaves the task with two blocks, of which it frees the second. *)
LEMMA ShrinkStep ==
  ASSUME IInv, NEW t \in Tasks, NEW p \in live, NEW size \in Sizes, Shrink(t, p, size)
  PROVE  IInv'
<1> DEFINE reqsz == BlockSize(size)
           ar == p.ar
           h == heap[ar]
           n == Units(ar)
           P == Owned(live, job)
           others == OthersHave(live, job, t)
           second == [p EXCEPT !.bt = @ + reqsz]
           next == [Idle EXCEPT !.do = "free", !.old = p, !.bt = second]
           after == live \ {p}
           g == Split(h, p.bt, reqsz)
           Q == P \cup {second}
<1>1. /\ Arenas \in Layouts /\ GoodHeap(heap, P) /\ live \in SUBSET Block
      /\ job \in [Tasks -> Jobs] /\ halted \in BOOLEAN
      /\ Apart(live, job) /\ P \in SUBSET Block
  BY Unpack
<1>2. /\ Running /\ job[t] = Idle /\ reqsz < BtSize(h, p.bt)
      /\ heap' = [heap EXCEPT ![ar] = Split(@, p.bt, reqsz)]
      /\ live' = after /\ MemMtx' = t /\ job' = [job EXCEPT ![t] = next]
      /\ UNCHANGED <<Arenas, halted>>
  BY DEF Shrink, Begins
<1>3. P = others \cup (live \cup InCall(job[t])) /\ others \cap (live \cup InCall(job[t])) = {}
  BY OwnedSplit
<1>4. InCall(job[t]) = {} /\ Idle \in Jobs
  BY <1>1, <1>2, IdleIs
<1>5. P = others \cup live /\ others \cap live = {} /\ p \in P
  BY <1>3, <1>4
<1>6. ~h.wild
  <2>1. ar \in DOMAIN Arenas
    BY <1>1, BlockType
  <2>2. QED
    BY <1>2, <2>1 DEF Running
<1>7. /\ p \in Block /\ ar \in DOMAIN Arenas /\ n \in Nat
      /\ p.bt \in 0..(n - 1) /\ p = [ar |-> ar, bt |-> p.bt] /\ p # NULL
      /\ Good(h, n, Blocks(h)) /\ p.bt \in Blocks(h) /\ ~BtFree(h, p.bt)
      /\ Holds(h, ar, P)
  BY <1>5, <1>6, OwnedIs
<1>8. reqsz \in Nat /\ reqsz > 0
  BY RequestsAssumption, BlockSizeIs
<1> HIDE DEF reqsz, n
<1>9. /\ p.bt + reqsz \in 0..(n - 1) /\ p.bt + reqsz \notin Blocks(h)
      /\ \E R : /\ Good(g, n, R) /\ g.wild = h.wild
                /\ UsedOf(g, R) = UsedOf(h, Blocks(h)) \cup {p.bt + reqsz}
  <2> HIDE DEF h
  <2>1. QED
    BY <1>2, <1>7, <1>8, SplitGood
<1> HIDE DEF g
<1>10. PICK R : Good(g, n, R) /\ UsedOf(g, R) = UsedOf(h, Blocks(h)) \cup {p.bt + reqsz}
  BY <1>9
<1>11. second = [ar |-> ar, bt |-> p.bt + reqsz] /\ second.ar = ar /\ second.bt = p.bt + reqsz
  BY <1>7
<1> HIDE DEF second
<1>12. second \in Block
  <2>1. p.bt + reqsz \in 0..(Units(ar) - 1)
    BY <1>9 DEF n
  <2> HIDE DEF ar
  <2>2. [ar |-> ar, bt |-> p.bt + reqsz] \in Block
    BY <1>1, <1>7, <2>1, MakesBlock
  <2>3. QED
    BY <1>11, <2>2
<1>13. second \notin P /\ second # p /\ second # NULL
  <2>1. ASSUME second \in P PROVE FALSE
    <3>1. second \in Owned(live, job) /\ h = heap[second.ar]
      BY <1>11, <2>1
    <3>2. second.bt \in Blocks(h)
      BY <1>6, <3>1, OwnedIs
    <3>3. QED
      BY <1>9, <1>11, <3>2
  <2>2. second # NULL
    BY <1>1, <1>12, BlockType
  <2>3. QED
    BY <1>5, <2>1, <2>2
<1>14. InUse(g) = InUse(h) \cup {second.bt}
  BY <1>7, <1>10, <1>11, GoodBlocks DEF InUse
<1>15. Holds(g, ar, Q)
  <2> HIDE DEF P, h, ar
  <2>1. Holds(g, ar, P \cup {second})
    BY <1>6, <1>7, <1>11, <1>14, AddHolds
  <2>2. QED
    BY <2>1
<1>16. GoodHeap(heap', Q)
  <2>1. \A q : q.ar # ar => (q \in P <=> q \in Q)
    BY <1>11
  <2>2. Good(g, Units(ar), R)
    BY <1>10 DEF n
  <2>3. [heap EXCEPT ![ar] = Split(@, p.bt, reqsz)] = [heap EXCEPT ![ar] = g]
    BY DEF g
  <2> HIDE DEF P, Q, ar
  <2>4. GoodHeap([heap EXCEPT ![ar] = g], Q)
    BY <1>1, <1>7, <1>15, <2>1, <2>2, SetArena
  <2>5. QED
    BY <1>2, <2>3, <2>4
<1>17. next \in Jobs /\ next.do = "free" /\ next.old = p /\ next.bt = second
  <2>1. next \in Jobs
    BY <1>4, <1>7, <1>12 DEF Jobs
  <2>2. QED
    BY <1>4, <2>1 DEF Jobs
<1> HIDE DEF next
<1>18. JobFits(next) /\ InCall(next) = {p, second}
  BY <1>7, <1>13, <1>17 DEF JobFits, InCall
<1>19. second \notin live /\ second \notin others
  BY <1>5, <1>13
<1> HIDE DEF P, others
<1>20. Q = others \cup (after \cup InCall(next))
  BY <1>5, <1>18
<1>21. (after \cup InCall(next)) \cap others = {} /\ InCall(next) \cap after = {}
  BY <1>5, <1>18, <1>19
<1>22. after \in SUBSET Block
  BY <1>1
<1> HIDE DEF Q, after
<1>23. QED
  BY <1>1, <1>2, <1>16, <1>17, <1>18, <1>20, <1>21, <1>22, Settle DEF others

(* A block that grows in its place: nobody has another block than before.   *)
LEMMA GrowsBlock ==
  ASSUME IInv, NEW p \in Owned(live, job), ~heap[p.ar].wild, ~Wild(heap[p.ar], p.bt),
         NEW reqsz \in Nat, reqsz > BtSize(heap[p.ar], p.bt), CanExpand(heap[p.ar], p.bt, reqsz)
  PROVE  GoodHeap([heap EXCEPT ![p.ar] = Fill(Expand(@, p.bt, reqsz), p.bt)], Owned(live, job))
<1> DEFINE P == Owned(live, job)
           ar == p.ar
           h == heap[ar]
           n == Units(ar)
           g == Fill(Expand(h, p.bt, reqsz), p.bt)
<1>1. Arenas \in Layouts /\ GoodHeap(heap, P) /\ P \in SUBSET Block
  BY Unpack
<1>2. /\ ar \in DOMAIN Arenas /\ n \in Nat
      /\ Good(h, n, Blocks(h)) /\ p.bt \in Blocks(h) /\ ~BtFree(h, p.bt)
      /\ Holds(h, ar, P)
  BY OwnedIs
<1>3. ~h.wild /\ ~Wild(h, p.bt) /\ reqsz > BtSize(h, p.bt) /\ CanExpand(h, p.bt, reqsz)
  OBVIOUS
<1>4. [heap EXCEPT ![ar] = Fill(Expand(@, p.bt, reqsz), p.bt)] = [heap EXCEPT ![ar] = g]
  OBVIOUS
<1> HIDE DEF n, h, P
<1>5. \E R : Good(g, n, R) /\ g.wild = h.wild /\ UsedOf(g, R) = UsedOf(h, Blocks(h))
  BY <1>2, <1>3, GrowGood
<1> HIDE DEF g
<1>6. PICK R : Good(g, n, R) /\ g.wild = h.wild /\ UsedOf(g, R) = UsedOf(h, Blocks(h))
  BY <1>5
<1>7. InUse(g) = InUse(h)
  BY <1>2, <1>6, GoodBlocks DEF InUse
<1>8. Holds(g, ar, P) /\ Good(g, Units(ar), R)
  BY <1>2, <1>3, <1>6, <1>7 DEF Holds, n
<1> HIDE DEF ar
<1>9. GoodHeap([heap EXCEPT ![ar] = g], P)
  BY <1>1, <1>2, <1>8, SetArena
<1>10. QED
  BY <1>4, <1>9 DEF P, ar

(* A block for which there is no room: the task takes it into a call that   *)
(* looks for another one.                                                   *)
LEMMA GrowMoves ==
  ASSUME IInv, NEW t \in Tasks, NEW p \in live, NEW size \in Sizes, job[t] = Idle,
         live' = live \ {p},
         job' = [job EXCEPT ![t] = [Idle EXCEPT !.do = "alloc", !.i = 1, !.size = size, !.old = p,
                                                !.attributes = Arenas[p.ar].attributes]],
         UNCHANGED <<Arenas, heap, MemMtx, halted>>
  PROVE  IInv'
<1> DEFINE P == Owned(live, job)
           others == OthersHave(live, job, t)
           next == [Idle EXCEPT !.do = "alloc", !.i = 1, !.size = size, !.old = p,
                                !.attributes = Arenas[p.ar].attributes]
           after == live \ {p}
<1>1. /\ Arenas \in Layouts /\ GoodHeap(heap, P) /\ live \in SUBSET Block
      /\ job \in [Tasks -> Jobs] /\ MemMtx \in Tasks \cup {NULL} /\ halted \in BOOLEAN
  BY Unpack
<1>2. P = others \cup (live \cup InCall(job[t])) /\ others \cap (live \cup InCall(job[t])) = {}
  BY OwnedSplit
<1>3. InCall(job[t]) = {} /\ Idle \in Jobs /\ Idle.bt = NULL
  BY <1>1, IdleIs
<1>4. P = others \cup live /\ others \cap live = {} /\ p \in P
  BY <1>2, <1>3
<1>5. p \in Block /\ p # NULL /\ p.ar \in DOMAIN Arenas
  BY <1>1, BlockType
<1>6. 1 \in 0..(Len(Arenas) + 1) /\ Arenas[p.ar].attributes \in SUBSET MemoryFlags
  BY <1>1, <1>5, LayoutType
<1>7. next \in Jobs
  BY <1>3, <1>5, <1>6 DEF Jobs
<1>8. next.do = "alloc" /\ next.i = 1 /\ next.size = size /\ next.old = p /\ next.bt = NULL
  BY <1>3 DEF Jobs
<1>9. job' = [job EXCEPT ![t] = next] /\ live' = after
  OBVIOUS
<1> HIDE DEF next
<1>10. JobFits(next) /\ InCall(next) = {p}
  BY <1>5, <1>8 DEF JobFits, InCall
<1>11. GoodHeap(heap', P)
  BY <1>1
<1> HIDE DEF P, others
<1>12. /\ P = others \cup (after \cup InCall(next)) /\ InCall(next) \cap after = {}
       /\ (after \cup InCall(next)) \cap others = {} /\ after \in SUBSET Block
  BY <1>1, <1>4, <1>10
<1> HIDE DEF after
<1>13. QED
  BY <1>1, <1>7, <1>9, <1>10, <1>11, <1>12, Settle DEF others

LEMMA GrowStep ==
  ASSUME IInv, NEW t \in Tasks, NEW p \in live, NEW size \in Sizes, Grow(t, p, size)
  PROVE  IInv'
<1> DEFINE reqsz == BlockSize(size)
           h == heap[p.ar]
           P == Owned(live, job)
<1>1. /\ Arenas \in Layouts /\ GoodHeap(heap, P) /\ live \in SUBSET Block
      /\ job \in [Tasks -> Jobs] /\ MemMtx \in Tasks \cup {NULL} /\ halted \in BOOLEAN
      /\ Apart(live, job)
  BY Unpack
<1>2. /\ Running /\ job[t] = Idle /\ reqsz > BtSize(h, p.bt)
      /\ UNCHANGED <<Arenas, MemMtx, halted>>
  BY DEF Grow, Begins
<1>3. p \in P /\ p \in Block /\ p.ar \in DOMAIN Arenas
  BY <1>1, BlockType DEF Owned
<1>4. ~h.wild
  BY <1>2, <1>3 DEF Running
<1>5. reqsz \in Nat
  BY RequestsAssumption, BlockSizeIs
<1>6. CASE Wild(h, p.bt)
  <2>1. heap' = [heap EXCEPT ![p.ar].wild = TRUE] /\ UNCHANGED <<live, job>>
    BY <1>6 DEF Grow
  <2>2. GoodHeap([heap EXCEPT ![p.ar] = [@ EXCEPT !.wild = TRUE]], P)
    <3> HIDE DEF P
    <3>1. QED
      BY <1>1, <1>3, SetWild
  <2>3. GoodHeap(heap', Owned(live', job'))
    BY <2>1, <2>2
  <2>4. QED
    BY <1>1, <1>2, <2>1, <2>3, Repack
<1>7. CASE ~Wild(h, p.bt) /\ CanExpand(h, p.bt, reqsz)
  <2>1. heap' = [heap EXCEPT ![p.ar] = Fill(Expand(@, p.bt, reqsz), p.bt)] /\ UNCHANGED <<live, job>>
    BY <1>7 DEF Grow
  <2> HIDE DEF reqsz
  <2>2. GoodHeap([heap EXCEPT ![p.ar] = Fill(Expand(@, p.bt, reqsz), p.bt)], Owned(live, job))
    BY <1>2, <1>3, <1>4, <1>5, <1>7, GrowsBlock
  <2>3. GoodHeap(heap', Owned(live', job'))
    BY <2>1, <2>2
  <2>4. QED
    BY <1>1, <1>2, <2>1, <2>3, Repack
<1>8. CASE ~Wild(h, p.bt) /\ ~CanExpand(h, p.bt, reqsz)
  <2>1. /\ live' = live \ {p} /\ heap' = heap
        /\ job' = [job EXCEPT ![t] = [Idle EXCEPT !.do = "alloc", !.i = 1, !.size = size, !.old = p,
                                                  !.attributes = Arenas[p.ar].attributes]]
    BY <1>8 DEF Grow
  <2>2. QED
    BY <1>2, <2>1, GrowMoves
<1>9. QED
  BY <1>6, <1>7, <1>8

LEMMA NextIInv ==
  ASSUME IInv, [Next]_vars
  PROVE  IInv'
<1>1. CASE UNCHANGED vars
  <2>1. UNCHANGED <<Arenas, heap, live, job, MemMtx, halted>>
    BY <1>1 DEF vars
  <2>2. /\ GoodHeap(heap, Owned(live, job)) /\ live \in SUBSET Block
        /\ job \in [Tasks -> Jobs] /\ MemMtx \in Tasks \cup {NULL} /\ halted \in BOOLEAN
        /\ Apart(live, job)
    BY Unpack
  <2>3. QED
    BY <2>1, <2>2, Repack
<1>2. CASE Next
  <2>1. PICK t \in Tasks :
          \/ \E size \in Sizes, attributes \in Attributes : MemAlloc(t, size, attributes)
          \/ \E p \in live : MemFree(t, p)
          \/ \E p \in live, size \in Sizes : Shrink(t, p, size) \/ Grow(t, p, size)
          \/ Step(t)
    BY <1>2 DEF Next
  <2>2. CASE \E size \in Sizes, attributes \in Attributes : MemAlloc(t, size, attributes)
    BY <2>2, MemAllocStep
  <2>3. CASE \E p \in live : MemFree(t, p)
    BY <2>3, MemFreeStep
  <2>4. CASE \E p \in live, size \in Sizes : Shrink(t, p, size) \/ Grow(t, p, size)
    BY <2>4, ShrinkStep, GrowStep
  <2>5. CASE Step(t)
    BY <2>5, AllocInStep, OutOfMemoryStep, FreeBlockStep DEF Step
  <2>6. QED
    BY <2>1, <2>2, <2>3, <2>4, <2>5
<1>3. QED
  BY <1>1, <1>2

LEMMA IInvAlways == Spec => []IInv
BY InitIInv, NextIInv, PTL DEF Spec

(* An arena that is not wild is good.                                       *)
LEMMA KnownGood ==
  ASSUME IInv, NEW ar \in DOMAIN Arenas, ~heap[ar].wild
  PROVE  /\ Units(ar) \in Nat /\ Good(heap[ar], Units(ar), Blocks(heap[ar]))
         /\ Holds(heap[ar], ar, Owned(live, job))
<1>1. Units(ar) \in Nat
  BY Unpack, LayoutType
<1>2. QED
  BY <1>1 DEF IInv, GoodArena

-----------------------------------------------------------------------------
(* The words of an arena, the blocks and the calls stay well formed, and    *)
(* totalFree never exceeds what AddMemory gave the arena nor drops below 0. *)
THEOREM TypeCorrect == Spec => []TypeOK
<1>1. IInv => TypeOK
  BY DEF IInv
<1>2. QED
  BY <1>1, IInvAlways, PTL

(* For every layout of memory and every order of MemAlloc, MemFree and      *)
(* MemResize by any number of tasks, the first loop of ArenaCheck never     *)
(* fails: the walk over the tags ends at ar->end, no two free blocks are    *)
(* neighbours, and used blocks know whether the one before them is free.    *)
THEOREM TagsAlwaysSound == Spec => []TagsSound
<1>1. ASSUME IInv PROVE TagsSound
  <2>1. ASSUME NEW ar \in DOMAIN Arenas, ~heap[ar].wild PROVE TagsMatch(heap[ar])
    BY <1>1, <2>1, KnownGood, GoodTags
  <2>2. QED
    BY <2>1 DEF TagsSound, Sound
<1>2. QED
  BY <1>1, IInvAlways, PTL

(* The other assertions of ArenaCheck: the free list has every free block,  *)
(* no other and none twice, and totalFree is what they offer.               *)
THEOREM FreeListAlwaysSound == Spec => []FreeListSound
<1>1. ASSUME IInv PROVE FreeListSound
  <2>1. ASSUME NEW ar \in DOMAIN Arenas, ~heap[ar].wild PROVE FreeMatches(heap[ar])
    BY <1>1, <2>1, KnownGood, GoodList
  <2>2. QED
    BY <2>1 DEF FreeListSound, Sound
<1>2. QED
  BY <1>1, IInvAlways, PTL

(* The used blocks are exactly those that clients and calls have: nothing   *)
(* is given out twice and nothing is lost, also while a call of MemResize   *)
(* has left the mutex between its steps.                                    *)
THEOREM BlocksAlwaysOwned == Spec => []BlocksOwned
<1>1. ASSUME IInv PROVE BlocksOwned
  <2> DEFINE inCalls == (UNION {{job[t].bt, job[t].old} : t \in Tasks}) \ {NULL}
  <2>1. Owned(live, job) = live \cup inCalls
    BY DEF Owned, InCall
  <2>2. ASSUME NEW ar \in DOMAIN Arenas, ~heap[ar].wild
        PROVE  {bt \in Blocks(heap[ar]) : ~BtFree(heap[ar], bt)} =
                 {p.bt : p \in {q \in live \cup inCalls : q.ar = ar}}
    <3>1. Holds(heap[ar], ar, live \cup inCalls)
      BY <1>1, <2>1, <2>2, KnownGood
    <3>2. QED
      BY <2>2, <3>1 DEF Holds, InUse, UsedOf
  <2>3. QED
    BY <2>2 DEF BlocksOwned
<1>2. QED
  BY <1>1, IInvAlways, PTL

(* The block of a client keeps its header, its canary and everything the    *)
(* client wrote, whatever the calls of other tasks do to the arena.         *)
THEOREM PayloadAlwaysKept == Spec => []PayloadKept
<1>1. ASSUME IInv PROVE PayloadKept
  <2>1. ASSUME NEW p \in live, ~heap[p.ar].wild
        PROVE  /\ BtNext(heap[p.ar], p.bt) \in (p.bt + 1)..Units(p.ar)
               /\ ~BtFree(heap[p.ar], p.bt) /\ BtHasCanary(heap[p.ar], p.bt)
               /\ Fill(heap[p.ar], p.bt) = heap[p.ar]
    <3> DEFINE h == heap[p.ar]
    <3>1. p \in Owned(live, job) /\ h = heap[p.ar] /\ ~h.wild
      BY <2>1 DEF Owned
    <3> HIDE DEF h
    <3>2. /\ Units(p.ar) \in Nat /\ Good(h, Units(p.ar), Blocks(h))
          /\ p.bt \in Blocks(h) /\ ~BtFree(h, p.bt)
      BY <1>1, <3>1, OwnedIs
    <3>3. BtNext(h, p.bt) \in (p.bt + 1)..Units(p.ar) /\ BtHasCanary(h, p.bt) /\ Fill(h, p.bt) = h
      BY <3>2, FillSame
    <3>4. QED
      BY <3>1, <3>2, <3>3
  <2>2. QED
    BY <2>1 DEF PayloadKept
<1>2. QED
  BY <1>1, IInvAlways, PTL
=============================================================================
