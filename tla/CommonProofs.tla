---------------------------- MODULE CommonProofs -----------------------------
(***************************************************************************)
(* Proofs about the two components of commonn/ that are models of their    *)
(* own: the memory cache (MemCache) and the log (AsynLog).  They share no  *)
(* state; AsynLog's names begin with Log where both would have the same.   *)
(*                                                                         *)
(* MemCache is proved for any number of threads, buffers, blocks and free  *)
(* lists, AsynLog for any threads that log, any lines and any bound on     *)
(* their number.                                                           *)
(***************************************************************************)
EXTENDS MemCache, AsynLog, WellFoundedInduction, FiniteSetTheorems,
        SequenceTheorems, TLAPS
-----------------------------------------------------------------------------
(* MemCache                                                                *)

(* The inductive invariant behind EveryBlockHasOnePlace and                *)
(* BlocksAreLargeEnough.                                                   *)
CallTypes ==
    /\ block \in [Threads -> Blocks \union {NULL}]
    /\ units \in [Threads -> 0..MaxUnits]
    /\ alloLen \in [Threads -> 0..MaxUnits]
    /\ dropped \subseteq Blocks /\ inits \in Nat /\ copied \in BOOLEAN

(* Where a thread may be, what it has asked for, and that the head it has  *)
(* read under the mutex is still the head of the list.                     *)
Place(t) ==
    /\ pc[t] = "idle" <=> buffer[t] = NULL
    /\ pc[t] = "idle" => units[t] = 0
    /\ block[t] # NULL => pc[t] \in {"deallocate", "give"}
    /\ pc[t] \in {"allocate", "take"} => units[t] > 0
    /\ units[t] > 0 =>
          alloLen[t] \in 1..units[t] /\ (copied \/ alloLen[t] = units[t])
    /\ pc[t] = "take" =>
          /\ Pooled(units[t]) /\ mutex[units[t]] = t
          /\ first[t] = head[units[t]]
    /\ pc[t] = "give" =>
          /\ Old(t) # NULL /\ Pooled(OldUnits(t)) /\ mutex[OldUnits(t)] = t
          /\ link[Old(t)] = head[OldUnits(t)]

CallsInPlace ==
    /\ \A t \in Threads : Place(t)
    /\ \A t, u \in Threads : buffer[t] = buffer[u] /\ buffer[t] # NULL => t = u

(* A list that begins with k and comes to its end: its blocks in order.    *)
Chain(s, n, k, next) ==
    /\ \A i, j \in 1..n : s[i] = s[j] => i = j
    /\ k = IF n = 0 THEN NULL ELSE s[1]
    /\ \A j \in 1..n : next[s[j]] = IF j < n THEN s[j + 1] ELSE NULL
IsList(k, next) ==
    \E n \in 0..MaxBlocks : \E s \in [1..n -> Blocks] : Chain(s, n, k, next)
ListsEnd == \A i \in Indices : IsList(head[i], link)

(* BlocksAreLargeEnough, with the blocks that are handed out.              *)
Fits(n, k) == n \in 1..size[k] /\ (copied \/ n = size[k])
SizesFit ==
    /\ \A b \in Buffers : cache[b] # NULL => Fits(allo[b], cache[b])
    /\ \A t \in Threads : block[t] # NULL => Fits(alloLen[t], block[t])
    /\ \A i \in Indices : \A k \in FreeOn(i) : Fits(i, k)

(* EveryBlockHasOnePlace, block by block.                                  *)
HasBuffer(k) == \E b \in Buffers : cache[b] = k
HasThread(k) == \E t \in Threads : block[t] = k
HasList(k) == \E i \in Indices : k \in FreeOn(i)
OnePlace ==
    /\ \A b, c \in Buffers : cache[b] = cache[c] /\ cache[b] # NULL => b = c
    /\ \A t, u \in Threads : block[t] = block[u] /\ block[t] # NULL => t = u
    /\ \A i, j \in Indices : \A k \in FreeOn(i) : k \in FreeOn(j) => i = j
    /\ \A k \in Blocks :
          /\ size[k] > 0 <=> \/ HasBuffer(k) \/ HasThread(k) \/ HasList(k)
                             \/ k \in dropped
          /\ ~(HasBuffer(k) /\ HasThread(k)) /\ ~(HasBuffer(k) /\ HasList(k))
          /\ ~(HasThread(k) /\ HasList(k)) /\ ~(HasList(k) /\ k \in dropped)
          /\ k \in dropped => ~HasBuffer(k) /\ ~HasThread(k)

(* Whoever is to get memory finds some: the bounds are never in the way.   *)
Waiting == {t \in Threads : pc[t] \in {"allocate", "take"}}
MemoryReserved ==
    /\ Cardinality(Unmapped) >= ChunkNode * Cardinality(Waiting)
    /\ inits % Lists # 0 =>
          /\ \A t \in Threads : pc[t] = "idle"
          /\ Cardinality(Unmapped) >= ChunkNode * (Lists - (inits % Lists))

IInv ==
    /\ TypeOK
    /\ CallTypes
    /\ CallsInPlace
    /\ ListsEnd
    /\ SizesFit
    /\ OnePlace
    /\ MemoryReserved


(* A set of numbers has a least one: induction, by a least counterexample. *)
LEMMA LeastNumber ==
    ASSUME NEW S \in SUBSET Nat, S # {}
    PROVE  \E m \in S : \A n \in S : m <= n
<1>. DEFINE R == OpToRel(<, Nat)
<1>1. IsWellFoundedOn(R, Nat)
  BY NatLessThanWellFounded
<1>2. \A m, n \in Nat : m < n => <<m, n>> \in R
  BY Zenon DEF OpToRel
<1>. HIDE DEF R
<1>3. PICK m \in S : \A n \in S : ~(<<n, m>> \in R)
  BY <1>1, WFMin
<1>4. \A n \in S : ~(n < m)
  BY <1>2, <1>3
<1>. QED
  BY <1>3, <1>4

(* The recursive function in ListFrom, as what it is: the function that    *)
(* satisfies its equation, if there is one.                                *)
Nexts(k, next, f) ==
    [n \in 0..MaxBlocks |->
       IF n = 0 THEN k
       ELSE IF f[n - 1] \in Blocks THEN next[f[n - 1]] ELSE NULL]
Nth(k, next) == CHOOSE f : f = Nexts(k, next, f)

LEMMA ListFromNth ==
    ASSUME NEW k, NEW next
    PROVE  ListFrom(k, next)
             = {Nth(k, next)[n] : n \in 0..MaxBlocks} \intersect Blocks
BY Zenon DEF ListFrom, Nth, Nexts

LEMMA ConstantFacts ==
    /\ MaxBlocks \in Nat /\ Lists \in Nat /\ Lists > 0
    /\ MaxUnits \in Nat /\ Lists < MaxUnits
    /\ ChunkNode \in Nat /\ ChunkNode > 1
    /\ NULL \notin Blocks /\ Junk \notin Blocks /\ NULL # Junk
    /\ \A k \in Blocks : k \in Nat /\ 0 < k /\ k <= MaxBlocks
BY MemCacheAssumption DEF Blocks

(* A chain has only one way to satisfy the equation, and what it finds are *)
(* the blocks of the chain.                                                *)
LEMMA ChainIsListFrom ==
    ASSUME NEW k, NEW next, NEW n \in 0..MaxBlocks, NEW s \in [1..n -> Blocks],
           Chain(s, n, k, next)
    PROVE  ListFrom(k, next) = {s[j] : j \in 1..n}
<1>. DEFINE f == [m \in 0..MaxBlocks |-> IF m < n THEN s[m + 1] ELSE NULL]
            g == Nth(k, next)
<1>1. f = Nexts(k, next, f)
  <2>1. ASSUME NEW m \in 0..MaxBlocks
        PROVE  f[m] = IF m = 0 THEN k
                      ELSE IF f[m - 1] \in Blocks THEN next[f[m - 1]] ELSE NULL
    <3>1. CASE m = 0
      BY <3>1, ConstantFacts DEF Chain
    <3>2. CASE m # 0 /\ m - 1 < n
      <4>1. m \in 1..n /\ m - 1 \in 0..MaxBlocks /\ f[m - 1] = s[m]
        BY <3>2, ConstantFacts
      <4>2. next[s[m]] = f[m]
        BY <3>2, <4>1 DEF Chain
      <4>. QED
        BY <3>2, <4>1, <4>2
    <3>3. CASE m # 0 /\ ~(m - 1 < n)
      BY <3>3, ConstantFacts
    <3>. QED
      BY <3>1, <3>2, <3>3
  <2>. HIDE DEF f
  <2>2. f = [m \in 0..MaxBlocks |-> f[m]]
    BY DEF f
  <2>. QED
    BY <2>1, <2>2 DEF Nexts
<1>2. g = Nexts(k, next, g)
  BY <1>1, Zenon DEF Nth
<1>3. \A m \in 0..MaxBlocks : g[m] = f[m]
  <2>. DEFINE Bad == {m \in 0..MaxBlocks : g[m] # f[m]}
  <2>. HIDE DEF f, g
  <2>1. SUFFICES ASSUME Bad # {} PROVE FALSE
    OBVIOUS
  <2>2. PICK m \in Bad : \A i \in Bad : m <= i
    <3>1. Bad \in SUBSET Nat
      BY ConstantFacts
    <3>. HIDE DEF Bad
    <3>. QED
      BY <2>1, <3>1, LeastNumber
  <2>3. CASE m = 0
    BY <1>1, <1>2, <2>2, <2>3 DEF Nexts
  <2>4. CASE m # 0
    <3>1. m - 1 \in 0..MaxBlocks /\ g[m - 1] = f[m - 1]
      BY <2>2, <2>4, ConstantFacts
    <3>. QED
      BY <1>1, <1>2, <2>2, <2>4, <3>1 DEF Nexts
  <2>. QED
    BY <2>3, <2>4
<1>4. ListFrom(k, next) = {f[m] : m \in 0..MaxBlocks} \intersect Blocks
  BY <1>3, ListFromNth
<1>5. \A m \in 0..MaxBlocks : f[m] \in Blocks => m + 1 \in 1..n /\ f[m] = s[m + 1]
  BY ConstantFacts
<1>6. \A j \in 1..n : j - 1 \in 0..MaxBlocks /\ f[j - 1] = s[j] /\ s[j] \in Blocks
  BY ConstantFacts
<1>. HIDE DEF f, g
<1>. QED
  BY <1>4, <1>5, <1>6

(* What is needed of lists from here on: the empty list, ... *)
LEMMA EmptyList ==
    ASSUME NEW next
    PROVE  IsList(NULL, next) /\ ListFrom(NULL, next) = {}
<1>. DEFINE n == 0
            s == [j \in 1..n |-> NULL]
<1>1. /\ n \in 0..MaxBlocks /\ 1..n = {}
      /\ s \in [1..n -> Blocks] /\ Chain(s, n, NULL, next)
  BY ConstantFacts DEF Chain
<1>. HIDE DEF n, s
<1>2. IsList(NULL, next)
  BY <1>1 DEF IsList
<1>3. ListFrom(NULL, next) = {s[j] : j \in 1..n}
  BY <1>1, ChainIsListFrom
<1>. QED
  BY <1>1, <1>2, <1>3

LEMMA ListsAreBlocks ==
    ASSUME NEW k, NEW next
    PROVE  ListFrom(k, next) \subseteq Blocks
BY ListFromNth

(* ... a list without its first block, ... *)
LEMMA PopList ==
    ASSUME NEW k, NEW next, IsList(k, next), k # NULL
    PROVE  /\ k \in Blocks /\ IsList(next[k], next)
           /\ k \notin ListFrom(next[k], next)
           /\ ListFrom(k, next) = {k} \union ListFrom(next[k], next)
<1>1. PICK n \in 0..MaxBlocks : \E s \in [1..n -> Blocks] : Chain(s, n, k, next)
  BY DEF IsList
<1>2. PICK s \in [1..n -> Blocks] : Chain(s, n, k, next)
  BY <1>1
<1>. DEFINE m == n - 1
            r == [j \in 1..m |-> s[j + 1]]
<1>3. n > 0 /\ k = s[1] /\ 1 \in 1..n /\ m \in 0..MaxBlocks
  BY <1>2, ConstantFacts DEF Chain
<1>4. r \in [1..m -> Blocks]
  BY <1>3
<1>5. next[k] = IF m = 0 THEN NULL ELSE r[1]
  BY <1>2, <1>3 DEF Chain
<1>6. \A i, j \in 1..m : r[i] = r[j] => i = j
  BY <1>2, <1>3 DEF Chain
<1>7. \A j \in 1..m : next[r[j]] = IF j < m THEN r[j + 1] ELSE NULL
  BY <1>2, <1>3 DEF Chain
<1>8. \A j \in 1..m : j + 1 \in 1..n /\ r[j] = s[j + 1] /\ r[j] # k
  BY <1>2, <1>3 DEF Chain
<1>9. \A j \in 1..n : j = 1 \/ (j - 1 \in 1..m /\ s[j] = r[j - 1])
  BY <1>3
<1>. HIDE DEF m, r
<1>10. Chain(r, m, next[k], next)
  BY <1>5, <1>6, <1>7, Zenon DEF Chain
<1>11. IsList(next[k], next)
  BY <1>3, <1>4, <1>10 DEF IsList
<1>12. ListFrom(k, next) = {s[j] : j \in 1..n}
  BY <1>2, ChainIsListFrom
<1>13. ListFrom(next[k], next) = {r[j] : j \in 1..m}
  BY <1>3, <1>4, <1>10, ChainIsListFrom
<1>. QED
  BY <1>3, <1>8, <1>9, <1>11, <1>12, <1>13

(* No chain has all blocks but one and is as long as all. *)
LEMMA ChainIsShorter ==
    ASSUME NEW n \in 0..MaxBlocks, NEW s \in [1..n -> Blocks], NEW k \in Blocks,
           \A i, j \in 1..n : s[i] = s[j] => i = j,
           \A j \in 1..n : s[j] # k
    PROVE  n < MaxBlocks
<1>1. s \in Injection(1..n, Blocks \ {k})
  BY DEF Injection, IsInjective
<1>2. IsFiniteSet(Blocks) /\ Cardinality(Blocks) = MaxBlocks
  BY FS_Interval, ConstantFacts DEF Blocks
<1>3. IsFiniteSet(Blocks \ {k}) /\ Cardinality(Blocks \ {k}) = MaxBlocks - 1
  BY <1>2, FS_RemoveElement
<1>4. Cardinality(1..n) <= Cardinality(Blocks \ {k})
  BY <1>1, <1>3, FS_Injection
<1>5. Cardinality(1..n) = n
  BY FS_Interval
<1>. QED
  BY <1>3, <1>4, <1>5, ConstantFacts

(* ... with one block more, ... *)
LEMMA PushList ==
    ASSUME NEW k \in Blocks, NEW next, IsList(next[k], next),
           k \notin ListFrom(next[k], next)
    PROVE  IsList(k, next) /\ ListFrom(k, next) = {k} \union ListFrom(next[k], next)
<1>1. PICK n \in 0..MaxBlocks :
         \E s \in [1..n -> Blocks] : Chain(s, n, next[k], next)
  BY DEF IsList
<1>2. PICK s \in [1..n -> Blocks] : Chain(s, n, next[k], next)
  BY <1>1
<1>3. ListFrom(next[k], next) = {s[j] : j \in 1..n}
  BY <1>2, ChainIsListFrom
<1>4. n < MaxBlocks
  BY <1>2, <1>3, ChainIsShorter DEF Chain
<1>. DEFINE m == n + 1
            r == [j \in 1..m |-> IF j = 1 THEN k ELSE s[j - 1]]
<1>5. m \in 0..MaxBlocks /\ m # 0 /\ 1 \in 1..m
  BY <1>4, ConstantFacts
<1>6. r \in [1..m -> Blocks] /\ r[1] = k
  BY <1>5
<1>7. \A j \in 1..m : j # 1 => j - 1 \in 1..n /\ r[j] = s[j - 1]
  BY <1>5
<1>8. \A i, j \in 1..m : r[i] = r[j] => i = j
  <2>1. \A j \in 1..m : j # 1 => r[j] # k
    BY <1>3, <1>7
  <2>. QED
    BY <1>2, <1>6, <1>7, <2>1 DEF Chain
<1>9. \A j \in 1..m : next[r[j]] = IF j < m THEN r[j + 1] ELSE NULL
  <2>1. next[r[1]] = IF 1 < m THEN r[2] ELSE NULL
    BY <1>2, <1>6 DEF Chain
  <2>2. ASSUME NEW j \in 1..m, j # 1
        PROVE  next[r[j]] = IF j < m THEN r[j + 1] ELSE NULL
    BY <1>2, <1>7, <2>2 DEF Chain
  <2>. HIDE DEF m, r
  <2>3. ASSUME NEW j \in 1..m, j = 1
        PROVE  next[r[j]] = IF j < m THEN r[j + 1] ELSE NULL
    <3>1. j + 1 = 2
      BY <2>3
    <3>. QED
      BY <2>1, <2>3, <3>1
  <2>. QED
    BY <2>2, <2>3
<1>10. \A j \in 1..n : j + 1 \in 1..m /\ r[j + 1] = s[j]
  BY <1>5
<1>. HIDE DEF m, r
<1>11. Chain(r, m, k, next)
  BY <1>5, <1>6, <1>8, <1>9 DEF Chain
<1>12. ListFrom(k, next) = {r[j] : j \in 1..m}
  BY <1>5, <1>6, <1>11, ChainIsListFrom
<1>13. IsList(k, next)
  BY <1>5, <1>6, <1>11 DEF IsList
<1>. QED
  BY <1>3, <1>5, <1>6, <1>7, <1>10, <1>12, <1>13

(* ... and a list after links of other blocks have changed. *)
LEMMA KeepList ==
    ASSUME NEW k, NEW next, NEW next2, IsList(k, next),
           \A j \in ListFrom(k, next) : next2[j] = next[j]
    PROVE  IsList(k, next2) /\ ListFrom(k, next2) = ListFrom(k, next)
<1>1. PICK n \in 0..MaxBlocks : \E s \in [1..n -> Blocks] : Chain(s, n, k, next)
  BY DEF IsList
<1>2. PICK s \in [1..n -> Blocks] : Chain(s, n, k, next)
  BY <1>1
<1>3. ListFrom(k, next) = {s[j] : j \in 1..n}
  BY <1>2, ChainIsListFrom
<1>4. Chain(s, n, k, next2)
  BY <1>2, <1>3 DEF Chain
<1>. QED
  BY <1>3, <1>4, ChainIsListFrom DEF IsList

LEMMA MinOfSet ==
    ASSUME NEW S \in SUBSET Nat, S # {}
    PROVE  Min(S) \in S /\ \A n \in S : Min(S) <= n
<1>1. \E m \in S : \A n \in S : m <= n
  BY LeastNumber
<1>. QED
  BY <1>1, Zenon DEF Min

(* The blocks of a chunk from the (MaxBlocks - n)th on are chained, by     *)
(* induction on n.                                                         *)
LEMMA ChunkIsList ==
    ASSUME NEW chunk \in SUBSET Blocks, NEW next,
           \A k \in chunk : LET later == {j \in chunk : j > k}
                            IN  next[k] = IF later = {} THEN NULL ELSE Min(later)
    PROVE  chunk # {} => IsList(Min(chunk), next) /\ ListFrom(Min(chunk), next) = chunk
<1>. DEFINE From(m) == {k \in chunk : k > m}
            Start(m) == IF From(m) = {} THEN NULL ELSE Min(From(m))
            Good(n) == /\ IsList(Start(MaxBlocks - n), next)
                       /\ ListFrom(Start(MaxBlocks - n), next) = From(MaxBlocks - n)
<1>1. \A k \in chunk : next[k] = Start(k)
  OBVIOUS
<1>2. Good(0)
  <2>1. From(MaxBlocks - 0) = {}
    BY ConstantFacts
  <2>2. Start(MaxBlocks - 0) = NULL
    BY <2>1
  <2>. QED
    BY <2>1, <2>2, EmptyList
<1>3. ASSUME NEW n \in 1..MaxBlocks, Good(n - 1)
      PROVE  Good(n)
  <2>. DEFINE k == MaxBlocks - (n - 1)
              m == MaxBlocks - n
  <2>1. k \in Blocks /\ m \in Nat /\ k = m + 1
    BY ConstantFacts DEF Blocks
  <2>2. IsList(Start(k), next) /\ ListFrom(Start(k), next) = From(k)
    BY <1>3
  <2>3. SUFFICES IsList(Start(m), next) /\ ListFrom(Start(m), next) = From(m)
    OBVIOUS
  <2>. HIDE DEF k, m, Good
  <2>4. From(m) = From(k) \union ({k} \intersect chunk)
    <3>1. \A j \in chunk : j > m <=> (j > k \/ j = k)
      BY <2>1, ConstantFacts
    <3>. QED
      BY <3>1
  <2>5. CASE k \notin chunk
    <3>1. From(m) = From(k)
      BY <2>4, <2>5
    <3>. QED
      BY <2>2, <3>1
  <2>6. CASE k \in chunk
    <3>1. From(m) = {k} \union From(k) /\ From(m) \in SUBSET Nat /\ From(m) # {}
      BY <2>4, <2>6, ConstantFacts
    <3>2. Start(m) = k
      <4>1. Min(From(m)) \in From(m) /\ \A j \in From(m) : Min(From(m)) <= j
        BY <3>1, MinOfSet
      <4>2. k \in From(m) /\ \A j \in From(m) : j >= k /\ j \in Nat
        BY <2>1, <2>6, ConstantFacts
      <4>3. Min(From(m)) = k
        <5>. DEFINE x == Min(From(m))
        <5>. HIDE DEF From, x
        <5>1. x \in From(m) /\ \A j \in From(m) : x <= j
          BY <4>1 DEF x
        <5>2. x >= k /\ x <= k /\ x \in Nat /\ k \in Nat
          BY <2>1, <4>2, <5>1
        <5>. QED
          BY <5>2 DEF x
      <4>. QED
        BY <3>1, <4>3
    <3>3. next[k] = Start(k)
      BY <1>1, <2>6
    <3>4. k \notin From(k)
      BY <2>1, ConstantFacts
    <3>. HIDE DEF From, Start
    <3>. QED
      BY <2>1, <2>2, <3>1, <3>2, <3>3, <3>4, PushList
  <2>. QED
    BY <2>5, <2>6
<1>4. \A n \in 0..MaxBlocks : Good(n)
  <2>. DEFINE Bad == {n \in 0..MaxBlocks : ~Good(n)}
  <2>. HIDE DEF Good
  <2>1. SUFFICES ASSUME Bad # {} PROVE FALSE
    OBVIOUS
  <2>2. PICK n \in Bad : \A i \in Bad : n <= i
    <3>1. Bad \in SUBSET Nat
      BY ConstantFacts
    <3>. HIDE DEF Bad
    <3>. QED
      BY <2>1, <3>1, LeastNumber
  <2>3. n # 0 /\ n \in 1..MaxBlocks /\ n - 1 \in 0..MaxBlocks
    BY <1>2, <2>2, ConstantFacts
  <2>4. Good(n - 1)
    BY <2>2, <2>3, ConstantFacts
  <2>. QED
    BY <1>3, <2>2, <2>3, <2>4
<1>5. From(0) = chunk
  BY ConstantFacts
<1>6. Good(MaxBlocks) /\ MaxBlocks - MaxBlocks = 0
  <2>1. MaxBlocks \in 0..MaxBlocks /\ MaxBlocks - MaxBlocks = 0
    BY ConstantFacts
  <2>. HIDE DEF Good
  <2>. QED
    BY <1>4, <2>1
<1>. QED
  BY <1>5, <1>6

LEMMA SubsetOfSize ==
    ASSUME NEW S, IsFiniteSet(S), NEW n \in Nat, n <= Cardinality(S)
    PROVE  \E T \in SUBSET S : Cardinality(T) = n
<1>1. Cardinality(S) \in Nat /\ ExistsBijection(1..Cardinality(S), S)
  BY FS_CardinalityType
<1>2. PICK f \in [1..Cardinality(S) -> S] :
         \A i, j \in 1..Cardinality(S) : f[i] = f[j] => i = j
  BY <1>1 DEF ExistsBijection, Bijection, Injection, IsInjective
<1>. DEFINE T == {f[i] : i \in 1..n}
            g == [i \in 1..n |-> f[i]]
<1>3. \A i \in 1..n : i \in 1..Cardinality(S)
  BY <1>1
<1>4. g \in Bijection(1..n, T)
  BY <1>2, <1>3 DEF Bijection, Injection, Surjection, IsInjective
<1>5. IsFiniteSet(1..n) /\ Cardinality(1..n) = n
  BY FS_Interval
<1>6. ExistsBijection(1..n, T)
  BY <1>4 DEF ExistsBijection
<1>. HIDE DEF T
<1>7. Cardinality(T) = n
  BY <1>5, <1>6, FS_Bijection
<1>8. T \in SUBSET S
  BY <1>2, <1>3 DEF T
<1>. QED
  BY <1>7, <1>8

LEMMA BlocksAreFinite ==
    ASSUME NEW S \in SUBSET Blocks
    PROVE  IsFiniteSet(S) /\ Cardinality(S) \in Nat
<1>1. IsFiniteSet(Blocks)
  BY FS_Interval, ConstantFacts DEF Blocks
<1>. QED
  BY <1>1, FS_Subset, FS_CardinalityType

(* What malloc gives to a refill. *)
LEMMA ChunkFacts ==
    ASSUME Cardinality(Unmapped) >= ChunkNode
    PROVE  /\ Chunk \subseteq Unmapped /\ Chunk \subseteq Blocks
           /\ Min(Chunk) \in Chunk
           /\ Cardinality(Unmapped \ Chunk) = Cardinality(Unmapped) - ChunkNode
<1>1. Unmapped \in SUBSET Blocks
  BY DEF Unmapped
<1>2. IsFiniteSet(Unmapped)
  BY <1>1, BlocksAreFinite
<1>3. \E T \in SUBSET Unmapped : Cardinality(T) = ChunkNode
  BY <1>2, SubsetOfSize, ConstantFacts
<1>4. Chunk \in SUBSET Unmapped /\ Cardinality(Chunk) = ChunkNode
  <2>1. Chunk \in kSubset(ChunkNode, Unmapped)
    BY <1>3 DEF Chunk, kSubset
  <2>. QED
    BY <2>1 DEF kSubset
<1>5. Chunk # {}
  BY <1>4, FS_EmptySet, ConstantFacts
<1>6. Chunk \in SUBSET Nat
  BY <1>1, <1>4, ConstantFacts
<1>7. Min(Chunk) \in Chunk
  BY <1>5, <1>6, MinOfSet
<1>8. Unmapped \intersect Chunk = Chunk
  BY <1>4
<1>9. Cardinality(Unmapped \ Chunk) = Cardinality(Unmapped) - Cardinality(Chunk)
  BY <1>2, <1>8, FS_Difference
<1>. QED
  BY <1>1, <1>4, <1>7, <1>9

(* init comes back to the first list after the last one. *)
LEMMA DivisionIsUnique ==
    ASSUME NEW p \in Int, NEW q \in Int, NEW r \in Nat, NEW s \in Nat,
           r < Lists, s < Lists, Lists * p + r = Lists * q + s
    PROVE  r = s
<1>1. Lists \in Nat /\ Lists > 0
  BY ConstantFacts
<1>2. Lists * (p - q) = s - r
  BY <1>1
<1>3. CASE p = q
  BY <1>1, <1>3
<1>4. CASE p > q
  <2>1. Lists * (p - q) >= Lists
    BY <1>1, <1>4
  <2>. QED
    BY <1>1, <1>2, <2>1
<1>5. CASE p < q
  <2>1. Lists * (q - p) >= Lists
    BY <1>1, <1>5
  <2>2. Lists * (q - p) = r - s
    BY <1>1
  <2>. QED
    BY <1>1, <2>1, <2>2
<1>. QED
  BY <1>3, <1>4, <1>5

LEMMA NextRemainder ==
    ASSUME NEW n \in Nat
    PROVE  /\ n % Lists \in 0..Lists - 1
           /\ (n + 1) % Lists = IF n % Lists = Lists - 1 THEN 0 ELSE (n % Lists) + 1
<1>1. Lists \in Nat /\ Lists > 0
  BY ConstantFacts
<1>2. \A m \in Nat : /\ m % Lists \in 0..Lists - 1 /\ m \div Lists \in Int
                     /\ m = Lists * (m \div Lists) + (m % Lists)
  BY <1>1
<1>. DEFINE r == n % Lists
            q == n \div Lists
            s == (n + 1) % Lists
            p == (n + 1) \div Lists
<1>3. /\ r \in 0..Lists - 1 /\ q \in Int /\ n = Lists * q + r
      /\ s \in 0..Lists - 1 /\ p \in Int /\ n + 1 = Lists * p + s
  BY <1>2
<1>. HIDE DEF r, q, s, p
<1>4. CASE r = Lists - 1
  <2>1. Lists * (q + 1) + 0 = n + 1
    BY <1>1, <1>3, <1>4
  <2>2. 0 = s
    BY <1>1, <1>3, <2>1, DivisionIsUnique
  <2>. QED
    BY <1>3, <1>4, <2>2 DEF r, s
<1>5. CASE r # Lists - 1
  <2>1. Lists * q + (r + 1) = n + 1 /\ r + 1 < Lists /\ r + 1 \in Nat
    BY <1>1, <1>3, <1>5
  <2>2. r + 1 = s
    BY <1>1, <1>3, <2>1, DivisionIsUnique
  <2>. QED
    BY <1>3, <1>5, <2>2 DEF r, s
<1>. QED
  BY <1>4, <1>5
-----------------------------------------------------------------------------
LEMMA FreeAreBlocks == \A i \in Indices : FreeOn(i) \subseteq Blocks
BY ListsAreBlocks DEF FreeOn

(* A list is the same as long as nobody writes to its head and its blocks. *)
LEMMA ListIsKept ==
    ASSUME ListsEnd, NEW i \in Indices, head'[i] = head[i],
           \A k \in FreeOn(i) : link'[k] = link[k]
    PROVE  IsList(head[i], link)' /\ FreeOn(i)' = FreeOn(i)
<1>1. IsList(head[i], link)
  BY DEF ListsEnd
<1>2. IsList(head[i], link') /\ ListFrom(head[i], link') = ListFrom(head[i], link)
  BY <1>1, KeepList DEF FreeOn
<1>. QED
  BY <1>2 DEF FreeOn

(* Steps that move no block. *)
LEMMA NothingMoves ==
    ASSUME IInv, UNCHANGED <<size, head, cache, block, dropped>>,
           \A i \in Indices : \A k \in FreeOn(i) : link'[k] = link[k]
    PROVE  /\ \A i \in Indices : FreeOn(i)' = FreeOn(i)
           /\ ListsEnd' /\ OnePlace' /\ Unmapped' = Unmapped
<1>. USE DEF IInv
<1>1. \A i \in Indices : IsList(head[i], link)' /\ FreeOn(i)' = FreeOn(i)
  BY ListIsKept
<1>2. ListsEnd'
  BY <1>1 DEF ListsEnd
<1>3. OnePlace'
  BY <1>1 DEF OnePlace, HasBuffer, HasThread, HasList
<1>. QED
  BY <1>1, <1>2, <1>3 DEF Unmapped

(* Who waits for memory. *)
LEMMA WaitingIsFinite ==
    ASSUME IInv
    PROVE  /\ IsFiniteSet(Waiting) /\ Cardinality(Waiting) \in Nat
           /\ IsFiniteSet(Unmapped) /\ Cardinality(Unmapped) \in Nat
<1>1. Waiting \in SUBSET Threads /\ Unmapped \in SUBSET Blocks
  BY DEF Waiting, Unmapped
<1>. QED
  BY <1>1, BlocksAreFinite, FS_Subset, FS_CardinalityType, MemCacheAssumption

LEMMA Reserved ==
    ASSUME NEW m \in Nat, NEW u \in Nat, NEW w \in Nat,
           u >= ChunkNode * w, w > 0, m <= ChunkNode
    PROVE  /\ u - m >= ChunkNode * (w - 1) /\ u >= ChunkNode
<1>1. ChunkNode * w = ChunkNode * (w - 1) + ChunkNode
  BY ConstantFacts
<1>2. ChunkNode * (w - 1) >= 0
  BY ConstantFacts
<1>. QED
  BY <1>1, <1>2, ConstantFacts

(* A thread that waits for memory gets it and waits no more. *)
LEMMA OneIsServed ==
    ASSUME IInv, NEW t \in Threads, pc[t] \in {"allocate", "take"},
           pc' = [pc EXCEPT ![t] = "deallocate"], inits' = inits,
           NEW m \in Nat, m <= ChunkNode,
           Cardinality(Unmapped') = Cardinality(Unmapped) - m
    PROVE  MemoryReserved' /\ Cardinality(Unmapped) >= ChunkNode
<1>. USE DEF IInv
<1>1. inits % Lists = 0
  BY DEF MemoryReserved
<1>2. Waiting' = Waiting \ {t} /\ t \in Waiting
  BY DEF Waiting, TypeOK
<1>3. Cardinality(Waiting') = Cardinality(Waiting) - 1 /\ Cardinality(Waiting) > 0
  <2>1. Cardinality(Waiting') = Cardinality(Waiting) - 1
    BY <1>2, WaitingIsFinite, FS_RemoveElement
  <2>2. Cardinality(Waiting) # 0
    BY <1>2, WaitingIsFinite, FS_EmptySet
  <2>. QED
    BY <2>1, <2>2, WaitingIsFinite
<1>4. Cardinality(Unmapped) >= ChunkNode * Cardinality(Waiting)
  BY DEF MemoryReserved
<1>5. /\ Cardinality(Unmapped) - m >= ChunkNode * (Cardinality(Waiting) - 1)
      /\ Cardinality(Unmapped) >= ChunkNode
  BY <1>3, <1>4, WaitingIsFinite, Reserved
<1>. QED
  BY <1>1, <1>3, <1>5 DEF MemoryReserved

(* Others wait or not as before, and no memory is lost. *)
LEMMA NobodyIsServed ==
    ASSUME IInv, Waiting' = Waiting, inits' = inits, inits % Lists = 0,
           Unmapped \subseteq Unmapped', Unmapped' \subseteq Blocks
    PROVE  MemoryReserved'
<1>. USE DEF IInv
<1>1. IsFiniteSet(Unmapped') /\ Cardinality(Unmapped') \in Nat
  BY BlocksAreFinite
<1>2. Cardinality(Unmapped) <= Cardinality(Unmapped')
  BY <1>1, FS_Subset
<1>3. ChunkNode * Cardinality(Waiting) \in Nat
  BY WaitingIsFinite, ConstantFacts
<1>. QED
  BY <1>1, <1>2, <1>3, WaitingIsFinite DEF MemoryReserved
-----------------------------------------------------------------------------
LEMMA InitIInv == Init => IInv
<1>. SUFFICES ASSUME Init PROVE IInv
  OBVIOUS
<1>. USE DEF Init
<1>0. 0 \in 0..MaxUnits /\ 0 \in Nat
  BY ConstantFacts
<1>1. TypeOK /\ CallTypes
  BY <1>0 DEF TypeOK, CallTypes
<1>2. CallsInPlace
  BY ConstantFacts DEF CallsInPlace, Place
<1>3. \A i \in Indices : IsList(head[i], link) /\ FreeOn(i) = {}
  BY EmptyList DEF FreeOn
<1>4. ListsEnd
  BY <1>3 DEF ListsEnd
<1>5. SizesFit
  BY <1>3 DEF SizesFit
<1>6. OnePlace
  BY <1>3, ConstantFacts DEF OnePlace, HasBuffer, HasThread, HasList
<1>7. MemoryReserved
  <2>1. Waiting = {} /\ Cardinality(Waiting) = 0
    BY FS_EmptySet DEF Waiting
  <2>2. Cardinality(Unmapped) \in Nat
    BY BlocksAreFinite DEF Unmapped
  <2>3. 0 % Lists = 0
    BY ConstantFacts
  <2>. QED
    BY <2>1, <2>2, <2>3, ConstantFacts DEF MemoryReserved
<1>. QED
  BY <1>1, <1>2, <1>4, <1>5, <1>6, <1>7 DEF IInv

(* An operation begins: what it asks for is what it will write to allo_len,*)
(* or is too much for it after a copy.                                     *)
LEMMA BeginStep ==
    ASSUME IInv, NEW t \in Threads, NEW b \in Buffers,
           NEW n \in 0..MaxUnits, NEW r \in 0..MaxUnits, Begin(t, b, n, r),
           n > 0 => r \in 1..n /\ (copied' \/ r = n),
           copied' \in BOOLEAN, copied => copied'
    PROVE  IInv'
<1>. USE DEF IInv
<1>1. /\ UNCHANGED <<size, link, head, mutex, cache, allo, block, first, dropped, inits>>
      /\ pc[t] = "idle" /\ inits % Lists = 0 /\ \A u \in Threads : buffer[u] # b
      /\ buffer' = [buffer EXCEPT ![t] = b]
      /\ units' = [units EXCEPT ![t] = n]
      /\ alloLen' = [alloLen EXCEPT ![t] = r]
      /\ pc' = [pc EXCEPT ![t] = IF n > 0 THEN "allocate" ELSE "deallocate"]
      /\ b # NULL /\ buffer[t] = NULL /\ block[t] = NULL
  BY MemCacheAssumption DEF Begin, Goto, memory, buffers, CallsInPlace, Place
<1>2. TypeOK' /\ CallTypes'
  BY <1>1 DEF TypeOK, CallTypes
<1>3. CallsInPlace'
  <2>1. Place(t)'
    BY <1>1, ConstantFacts DEF Place, TypeOK, CallTypes
  <2>2. ASSUME NEW u \in Threads, u # t PROVE Place(u)'
    BY <1>1, <2>2 DEF Place, TypeOK, CallTypes, CallsInPlace, Old, OldUnits
  <2>3. \A u, v \in Threads : buffer'[u] = buffer'[v] /\ buffer'[u] # NULL => u = v
    BY <1>1 DEF CallsInPlace, TypeOK
  <2>. QED
    BY <2>1, <2>2, <2>3 DEF CallsInPlace
<1>4. /\ \A i \in Indices : FreeOn(i)' = FreeOn(i)
      /\ ListsEnd' /\ OnePlace' /\ Unmapped' = Unmapped
  BY <1>1, NothingMoves
<1>5. SizesFit'
  BY <1>1, <1>4 DEF SizesFit, Fits, CallTypes
<1>6. MemoryReserved'
  <2>1. CASE n = 0
    <3>1. Waiting' = Waiting
      BY <1>1, <2>1 DEF Waiting, TypeOK
    <3>2. Unmapped \subseteq Unmapped' /\ Unmapped' \subseteq Blocks
      BY <1>4 DEF Unmapped
    <3>. QED
      BY <1>1, <3>1, <3>2, NobodyIsServed
  <2>2. CASE n > 0
    <3>. DEFINE asking == {u \in Threads : units[u] > 0}
    <3>1. Cardinality(Unmapped) >= ChunkNode * (1 + Cardinality(asking))
      BY <2>2 DEF Begin, MemoryLeft
    <3>2. IsFiniteSet(asking) /\ Cardinality(asking) \in Nat
      BY FS_Subset, FS_CardinalityType, MemCacheAssumption
    <3>3. Waiting' \subseteq asking \union {t}
      BY <1>1 DEF Waiting, TypeOK, CallsInPlace, Place
    <3>. HIDE DEF asking
    <3>4. /\ IsFiniteSet(asking \union {t})
          /\ Cardinality(asking \union {t}) <= 1 + Cardinality(asking)
      <4>1. /\ IsFiniteSet(asking \union {t})
            /\ Cardinality(asking \union {t})
                  = IF t \in asking THEN Cardinality(asking) ELSE Cardinality(asking) + 1
        BY <3>2, FS_AddElement
      <4>. QED
        BY <3>2, <4>1
    <3>5. Cardinality(Waiting') \in Nat /\ Cardinality(Waiting') <= 1 + Cardinality(asking)
      <4>1. Cardinality(asking \union {t}) \in Nat
        BY <3>4, FS_CardinalityType
      <4>2. Waiting' \in SUBSET (asking \union {t})
        BY <3>3
      <4>3. IsFiniteSet(Waiting') /\ Cardinality(Waiting') <= Cardinality(asking \union {t})
        BY <3>4, <4>2, FS_Subset
      <4>4. Cardinality(Waiting') \in Nat
        BY <4>3, FS_CardinalityType
      <4>. QED
        BY <3>2, <3>4, <4>1, <4>3, <4>4
    <3>6. ChunkNode * Cardinality(Waiting') <= ChunkNode * (1 + Cardinality(asking))
      BY <3>2, <3>5, ConstantFacts
    <3>7. /\ ChunkNode * Cardinality(Waiting') \in Nat
          /\ ChunkNode * (1 + Cardinality(asking)) \in Nat
      BY <3>2, <3>5, ConstantFacts
    <3>. QED
      BY <1>1, <1>4, <3>1, <3>6, <3>7, WaitingIsFinite DEF MemoryReserved
  <2>. QED
    BY <2>1, <2>2
<1>. QED
  BY <1>2, <1>3, <1>4, <1>5, <1>6

LEMMA BeginsStep ==
    ASSUME IInv, NEW t \in Threads, NEW b \in Buffers,
           \/ BufferInit(t, b) \/ Clear(t, b) \/ FreshCache(t, b)
           \/ \E c \in Buffers : Assign(t, b, c)
    PROVE  IInv'
<1>. USE DEF IInv
<1>1. CASE BufferInit(t, b)
  <2>1. PICK n \in 1..MaxUnits : Begin(t, b, n, n)
    BY <1>1 DEF BufferInit
  <2>2. copied' = copied /\ copied \in BOOLEAN
    BY <1>1 DEF BufferInit, CallTypes
  <2>. QED
    BY <2>1, <2>2, BeginStep, ConstantFacts
<1>2. CASE Clear(t, b)
  <2>1. Begin(t, b, 0, 0) /\ copied' = copied /\ copied \in BOOLEAN
    BY <1>2 DEF Clear, CallTypes
  <2>. QED
    BY <2>1, BeginStep, ConstantFacts
<1>3. CASE FreshCache(t, b)
  <2>1. PICK n \in 2 * allo[b] + 1 .. MaxUnits : Begin(t, b, n, n)
    BY <1>3 DEF FreshCache
  <2>2. copied' = copied /\ copied \in BOOLEAN
    BY <1>3 DEF FreshCache, CallTypes
  <2>3. n \in 1..MaxUnits
    BY ConstantFacts DEF TypeOK
  <2>. QED
    BY <2>1, <2>2, <2>3, BeginStep, ConstantFacts
<1>4. ASSUME NEW c \in Buffers, Assign(t, b, c) PROVE IInv'
  <2>1. /\ cache[c] # NULL /\ copied' = TRUE
        /\ Begin(t, b, allo[c] + 1, allo[c])
    BY <1>4 DEF Assign
  <2>2. allo[c] \in Nat /\ allo[c] > 0
    BY <2>1 DEF SizesFit, Fits, TypeOK
  <2>3. allo[c] + 1 <= MaxUnits
    BY <2>1 DEF Begin
  <2>4. allo[c] + 1 \in 0..MaxUnits /\ allo[c] \in 0..MaxUnits /\ allo[c] \in 1..allo[c] + 1
    BY <2>2, <2>3, ConstantFacts
  <2>. QED
    BY <2>1, <2>4, BeginStep
<1>. QED
  BY <1>1, <1>2, <1>3, <1>4
-----------------------------------------------------------------------------
LEMMA PooledIndex ==
    ASSUME NEW n \in Nat, n > 0, Pooled(n)
    PROVE  n \in Indices
BY ConstantFacts DEF Pooled, Indices

(* allocate reads the head of a list: only the mutex changes hands. *)
LEMMA ReadHeadStep ==
    ASSUME IInv, NEW t \in Threads, ReadHead(t)
    PROVE  IInv'
<1>. USE DEF IInv
<1>1. /\ UNCHANGED <<size, link, head, cache, allo, buffer, block, units, alloLen,
                     dropped, inits, copied>>
      /\ pc[t] = "allocate" /\ pc' = [pc EXCEPT ![t] = "take"]
      /\ Pooled(units[t]) /\ mutex[units[t]] = NULL
      /\ mutex' = [mutex EXCEPT ![units[t]] = t]
      /\ first' = [first EXCEPT ![t] = head[units[t]]]
  BY DEF ReadHead, Lock, Goto, memory, buffers, history
<1>2. units[t] \in Indices /\ NULL \notin Threads
  BY <1>1, PooledIndex, MemCacheAssumption DEF CallsInPlace, Place, CallTypes
<1>3. TypeOK' /\ CallTypes'
  BY <1>1, <1>2 DEF TypeOK, CallTypes
<1>4. CallsInPlace'
  <2>1. Place(t)'
    BY <1>1, <1>2 DEF Place, CallsInPlace, TypeOK, Old, OldUnits
  <2>2. ASSUME NEW u \in Threads, u # t PROVE Place(u)'
    <3>1. Place(u) /\ pc'[u] = pc[u] /\ first'[u] = first[u]
      BY <1>1, <2>2 DEF CallsInPlace, TypeOK
    <3>2. \A i \in Indices : mutex[i] = u => mutex'[i] = u
      BY <1>1, <1>2 DEF TypeOK
    <3>3. pc[u] = "take" => units[u] \in Indices
      BY <3>1, PooledIndex DEF Place, CallTypes
    <3>4. pc[u] = "give" => OldUnits(u) \in Indices
      BY <3>1, PooledIndex DEF Place, Old, OldUnits, SizesFit, Fits, TypeOK
    <3>5. Old(u)' = Old(u) /\ OldUnits(u)' = OldUnits(u)
      BY <1>1 DEF Old, OldUnits
    <3>. QED
      BY <1>1, <3>1, <3>2, <3>3, <3>4, <3>5 DEF Place
  <2>. QED
    BY <1>1, <2>1, <2>2 DEF CallsInPlace
<1>5. /\ \A i \in Indices : FreeOn(i)' = FreeOn(i)
      /\ ListsEnd' /\ OnePlace' /\ Unmapped' = Unmapped
  BY <1>1, NothingMoves
<1>6. SizesFit'
  BY <1>1, <1>5 DEF SizesFit, Fits
<1>7. MemoryReserved'
  <2>1. Waiting' = Waiting
    BY <1>1 DEF Waiting, TypeOK
  <2>2. inits % Lists = 0
    BY <1>1 DEF MemoryReserved
  <2>. QED
    BY <1>1, <1>5, <2>1, <2>2, NobodyIsServed DEF Unmapped
<1>. QED
  BY <1>3, <1>4, <1>5, <1>6, <1>7

(* What a thread needs to keep its place while others work. *)
LEMMA OthersInPlace ==
    ASSUME IInv, NEW u \in Threads,
           UNCHANGED <<pc[u], buffer[u], block[u], units[u], alloLen[u], first[u], copied>>,
           buffer[u] # NULL => UNCHANGED <<cache[buffer[u]], allo[buffer[u]]>>,
           \A i \in Indices : mutex[i] = u => mutex'[i] = u /\ head'[i] = head[i],
           pc[u] = "give" => link'[Old(u)] = link[Old(u)]
    PROVE  Place(u)'
<1>. USE DEF IInv
<1>1. Place(u)
  BY DEF CallsInPlace
<1>2. pc[u] = "take" => units[u] \in Indices
  BY <1>1, PooledIndex DEF Place, CallTypes
<1>3. pc[u] = "give" => OldUnits(u) \in Indices /\ buffer[u] # NULL
  BY <1>1, PooledIndex DEF Place, Old, OldUnits, SizesFit, Fits, TypeOK
<1>4. pc[u] = "give" => Old(u)' = Old(u) /\ OldUnits(u)' = OldUnits(u)
  BY <1>3 DEF Old, OldUnits
<1>. QED
  BY <1>1, <1>2, <1>3, <1>4 DEF Place

(* malloc hands out a block that nobody has. *)
LEMMA MallocStep ==
    ASSUME IInv, NEW t \in Threads, Malloc(t)
    PROVE  IInv'
<1>. USE DEF IInv
<1>. DEFINE k == Min(Unmapped)
<1>1. /\ UNCHANGED <<link, head, mutex, cache, allo, buffer, units, alloLen, first,
                     dropped, inits, copied>>
      /\ pc[t] = "allocate" /\ pc' = [pc EXCEPT ![t] = "deallocate"]
      /\ size' = [size EXCEPT ![k] = units[t]]
      /\ block' = [block EXCEPT ![t] = k]
  BY DEF Malloc, Allocated, Goto, buffers, history
<1>2. Cardinality(Unmapped) >= ChunkNode
  <2>1. t \in Waiting
    BY <1>1 DEF Waiting
  <2>2. Cardinality(Waiting) # 0
    BY <2>1, WaitingIsFinite, FS_EmptySet
  <2>. QED
    BY <2>2, WaitingIsFinite, Reserved, ConstantFacts DEF MemoryReserved
<1>3. k \in Unmapped
  <2>1. Unmapped # {} /\ Unmapped \in SUBSET Nat
    BY <1>2, FS_EmptySet, ConstantFacts DEF Unmapped
  <2>. QED
    BY <2>1, MinOfSet
<1>. HIDE DEF k
<1>4. k \in Blocks /\ size[k] = 0
  BY <1>3 DEF Unmapped
<1>5. /\ units[t] \in 0..MaxUnits /\ units[t] > 0 /\ inits % Lists = 0
      /\ alloLen[t] \in 1..units[t] /\ (copied \/ alloLen[t] = units[t])
      /\ block[t] = NULL
  BY <1>1 DEF CallsInPlace, Place, CallTypes, MemoryReserved
<1>6. ~HasBuffer(k) /\ ~HasThread(k) /\ ~HasList(k) /\ k \notin dropped
  BY <1>4 DEF OnePlace
<1>7. TypeOK' /\ CallTypes'
  BY <1>1, <1>4, <1>5 DEF TypeOK, CallTypes
<1>8. CallsInPlace'
  <2>1. Place(t)'
    BY <1>1, <1>5 DEF Place, CallsInPlace, TypeOK
  <2>2. ASSUME NEW u \in Threads, u # t PROVE Place(u)'
    BY <1>1, <2>2, OthersInPlace DEF TypeOK, CallTypes
  <2>. QED
    BY <1>1, <2>1, <2>2 DEF CallsInPlace
<1>9. \A i \in Indices : IsList(head[i], link)' /\ FreeOn(i)' = FreeOn(i)
  BY <1>1, ListIsKept
<1>10. SizesFit'
  <2>1. \A j \in Blocks : j # k => size'[j] = size[j]
    BY <1>1, <1>4 DEF TypeOK
  <2>2. \A b \in Buffers : cache'[b] # NULL => Fits(allo[b], cache[b])'
    BY <1>1, <1>6, <2>1 DEF SizesFit, Fits, HasBuffer, TypeOK
  <2>3. \A u \in Threads : block'[u] # NULL => Fits(alloLen[u], block[u])'
    <3>1. ASSUME NEW u \in Threads, u # t, block'[u] # NULL
          PROVE  Fits(alloLen[u], block[u])'
      BY <1>1, <1>6, <2>1, <3>1 DEF SizesFit, Fits, HasThread, CallTypes
    <3>2. Fits(alloLen[t], block[t])'
      BY <1>1, <1>4, <1>5 DEF Fits, TypeOK, CallTypes
    <3>. QED
      BY <3>1, <3>2
  <2>4. \A i \in Indices : \A j \in FreeOn(i)' : Fits(i, j)'
    <3>1. \A i \in Indices : \A j \in FreeOn(i) : j # k /\ j \in Blocks
      BY <1>6, FreeAreBlocks DEF HasList
    <3>. QED
      BY <1>1, <1>9, <2>1, <3>1 DEF SizesFit, Fits
  <2>. QED
    BY <2>2, <2>3, <2>4 DEF SizesFit
<1>11. OnePlace'
  <2>1. \A j \in Blocks : size'[j] > 0 <=> size[j] > 0 \/ j = k
    BY <1>1, <1>4, <1>5 DEF TypeOK
  <2>2. \A j \in Blocks : /\ HasBuffer(j)' <=> HasBuffer(j)
                          /\ HasThread(j)' <=> HasThread(j) \/ j = k
                          /\ HasList(j)' <=> HasList(j)
    BY <1>1, <1>5, <1>9, ConstantFacts DEF HasBuffer, HasThread, HasList, CallTypes
  <2>3. \A u, v \in Threads : block'[u] = block'[v] /\ block'[u] # NULL => u = v
    BY <1>1, <1>6 DEF OnePlace, HasThread, CallTypes
  <2>. QED
    BY <1>1, <1>6, <1>9, <2>1, <2>2, <2>3 DEF OnePlace
<1>12. MemoryReserved'
  <2>1. Unmapped' = Unmapped \ {k}
    BY <1>1, <1>4, <1>5 DEF Unmapped, TypeOK
  <2>2. Cardinality(Unmapped') = Cardinality(Unmapped) - 1
    BY <1>3, <2>1, WaitingIsFinite, FS_RemoveElement
  <2>3. 1 \in Nat /\ 1 <= ChunkNode /\ pc[t] \in {"allocate", "take"}
    BY <1>1, ConstantFacts
  <2>. QED
    BY <1>1, <2>2, <2>3, OneIsServed
<1>13. ListsEnd'
  BY <1>9 DEF ListsEnd
<1>. QED
  BY <1>7, <1>8, <1>10, <1>11, <1>12, <1>13

(* The first block leaves the list and belongs to the thread. *)
LEMMA TakeStep ==
    ASSUME IInv, NEW t \in Threads, Take(t)
    PROVE  IInv'
<1>. USE DEF IInv
<1>. SUFFICES ASSUME NEW i, NEW k, i = units[t], k = first[t]
              PROVE  IInv'
  OBVIOUS
<1>1. /\ UNCHANGED <<size, link, cache, allo, buffer, units, alloLen,
                     dropped, inits, copied>>
      /\ pc[t] = "take" /\ pc' = [pc EXCEPT ![t] = "deallocate"]
      /\ head' = [head EXCEPT ![i] = link[k]]
      /\ block' = [block EXCEPT ![t] = k]
      /\ first' = [first EXCEPT ![t] = NULL]
      /\ mutex' = [mutex EXCEPT ![i] = NULL]
  BY DEF Take, Allocated, Unlock, Goto, buffers, history
<1>2. /\ i \in Indices /\ mutex[i] = t /\ k = head[i] /\ k # NULL /\ inits % Lists = 0
      /\ alloLen[t] \in 1..i /\ (copied \/ alloLen[t] = i) /\ block[t] = NULL
  BY <1>1, PooledIndex DEF Take, CallsInPlace, Place, CallTypes, MemoryReserved
<1>3. /\ k \in Blocks /\ IsList(link[k], link)
      /\ k \notin ListFrom(link[k], link)
      /\ FreeOn(i) = {k} \union ListFrom(link[k], link)
  BY <1>2, PopList DEF ListsEnd, FreeOn
<1>4. head'[i] = link[k] /\ \A j \in Indices : j # i => head'[j] = head[j]
  BY <1>1, <1>2 DEF TypeOK
<1>5. /\ IsList(head[i], link)' /\ FreeOn(i)' = FreeOn(i) \ {k} /\ k \in FreeOn(i)
  BY <1>1, <1>3, <1>4 DEF FreeOn
<1>6. \A j \in Indices : j # i => IsList(head[j], link)' /\ FreeOn(j)' = FreeOn(j)
  BY <1>1, <1>4, ListIsKept
<1>7. /\ ~HasBuffer(k) /\ ~HasThread(k) /\ HasList(k) /\ k \notin dropped
      /\ \A j \in Indices : j # i => k \notin FreeOn(j)
      /\ size[k] > 0 /\ Fits(i, k)
  BY <1>2, <1>3, <1>5 DEF OnePlace, HasList, SizesFit
<1>8. TypeOK' /\ CallTypes'
  <2>1. link[k] \in Blocks \union {NULL}
    BY <1>3, PopList
  <2>. QED
    BY <1>1, <1>2, <1>3, <2>1 DEF TypeOK, CallTypes
<1>9. CallsInPlace'
  <2>1. Place(t)'
    BY <1>1, <1>2 DEF Place, CallsInPlace, TypeOK
  <2>2. ASSUME NEW u \in Threads, u # t PROVE Place(u)'
    <3>1. \A j \in Indices : mutex[j] = u => mutex'[j] = u /\ head'[j] = head[j]
      BY <1>1, <1>2, <1>4, <2>2 DEF TypeOK
    <3>. QED
      BY <1>1, <2>2, <3>1, OthersInPlace DEF TypeOK, CallTypes
  <2>. QED
    BY <1>1, <2>1, <2>2 DEF CallsInPlace
<1>10. SizesFit'
  <2>1. \A u \in Threads : block'[u] # NULL => Fits(alloLen[u], block[u])'
    <3>1. ASSUME NEW u \in Threads, u # t, block'[u] # NULL
          PROVE  Fits(alloLen[u], block[u])'
      BY <1>1, <3>1 DEF SizesFit, Fits, CallTypes
    <3>2. Fits(alloLen[t], block[t])'
      BY <1>1, <1>2, <1>3, <1>7 DEF Fits, TypeOK, CallTypes
    <3>. QED
      BY <3>1, <3>2
  <2>2. \A j \in Indices : \A b \in FreeOn(j)' : b \in FreeOn(j)
    BY <1>5, <1>6
  <2>. QED
    BY <1>1, <2>1, <2>2 DEF SizesFit, Fits
<1>11. OnePlace'
  <2>1. \A j \in Blocks : /\ HasBuffer(j)' <=> HasBuffer(j)
                          /\ HasThread(j)' <=> HasThread(j) \/ j = k
    BY <1>1, <1>2, ConstantFacts DEF HasBuffer, HasThread, CallTypes
  <2>2. \A j \in Blocks : HasList(j)' <=> HasList(j) /\ j # k
    BY <1>2, <1>5, <1>6, <1>7 DEF HasList
  <2>3. \A u, v \in Threads : block'[u] = block'[v] /\ block'[u] # NULL => u = v
    BY <1>1, <1>7 DEF OnePlace, HasThread, CallTypes
  <2>4. \A j, l \in Indices : \A b \in FreeOn(j)' : b \in FreeOn(l)' => j = l
    BY <1>5, <1>6 DEF OnePlace
  <2>. QED
    BY <1>1, <1>7, <2>1, <2>2, <2>3, <2>4 DEF OnePlace
<1>12. MemoryReserved'
  <2>1. 0 \in Nat /\ 0 <= ChunkNode /\ pc[t] \in {"allocate", "take"}
    BY <1>1, ConstantFacts
  <2>2. Cardinality(Unmapped') = Cardinality(Unmapped) - 0
    BY <1>1, WaitingIsFinite DEF Unmapped
  <2>. QED
    BY <1>1, <2>1, <2>2, OneIsServed
<1>13. ListsEnd'
  BY <1>5, <1>6 DEF ListsEnd
<1>. QED
  BY <1>8, <1>9, <1>10, <1>11, <1>12, <1>13

(* The links of a chunk. *)
LEMMA ChunkChained ==
    ASSUME TypeOK, Cardinality(Unmapped) >= ChunkNode
    PROVE  /\ IsList(Min(Chunk), Chained(Chunk))
           /\ ListFrom(Min(Chunk), Chained(Chunk)) = Chunk
           /\ \A k \in Blocks : k \notin Chunk => Chained(Chunk)[k] = link[k]
           /\ Chained(Chunk) \in [Blocks -> Blocks \union {NULL, Junk}]
<1>1. /\ Chunk \subseteq Unmapped /\ Chunk \in SUBSET Blocks
      /\ Min(Chunk) \in Chunk /\ Chunk # {}
  BY ChunkFacts
<1>. DEFINE next == Chained(Chunk)
<1>2. ASSUME NEW k \in Chunk
      PROVE  LET later == {j \in Chunk : j > k}
             IN  next[k] = IF later = {} THEN NULL ELSE Min(later)
  BY <1>1 DEF Chained
<1>3. \A k \in Blocks : k \notin Chunk => next[k] = link[k]
  BY DEF Chained
<1>4. IsList(Min(Chunk), next) /\ ListFrom(Min(Chunk), next) = Chunk
  <2>. HIDE DEF next
  <2>. QED
    BY <1>1, <1>2, ChunkIsList
<1>5. \A k \in Blocks : next[k] \in Blocks \union {NULL, Junk}
  <2>1. ASSUME NEW k \in Chunk PROVE next[k] \in Blocks \union {NULL}
    <3>. DEFINE later == {j \in Chunk : j > k}
    <3>1. later # {} => Min(later) \in later
      <4>1. later \in SUBSET Nat
        BY <1>1, ConstantFacts
      <4>. QED
        BY <4>1, MinOfSet
    <3>. QED
      BY <1>1, <1>2, <3>1
  <2>. QED
    BY <1>1, <1>3, <2>1 DEF TypeOK
<1>6. next = [k \in Blocks |-> next[k]]
  BY DEF Chained
<1>. HIDE DEF next
<1>7. next \in [Blocks -> Blocks \union {NULL, Junk}]
  BY <1>5, <1>6
<1>. QED
  BY <1>3, <1>4, <1>7 DEF next

(* An empty list is refilled: the thread has the first block of the chunk, *)
(* the list the others.                                                    *)
LEMMA RefillStep ==
    ASSUME IInv, NEW t \in Threads, Refill(t)
    PROVE  IInv'
<1>. USE DEF IInv
<1>. SUFFICES ASSUME NEW i, NEW k, NEW new, i = units[t], k = Min(Chunk), new = Chunk
              PROVE  IInv'
  OBVIOUS
<1>1. /\ UNCHANGED <<cache, allo, buffer, units, alloLen, first, dropped, inits, copied>>
      /\ pc[t] = "take" /\ pc' = [pc EXCEPT ![t] = "deallocate"]
      /\ size' = [b \in Blocks |-> IF b \in new THEN i ELSE size[b]]
      /\ link' = Chained(Chunk)
      /\ head' = [head EXCEPT ![i] = link'[k]]
      /\ block' = [block EXCEPT ![t] = k]
      /\ mutex' = [mutex EXCEPT ![i] = NULL]
  BY DEF Refill, Allocated, Unlock, Goto, buffers, history
<1>2. /\ i \in Indices /\ mutex[i] = t /\ head[i] = NULL /\ inits % Lists = 0
      /\ alloLen[t] \in 1..i /\ (copied \/ alloLen[t] = i) /\ block[t] = NULL
      /\ i \in 0..MaxUnits /\ i > 0
  BY <1>1, PooledIndex DEF Refill, CallsInPlace, Place, CallTypes, MemoryReserved
<1>3. Cardinality(Unmapped) >= ChunkNode
  <2>1. t \in Waiting
    BY <1>1 DEF Waiting
  <2>2. Cardinality(Waiting) # 0
    BY <2>1, WaitingIsFinite, FS_EmptySet
  <2>. QED
    BY <2>2, WaitingIsFinite, Reserved, ConstantFacts DEF MemoryReserved
<1>4. /\ new \subseteq Unmapped /\ new \subseteq Blocks /\ k \in new
      /\ Cardinality(Unmapped \ new) = Cardinality(Unmapped) - ChunkNode
  BY <1>3, ChunkFacts
<1>5. /\ IsList(k, link') /\ ListFrom(k, link') = new
      /\ \A b \in Blocks : b \notin new => link'[b] = link[b]
      /\ link' \in [Blocks -> Blocks \union {NULL, Junk}]
  BY <1>1, <1>3, ChunkChained
<1>6. /\ k # NULL /\ IsList(link'[k], link') /\ k \notin ListFrom(link'[k], link')
      /\ ListFrom(link'[k], link') = new \ {k}
      /\ link'[k] \in Blocks \union {NULL}
  <2>1. k # NULL
    BY <1>4, ConstantFacts
  <2>2. /\ IsList(link'[k], link') /\ k \notin ListFrom(link'[k], link')
        /\ new = {k} \union ListFrom(link'[k], link')
    BY <1>5, <2>1, PopList
  <2>3. link'[k] \in Blocks \union {NULL}
    BY <2>2, PopList
  <2>. QED
    BY <2>1, <2>2, <2>3
<1>7. \A b \in new : ~HasBuffer(b) /\ ~HasThread(b) /\ ~HasList(b) /\ b \notin dropped
  BY <1>4 DEF OnePlace, Unmapped
<1>8. head'[i] = link'[k] /\ \A j \in Indices : j # i => head'[j] = head[j]
  BY <1>1, <1>2 DEF TypeOK
<1>9. FreeOn(i) = {}
  BY <1>2, EmptyList DEF FreeOn
<1>10. IsList(head[i], link)' /\ FreeOn(i)' = new \ {k}
  BY <1>6, <1>8 DEF FreeOn
<1>11. \A j \in Indices : j # i => IsList(head[j], link)' /\ FreeOn(j)' = FreeOn(j)
  <2>1. \A j \in Indices : \A b \in FreeOn(j) : b \in Blocks /\ b \notin new
    BY <1>7, FreeAreBlocks DEF HasList
  <2>. QED
    BY <1>5, <1>8, <2>1, ListIsKept
<1>12. TypeOK' /\ CallTypes'
  BY <1>1, <1>2, <1>4, <1>5, <1>6 DEF TypeOK, CallTypes
<1>13. CallsInPlace'
  <2>1. Place(t)'
    BY <1>1, <1>2 DEF Place, CallsInPlace, TypeOK
  <2>2. ASSUME NEW u \in Threads, u # t PROVE Place(u)'
    <3>1. \A j \in Indices : mutex[j] = u => mutex'[j] = u /\ head'[j] = head[j]
      BY <1>1, <1>2, <1>8, <2>2 DEF TypeOK
    <3>2. pc[u] = "give" => link'[Old(u)] = link[Old(u)]
      <4>1. pc[u] = "give" => buffer[u] \in Buffers /\ Old(u) \in Blocks
        BY DEF CallsInPlace, Place, Old, TypeOK
      <4>2. pc[u] = "give" => HasBuffer(Old(u))
        BY <4>1 DEF HasBuffer, Old
      <4>. QED
        BY <1>5, <1>7, <4>1, <4>2
    <3>. QED
      BY <1>1, <2>2, <3>1, <3>2, OthersInPlace DEF TypeOK, CallTypes
  <2>. QED
    BY <1>1, <2>1, <2>2 DEF CallsInPlace
<1>14. SizesFit'
  <2>1. \A b \in Blocks : /\ b \notin new => size'[b] = size[b]
                          /\ b \in new => size'[b] = i
    BY <1>1
  <2>2. \A b \in Buffers : cache'[b] # NULL => Fits(allo[b], cache[b])'
    BY <1>1, <1>7, <2>1 DEF SizesFit, Fits, HasBuffer, TypeOK
  <2>3. \A u \in Threads : block'[u] # NULL => Fits(alloLen[u], block[u])'
    <3>1. ASSUME NEW u \in Threads, u # t, block'[u] # NULL
          PROVE  Fits(alloLen[u], block[u])'
      BY <1>1, <1>7, <2>1, <3>1 DEF SizesFit, Fits, HasThread, CallTypes
    <3>2. Fits(alloLen[t], block[t])'
      BY <1>1, <1>2, <1>4, <2>1 DEF Fits, CallTypes
    <3>. QED
      BY <3>1, <3>2
  <2>4. \A j \in Indices : \A b \in FreeOn(j)' : Fits(j, b)'
    <3>1. ASSUME NEW j \in Indices, j # i, NEW b \in FreeOn(j)' PROVE Fits(j, b)'
      <4>1. b \in FreeOn(j) /\ b \in Blocks /\ b \notin new
        BY <1>7, <1>11, <3>1, FreeAreBlocks DEF HasList
      <4>. QED
        BY <1>1, <2>1, <4>1 DEF SizesFit, Fits
    <3>2. \A b \in FreeOn(i)' : Fits(i, b)'
      BY <1>2, <1>4, <1>10, <2>1 DEF Fits
    <3>. QED
      BY <3>1, <3>2
  <2>. QED
    BY <2>2, <2>3, <2>4 DEF SizesFit
<1>15. OnePlace'
  <2>1. \A j \in Blocks : /\ size'[j] > 0 <=> size[j] > 0 \/ j \in new
                          /\ HasBuffer(j)' <=> HasBuffer(j)
                          /\ HasThread(j)' <=> HasThread(j) \/ j = k
    BY <1>1, <1>2, <1>4, ConstantFacts DEF HasBuffer, HasThread, TypeOK, CallTypes
  <2>2. \A j \in Blocks : HasList(j)' <=> HasList(j) \/ j \in new \ {k}
    BY <1>2, <1>9, <1>10, <1>11 DEF HasList
  <2>3. \A u, v \in Threads : block'[u] = block'[v] /\ block'[u] # NULL => u = v
    BY <1>1, <1>4, <1>7 DEF OnePlace, HasThread, CallTypes
  <2>4. \A j, l \in Indices : \A b \in FreeOn(j)' : b \in FreeOn(l)' => j = l
    BY <1>7, <1>10, <1>11 DEF OnePlace, HasList
  <2>. QED
    BY <1>1, <1>4, <1>7, <2>1, <2>2, <2>3, <2>4 DEF OnePlace
<1>16. MemoryReserved'
  <2>1. ChunkNode \in Nat /\ ChunkNode <= ChunkNode /\ pc[t] \in {"allocate", "take"}
    BY <1>1, ConstantFacts
  <2>2. Unmapped' = Unmapped \ new
    BY <1>1, <1>2 DEF Unmapped, TypeOK
  <2>3. Cardinality(Unmapped') = Cardinality(Unmapped) - ChunkNode
    BY <1>4, <2>2
  <2>. QED
    BY <1>1, <2>1, <2>3, OneIsServed
<1>17. ListsEnd'
  BY <1>10, <1>11 DEF ListsEnd
<1>. QED
  BY <1>12, <1>13, <1>14, <1>15, <1>16, <1>17

(* An operation ends: its buffer has the new block instead of the old one. *)
LEMMA EndEffects ==
    ASSUME IInv, NEW t \in Threads, pc[t] \in {"deallocate", "give"}, End(t),
           NEW b, NEW k, NEW old, b = buffer[t], k = block[t], old = cache[b]
    PROVE  /\ b \in Buffers /\ inits % Lists = 0
           /\ old \in Blocks \union {NULL} /\ k \in Blocks \union {NULL}
           /\ old # NULL => HasBuffer(old) /\ size[old] > 0 /\ Fits(allo[b], old)
           /\ k # NULL => HasThread(k) /\ size[k] > 0 /\ k # old
           /\ cache' = [cache EXCEPT ![b] = k]
           /\ allo' = [allo EXCEPT ![b] = alloLen[t]]
           /\ \A u \in Threads : u # t =>
                 /\ UNCHANGED <<pc[u], buffer[u], block[u], units[u], alloLen[u], first[u]>>
                 /\ buffer[u] # NULL => UNCHANGED <<cache[buffer[u]], allo[buffer[u]]>>
           /\ pc'[t] = "idle" /\ buffer'[t] = NULL /\ block'[t] = NULL /\ units'[t] = 0
           /\ Waiting' = Waiting
           /\ cache' \in [Buffers -> Blocks \union {NULL}]
           /\ allo' \in [Buffers -> 0..MaxUnits]
           /\ pc' \in [Threads -> {"idle", "allocate", "take", "deallocate", "give"}]
           /\ buffer' \in [Threads -> Buffers \union {NULL}]
           /\ first' \in [Threads -> Blocks \union {NULL}]
           /\ block' \in [Threads -> Blocks \union {NULL}]
           /\ units' \in [Threads -> 0..MaxUnits]
           /\ alloLen' \in [Threads -> 0..MaxUnits]
           /\ \A u, v \in Threads : buffer'[u] = buffer'[v] /\ buffer'[u] # NULL => u = v
           /\ \A c, d \in Buffers : cache'[c] = cache'[d] /\ cache'[c] # NULL => c = d
           /\ \A u, v \in Threads : block'[u] = block'[v] /\ block'[u] # NULL => u = v
           /\ \A j \in Blocks : /\ HasBuffer(j)' <=> (HasBuffer(j) /\ j # old) \/ j = k
                                /\ HasThread(j)' <=> HasThread(j) /\ j # k
<1>. USE DEF IInv
<1>1. /\ cache' = [cache EXCEPT ![b] = k]
      /\ allo' = [allo EXCEPT ![b] = alloLen[t]]
      /\ pc' = [pc EXCEPT ![t] = "idle"]
      /\ buffer' = [buffer EXCEPT ![t] = NULL]
      /\ block' = [block EXCEPT ![t] = NULL]
      /\ units' = [units EXCEPT ![t] = 0]
      /\ alloLen' = [alloLen EXCEPT ![t] = 0]
      /\ first' = [first EXCEPT ![t] = NULL]
  BY DEF End, Goto
<1>2. b \in Buffers /\ b # NULL /\ inits % Lists = 0
  BY MemCacheAssumption DEF CallsInPlace, Place, TypeOK, MemoryReserved
<1>3. old \in Blocks \union {NULL} /\ k \in Blocks \union {NULL}
  BY <1>2 DEF TypeOK, CallTypes
<1>4. old # NULL => HasBuffer(old) /\ size[old] > 0 /\ Fits(allo[b], old)
  BY <1>2, <1>3 DEF HasBuffer, OnePlace, SizesFit
<1>5. k # NULL => HasThread(k) /\ size[k] > 0 /\ k # old
  BY <1>3, <1>4 DEF HasThread, OnePlace
<1>6. /\ cache' \in [Buffers -> Blocks \union {NULL}]
      /\ allo' \in [Buffers -> 0..MaxUnits]
      /\ pc' \in [Threads -> {"idle", "allocate", "take", "deallocate", "give"}]
      /\ buffer' \in [Threads -> Buffers \union {NULL}]
      /\ first' \in [Threads -> Blocks \union {NULL}]
      /\ block' \in [Threads -> Blocks \union {NULL}]
      /\ units' \in [Threads -> 0..MaxUnits]
      /\ alloLen' \in [Threads -> 0..MaxUnits]
  <2>1. 0 \in 0..MaxUnits
    BY ConstantFacts
  <2>. QED
    BY <1>1, <1>3, <2>1 DEF TypeOK, CallTypes
<1>7. \A u \in Threads : u # t =>
         /\ UNCHANGED <<pc[u], buffer[u], block[u], units[u], alloLen[u], first[u]>>
         /\ buffer[u] # NULL => UNCHANGED <<cache[buffer[u]], allo[buffer[u]]>>
  BY <1>1, <1>2 DEF TypeOK, CallTypes, CallsInPlace
<1>8. pc'[t] = "idle" /\ buffer'[t] = NULL /\ block'[t] = NULL /\ units'[t] = 0
  BY <1>1 DEF TypeOK, CallTypes
<1>9. Waiting' = Waiting
  BY <1>1 DEF Waiting, TypeOK
<1>10. \A u, v \in Threads : buffer'[u] = buffer'[v] /\ buffer'[u] # NULL => u = v
  BY <1>7, <1>8 DEF CallsInPlace
<1>11. \A u, v \in Threads : block'[u] = block'[v] /\ block'[u] # NULL => u = v
  BY <1>7, <1>8 DEF OnePlace
<1>12. cache'[b] = k /\ \A c \in Buffers : c # b => cache'[c] = cache[c]
  BY <1>1, <1>2 DEF TypeOK
<1>13. \A c, d \in Buffers : cache'[c] = cache'[d] /\ cache'[c] # NULL => c = d
  <2>1. \A c \in Buffers : k # NULL => cache[c] # k
    BY <1>3, <1>5 DEF OnePlace, HasBuffer
  <2>. QED
    BY <1>12, <2>1 DEF OnePlace
<1>14. \A j \in Blocks : HasBuffer(j)' <=> (HasBuffer(j) /\ j # old) \/ j = k
  <2>1. \A c \in Buffers : cache[c] = old /\ old # NULL => c = b
    BY <1>2 DEF OnePlace
  <2>. QED
    BY <1>2, <1>12, <2>1, ConstantFacts DEF HasBuffer
<1>15. \A j \in Blocks : HasThread(j)' <=> HasThread(j) /\ j # k
  BY <1>7, <1>8, ConstantFacts DEF HasThread, OnePlace
<1>. QED
  BY <1>1, <1>2, <1>3, <1>4, <1>5, <1>6, <1>7, <1>8, <1>9, <1>10, <1>11, <1>13,
     <1>14, <1>15

(* The user writes to the block that he gets; no list has it. *)
LEMMA WriteToBlock ==
    ASSUME IInv, NEW t \in Threads, NEW k, k = block[t],
           link' = [j \in Blocks |-> IF j = k THEN Junk ELSE link[j]]
    PROVE  /\ link' \in [Blocks -> Blocks \union {NULL, Junk}]
           /\ \A i \in Indices : \A j \in FreeOn(i) : link'[j] = link[j]
           /\ \A j \in Blocks : HasBuffer(j) => link'[j] = link[j]
<1>. USE DEF IInv
<1>1. link' \in [Blocks -> Blocks \union {NULL, Junk}]
  BY DEF TypeOK
<1>2. \A j \in Blocks : HasBuffer(j) \/ HasList(j) => j # k
  BY DEF OnePlace, HasThread
<1>. QED
  BY <1>1, <1>2, FreeAreBlocks DEF HasList

(* deallocate has no block to give back, or one that malloc made. *)
LEMMA FreeStep ==
    ASSUME IInv, NEW t \in Threads, Free(t)
    PROVE  IInv'
<1>. USE DEF IInv
<1>. SUFFICES ASSUME NEW b, NEW k, NEW old, b = buffer[t], k = block[t], old = cache[b]
              PROVE  IInv'
  OBVIOUS
<1>1. /\ pc[t] = "deallocate" /\ End(t)
      /\ link' = [j \in Blocks |-> IF j = k THEN Junk ELSE link[j]]
      /\ UNCHANGED <<head, mutex, dropped, inits, copied>>
  BY DEF Free, history
<1>2. \/ old = NULL /\ size' = size
      \/ old # NULL /\ size' = [size EXCEPT ![old] = 0]
  BY DEF Free, Old
<1>3. /\ b \in Buffers /\ inits % Lists = 0
      /\ old \in Blocks \union {NULL} /\ k \in Blocks \union {NULL}
      /\ old # NULL => HasBuffer(old) /\ size[old] > 0
      /\ k # NULL => HasThread(k) /\ size[k] > 0 /\ k # old
      /\ cache' = [cache EXCEPT ![b] = k]
      /\ allo' = [allo EXCEPT ![b] = alloLen[t]]
  BY <1>1, EndEffects
<1>4. /\ link' \in [Blocks -> Blocks \union {NULL, Junk}]
      /\ \A i \in Indices : \A j \in FreeOn(i) : link'[j] = link[j]
      /\ \A j \in Blocks : HasBuffer(j) => link'[j] = link[j]
  BY <1>1, WriteToBlock
<1>5. \A i \in Indices : IsList(head[i], link)' /\ FreeOn(i)' = FreeOn(i)
  BY <1>1, <1>4, ListIsKept
<1>6. /\ size' \in [Blocks -> 0..MaxUnits]
      /\ \A j \in Blocks : j # old => size'[j] = size[j]
      /\ old # NULL => size'[old] = 0
  BY <1>2, <1>3, ConstantFacts DEF TypeOK
<1>7. TypeOK' /\ CallTypes'
  <2>1. /\ cache' \in [Buffers -> Blocks \union {NULL}]
        /\ allo' \in [Buffers -> 0..MaxUnits]
        /\ pc' \in [Threads -> {"idle", "allocate", "take", "deallocate", "give"}]
        /\ buffer' \in [Threads -> Buffers \union {NULL}]
        /\ first' \in [Threads -> Blocks \union {NULL}]
        /\ block' \in [Threads -> Blocks \union {NULL}]
        /\ units' \in [Threads -> 0..MaxUnits]
        /\ alloLen' \in [Threads -> 0..MaxUnits]
    BY <1>1, EndEffects
  <2>. QED
    BY <1>1, <1>4, <1>6, <2>1 DEF TypeOK, CallTypes
<1>8. CallsInPlace'
  <2>1. /\ pc'[t] = "idle" /\ buffer'[t] = NULL /\ block'[t] = NULL /\ units'[t] = 0
        /\ \A u, v \in Threads : buffer'[u] = buffer'[v] /\ buffer'[u] # NULL => u = v
    BY <1>1, EndEffects
  <2>2. Place(t)'
    BY <2>1 DEF Place
  <2>3. ASSUME NEW u \in Threads, u # t PROVE Place(u)'
    <3>1. /\ UNCHANGED <<pc[u], buffer[u], block[u], units[u], alloLen[u], first[u]>>
          /\ buffer[u] # NULL => UNCHANGED <<cache[buffer[u]], allo[buffer[u]]>>
      BY <1>1, <2>3, EndEffects
    <3>2. pc[u] = "give" => link'[Old(u)] = link[Old(u)]
      <4>1. pc[u] = "give" => buffer[u] \in Buffers /\ Old(u) \in Blocks
        BY DEF CallsInPlace, Place, Old, TypeOK
      <4>. QED
        BY <1>4, <4>1 DEF HasBuffer, Old
    <3>. QED
      BY <1>1, <3>1, <3>2, OthersInPlace
  <2>. QED
    BY <2>1, <2>2, <2>3 DEF CallsInPlace
<1>9. OnePlace'
  <2>1. /\ \A c, d \in Buffers : cache'[c] = cache'[d] /\ cache'[c] # NULL => c = d
        /\ \A u, v \in Threads : block'[u] = block'[v] /\ block'[u] # NULL => u = v
        /\ \A j \in Blocks : /\ HasBuffer(j)' <=> (HasBuffer(j) /\ j # old) \/ j = k
                             /\ HasThread(j)' <=> HasThread(j) /\ j # k
    BY <1>1, EndEffects
  <2>2. \A j \in Blocks : HasList(j)' <=> HasList(j)
    BY <1>5 DEF HasList
  <2>3. \A j \in Blocks : size'[j] > 0 <=> size[j] > 0 /\ j # old
    BY <1>6, ConstantFacts DEF TypeOK
  <2>. QED
    BY <1>1, <1>3, <1>5, <2>1, <2>2, <2>3, ConstantFacts DEF OnePlace
<1>10. SizesFit'
  <2>1. ASSUME NEW c \in Buffers, cache'[c] # NULL PROVE Fits(allo[c], cache[c])'
    <3>1. CASE c = b
      BY <1>1, <1>3, <1>6, <2>1, <3>1 DEF SizesFit, Fits, TypeOK
    <3>2. CASE c # b
      <4>1. cache'[c] = cache[c] /\ allo'[c] = allo[c] /\ cache[c] # old
        BY <1>3, <2>1, <3>2 DEF OnePlace, TypeOK
      <4>. QED
        BY <1>1, <1>6, <2>1, <4>1 DEF SizesFit, Fits, TypeOK
    <3>. QED
      BY <3>1, <3>2
  <2>2. ASSUME NEW u \in Threads, block'[u] # NULL PROVE Fits(alloLen[u], block[u])'
    <3>1. u # t /\ block'[u] = block[u] /\ alloLen'[u] = alloLen[u]
      BY <1>1, <2>2, EndEffects
    <3>2. block[u] \in Blocks /\ block[u] # old
      BY <1>3, <2>2, <3>1 DEF OnePlace, HasThread, CallTypes
    <3>. QED
      BY <1>1, <1>6, <2>2, <3>1, <3>2 DEF SizesFit, Fits
  <2>3. ASSUME NEW i \in Indices, NEW j \in FreeOn(i)' PROVE Fits(i, j)'
    <3>1. j \in FreeOn(i) /\ j \in Blocks /\ j # old
      BY <1>3, <1>5, FreeAreBlocks, ConstantFacts DEF OnePlace, HasList
    <3>. QED
      BY <1>1, <1>6, <3>1 DEF SizesFit, Fits
  <2>. QED
    BY <2>1, <2>2, <2>3 DEF SizesFit
<1>11. MemoryReserved'
  <2>1. Unmapped \subseteq Unmapped' /\ Unmapped' \subseteq Blocks
    BY <1>3, <1>6, ConstantFacts DEF Unmapped
  <2>2. Waiting' = Waiting
    BY <1>1, EndEffects
  <2>. QED
    BY <1>1, <1>3, <2>1, <2>2, NobodyIsServed
<1>12. ListsEnd'
  BY <1>5 DEF ListsEnd
<1>. QED
  BY <1>7, <1>8, <1>9, <1>10, <1>11, <1>12

(* The block that is given back is linked to the list, which nobody but    *)
(* this thread can change.                                                 *)
LEMMA LinkOldStep ==
    ASSUME IInv, NEW t \in Threads, LinkOld(t)
    PROVE  IInv'
<1>. USE DEF IInv
<1>. SUFFICES ASSUME NEW i, NEW old, i = OldUnits(t), old = Old(t)
              PROVE  IInv'
  OBVIOUS
<1>1. /\ UNCHANGED <<size, head, cache, allo, block, buffer, units, alloLen, first,
                     dropped, inits, copied>>
      /\ pc[t] = "deallocate" /\ pc' = [pc EXCEPT ![t] = "give"]
      /\ old # NULL /\ Pooled(i) /\ mutex[i] = NULL
      /\ mutex' = [mutex EXCEPT ![i] = t]
      /\ link' = [link EXCEPT ![old] = head[i]]
  BY DEF LinkOld, Lock, Goto, buffers, local, history
<1>2. /\ buffer[t] \in Buffers /\ old \in Blocks /\ HasBuffer(old) /\ Fits(i, old)
      /\ NULL \notin Threads /\ inits % Lists = 0
  <2>1. buffer[t] \in Buffers /\ inits % Lists = 0
    BY <1>1 DEF CallsInPlace, Place, TypeOK, MemoryReserved
  <2>. QED
    BY <1>1, <2>1, MemCacheAssumption
       DEF Old, OldUnits, TypeOK, HasBuffer, SizesFit
<1>3. i \in Indices
  BY <1>1, <1>2, PooledIndex DEF Fits, TypeOK
<1>4. \A j \in Indices : \A k \in FreeOn(j) : k # old /\ link'[k] = link[k]
  <2>1. \A j \in Indices : \A k \in FreeOn(j) : k \in Blocks /\ k # old
    BY <1>2, FreeAreBlocks DEF OnePlace, HasList
  <2>. QED
    BY <1>1, <2>1 DEF TypeOK
<1>5. /\ \A j \in Indices : FreeOn(j)' = FreeOn(j)
      /\ ListsEnd' /\ OnePlace' /\ Unmapped' = Unmapped
  BY <1>1, <1>4, NothingMoves
<1>6. TypeOK' /\ CallTypes'
  BY <1>1, <1>2, <1>3 DEF TypeOK, CallTypes
<1>7. CallsInPlace'
  <2>1. Place(t)'
    <3>1. Old(t)' = old /\ OldUnits(t)' = i
      BY <1>1 DEF Old, OldUnits
    <3>2. link'[old] = head[i] /\ mutex'[i] = t /\ pc'[t] = "give"
      BY <1>1, <1>2, <1>3 DEF TypeOK
    <3>. QED
      BY <1>1, <3>1, <3>2 DEF Place, CallsInPlace
  <2>2. ASSUME NEW u \in Threads, u # t PROVE Place(u)'
    <3>1. \A j \in Indices : mutex[j] = u => mutex'[j] = u /\ head'[j] = head[j]
      BY <1>1, <1>2, <1>3, <2>2 DEF TypeOK
    <3>2. pc[u] = "give" => link'[Old(u)] = link[Old(u)]
      <4>1. pc[u] = "give" => buffer[u] \in Buffers /\ Old(u) \in Blocks /\ buffer[u] # NULL
        BY DEF CallsInPlace, Place, Old, TypeOK
      <4>2. pc[u] = "give" => buffer[u] # buffer[t]
        BY <2>2, <4>1 DEF CallsInPlace
      <4>3. pc[u] = "give" => Old(u) # old
        BY <1>1, <1>2, <4>1, <4>2 DEF OnePlace, Old
      <4>. QED
        BY <1>1, <4>1, <4>3 DEF TypeOK
    <3>. QED
      BY <1>1, <2>2, <3>1, <3>2, OthersInPlace DEF TypeOK
  <2>. QED
    BY <1>1, <2>1, <2>2 DEF CallsInPlace
<1>8. SizesFit'
  BY <1>1, <1>5 DEF SizesFit, Fits
<1>9. MemoryReserved'
  <2>1. Waiting' = Waiting
    BY <1>1 DEF Waiting, TypeOK
  <2>. QED
    BY <1>1, <1>2, <1>5, <2>1, NobodyIsServed DEF Unmapped
<1>. QED
  BY <1>5, <1>6, <1>7, <1>8, <1>9

(* The block that is given back becomes the first one of the list. *)
LEMMA GiveStep ==
    ASSUME IInv, NEW t \in Threads, Give(t)
    PROVE  IInv'
<1>. USE DEF IInv
<1>. SUFFICES ASSUME NEW b, NEW k, NEW old, NEW i, b = buffer[t], k = block[t],
                     old = cache[b], i = allo[b]
              PROVE  IInv'
  OBVIOUS
<1>1. /\ pc[t] = "give" /\ End(t)
      /\ head' = [head EXCEPT ![i] = old]
      /\ mutex' = [mutex EXCEPT ![i] = NULL]
      /\ link' = [j \in Blocks |-> IF j = k THEN Junk ELSE link[j]]
      /\ UNCHANGED <<size, dropped, inits, copied>>
  BY DEF Give, Old, OldUnits, Unlock, history
<1>2. old # NULL /\ Pooled(i) /\ mutex[i] = t /\ link[old] = head[i]
  BY <1>1 DEF CallsInPlace, Place, Old, OldUnits
<1>3. /\ b \in Buffers /\ inits % Lists = 0 /\ old \in Blocks
      /\ k \in Blocks \union {NULL} /\ HasBuffer(old) /\ size[old] > 0 /\ Fits(i, old)
      /\ k # NULL => HasThread(k) /\ size[k] > 0 /\ k # old
      /\ cache' = [cache EXCEPT ![b] = k]
      /\ allo' = [allo EXCEPT ![b] = alloLen[t]]
  BY <1>1, <1>2, EndEffects
<1>4. i \in Indices
  BY <1>2, <1>3, PooledIndex DEF Fits, TypeOK
<1>5. /\ link' \in [Blocks -> Blocks \union {NULL, Junk}]
      /\ \A l \in Indices : \A j \in FreeOn(l) : link'[j] = link[j]
      /\ \A j \in Blocks : HasBuffer(j) => link'[j] = link[j]
  BY <1>1, WriteToBlock
<1>6. head'[i] = old /\ \A j \in Indices : j # i => head'[j] = head[j]
  BY <1>1, <1>4 DEF TypeOK
<1>7. old \notin FreeOn(i)
  BY <1>3, <1>4 DEF OnePlace, HasList
<1>8. IsList(head[i], link)' /\ FreeOn(i)' = FreeOn(i) \union {old}
  <2>1. link'[old] = head[i]
    BY <1>2, <1>3, <1>5
  <2>2. IsList(head[i], link') /\ ListFrom(head[i], link') = FreeOn(i)
    BY <1>4, <1>5, KeepList DEF ListsEnd, FreeOn
  <2>3. IsList(old, link') /\ ListFrom(old, link') = {old} \union FreeOn(i)
    BY <1>3, <1>7, <2>1, <2>2, PushList
  <2>. QED
    BY <1>6, <2>3 DEF FreeOn
<1>9. \A j \in Indices : j # i => IsList(head[j], link)' /\ FreeOn(j)' = FreeOn(j)
  BY <1>5, <1>6, ListIsKept
<1>10. TypeOK' /\ CallTypes'
  <2>1. /\ cache' \in [Buffers -> Blocks \union {NULL}]
        /\ allo' \in [Buffers -> 0..MaxUnits]
        /\ pc' \in [Threads -> {"idle", "allocate", "take", "deallocate", "give"}]
        /\ buffer' \in [Threads -> Buffers \union {NULL}]
        /\ first' \in [Threads -> Blocks \union {NULL}]
        /\ block' \in [Threads -> Blocks \union {NULL}]
        /\ units' \in [Threads -> 0..MaxUnits]
        /\ alloLen' \in [Threads -> 0..MaxUnits]
    BY <1>1, EndEffects
  <2>. QED
    BY <1>1, <1>3, <1>4, <1>5, <2>1 DEF TypeOK, CallTypes
<1>11. CallsInPlace'
  <2>1. /\ pc'[t] = "idle" /\ buffer'[t] = NULL /\ block'[t] = NULL /\ units'[t] = 0
        /\ \A u, v \in Threads : buffer'[u] = buffer'[v] /\ buffer'[u] # NULL => u = v
    BY <1>1, EndEffects
  <2>2. Place(t)'
    BY <2>1 DEF Place
  <2>3. ASSUME NEW u \in Threads, u # t PROVE Place(u)'
    <3>1. /\ UNCHANGED <<pc[u], buffer[u], block[u], units[u], alloLen[u], first[u]>>
          /\ buffer[u] # NULL => UNCHANGED <<cache[buffer[u]], allo[buffer[u]]>>
      BY <1>1, <2>3, EndEffects
    <3>2. pc[u] = "give" => link'[Old(u)] = link[Old(u)]
      <4>1. pc[u] = "give" => buffer[u] \in Buffers /\ Old(u) \in Blocks
        BY DEF CallsInPlace, Place, Old, TypeOK
      <4>. QED
        BY <1>5, <4>1 DEF HasBuffer, Old
    <3>3. \A j \in Indices : mutex[j] = u => mutex'[j] = u /\ head'[j] = head[j]
      BY <1>1, <1>2, <1>4, <1>6, <2>3 DEF TypeOK
    <3>. QED
      BY <1>1, <3>1, <3>2, <3>3, OthersInPlace
  <2>. QED
    BY <2>1, <2>2, <2>3 DEF CallsInPlace
<1>12. OnePlace'
  <2>1. /\ \A c, d \in Buffers : cache'[c] = cache'[d] /\ cache'[c] # NULL => c = d
        /\ \A u, v \in Threads : block'[u] = block'[v] /\ block'[u] # NULL => u = v
        /\ \A j \in Blocks : /\ HasBuffer(j)' <=> (HasBuffer(j) /\ j # old) \/ j = k
                             /\ HasThread(j)' <=> HasThread(j) /\ j # k
    BY <1>1, EndEffects
  <2>2. \A j \in Blocks : HasList(j)' <=> HasList(j) \/ j = old
    BY <1>4, <1>8, <1>9 DEF HasList
  <2>3. \A j, l \in Indices : \A c \in FreeOn(j)' : c \in FreeOn(l)' => j = l
    <3>1. \A j \in Indices : old \notin FreeOn(j)
      BY <1>3 DEF OnePlace, HasList
    <3>. QED
      BY <1>8, <1>9, <3>1 DEF OnePlace
  <2>. QED
    BY <1>1, <1>3, <2>1, <2>2, <2>3, ConstantFacts DEF OnePlace
<1>13. SizesFit'
  <2>1. ASSUME NEW c \in Buffers, cache'[c] # NULL PROVE Fits(allo[c], cache[c])'
    <3>1. CASE c = b
      BY <1>1, <1>3, <2>1, <3>1 DEF SizesFit, Fits, TypeOK
    <3>2. CASE c # b
      BY <1>1, <1>3, <2>1, <3>2 DEF SizesFit, Fits, TypeOK
    <3>. QED
      BY <3>1, <3>2
  <2>2. ASSUME NEW u \in Threads, block'[u] # NULL PROVE Fits(alloLen[u], block[u])'
    <3>1. u # t /\ block'[u] = block[u] /\ alloLen'[u] = alloLen[u]
      BY <1>1, <2>2, EndEffects
    <3>. QED
      BY <1>1, <2>2, <3>1 DEF SizesFit, Fits
  <2>3. ASSUME NEW l \in Indices, NEW j \in FreeOn(l)' PROVE Fits(l, j)'
    <3>1. (l = i /\ j = old) \/ j \in FreeOn(l)
      BY <1>8, <1>9
    <3>. QED
      BY <1>1, <1>3, <3>1 DEF SizesFit, Fits
  <2>. QED
    BY <2>1, <2>2, <2>3 DEF SizesFit
<1>14. MemoryReserved'
  <2>1. Unmapped \subseteq Unmapped' /\ Unmapped' \subseteq Blocks
    BY <1>1 DEF Unmapped
  <2>2. Waiting' = Waiting
    BY <1>1, EndEffects
  <2>. QED
    BY <1>1, <1>3, <2>1, <2>2, NobodyIsServed
<1>15. ListsEnd'
  BY <1>8, <1>9 DEF ListsEnd
<1>. QED
  BY <1>10, <1>11, <1>12, <1>13, <1>14, <1>15

LEMMA NextListIndex == inits \in Nat => NextList \in Indices
<1>. SUFFICES ASSUME inits \in Nat PROVE NextList \in Indices
  OBVIOUS
<1>1. inits % Lists \in 0..Lists - 1
  BY NextRemainder
<1>. DEFINE r == inits % Lists
<1>. HIDE DEF r
<1>2. r \in 0..Lists - 1
  BY <1>1 DEF r
<1>3. r + 1 \in Indices
  BY <1>2, ConstantFacts DEF Indices
<1>. QED
  BY <1>3 DEF NextList, r

(* init makes a list anew and forgets what it had. *)
LEMMA InitListStep ==
    ASSUME IInv, InitList
    PROVE  IInv'
<1>. USE DEF IInv
<1>. SUFFICES ASSUME NEW i, NEW new, NEW k, i = NextList, new = Chunk, k = Min(Chunk)
              PROVE  IInv'
  OBVIOUS
<1>1. /\ UNCHANGED <<mutex, cache, allo, pc, buffer, block, units, alloLen, first, copied>>
      /\ \A t \in Threads : pc[t] = "idle"
      /\ size' = [b \in Blocks |-> IF b \in new THEN i ELSE size[b]]
      /\ link' = Chained(Chunk)
      /\ head' = [head EXCEPT ![i] = k]
      /\ dropped' = dropped \union FreeOn(i)
      /\ inits' = inits + 1
  BY DEF InitList, buffers, local
<1>2. i \in Indices /\ i \in 0..MaxUnits /\ i > 0
  BY NextListIndex, ConstantFacts DEF Indices, CallTypes
<1>. DEFINE r == inits % Lists
<1>3. /\ r \in 0..Lists - 1
      /\ (inits + 1) % Lists = IF r = Lists - 1 THEN 0 ELSE r + 1
  BY NextRemainder DEF CallTypes
<1>4. Cardinality(Unmapped) >= ChunkNode * (Lists - r)
  <2>1. CASE r = 0
    <3>1. Cardinality(Unmapped) >= ChunkNode * Lists
      BY <2>1 DEF InitList
    <3>. QED
      BY <2>1, <3>1, ConstantFacts
  <2>2. CASE r # 0
    BY <2>2 DEF MemoryReserved
  <2>. QED
    BY <2>1, <2>2
<1>. HIDE DEF r
<1>5. /\ Cardinality(Unmapped) >= ChunkNode
      /\ Cardinality(Unmapped) - ChunkNode >= ChunkNode * (Lists - (r + 1))
  <2>1. Lists - r \in Nat /\ Lists - r > 0 /\ (Lists - r) - 1 = Lists - (r + 1)
    BY <1>3, ConstantFacts
  <2>2. ChunkNode \in Nat /\ ChunkNode <= ChunkNode
    BY ConstantFacts
  <2>. QED
    BY <1>4, <2>1, <2>2, WaitingIsFinite, Reserved
<1>6. /\ new \subseteq Unmapped /\ new \subseteq Blocks /\ k \in new
      /\ Cardinality(Unmapped \ new) = Cardinality(Unmapped) - ChunkNode
  BY <1>5, ChunkFacts
<1>7. /\ IsList(k, link') /\ ListFrom(k, link') = new
      /\ \A b \in Blocks : b \notin new => link'[b] = link[b]
      /\ link' \in [Blocks -> Blocks \union {NULL, Junk}]
  BY <1>1, <1>5, ChunkChained
<1>8. \A b \in new : ~HasBuffer(b) /\ ~HasThread(b) /\ ~HasList(b) /\ b \notin dropped
  BY <1>6 DEF OnePlace, Unmapped
<1>9. head'[i] = k /\ \A j \in Indices : j # i => head'[j] = head[j]
  BY <1>1, <1>2 DEF TypeOK
<1>10. IsList(head[i], link)' /\ FreeOn(i)' = new
  BY <1>7, <1>9 DEF FreeOn
<1>11. \A j \in Indices : j # i => IsList(head[j], link)' /\ FreeOn(j)' = FreeOn(j)
  <2>1. \A j \in Indices : \A b \in FreeOn(j) : b \in Blocks /\ b \notin new
    BY <1>8, FreeAreBlocks DEF HasList
  <2>. QED
    BY <1>7, <1>9, <2>1, ListIsKept
<1>12. TypeOK' /\ CallTypes'
  BY <1>1, <1>2, <1>6, <1>7, FreeAreBlocks DEF TypeOK, CallTypes
<1>13. CallsInPlace'
  BY <1>1 DEF CallsInPlace, Place
<1>14. \A u \in Threads : block[u] = NULL
  BY <1>1 DEF CallsInPlace, Place
<1>15. SizesFit'
  <2>1. \A b \in Blocks : /\ b \notin new => size'[b] = size[b]
                          /\ b \in new => size'[b] = i
    BY <1>1
  <2>2. \A b \in Buffers : cache'[b] # NULL => Fits(allo[b], cache[b])'
    BY <1>1, <1>8, <2>1 DEF SizesFit, Fits, HasBuffer, TypeOK
  <2>3. \A j \in Indices : \A b \in FreeOn(j)' : Fits(j, b)'
    <3>1. ASSUME NEW j \in Indices, j # i, NEW b \in FreeOn(j)' PROVE Fits(j, b)'
      <4>1. b \in FreeOn(j) /\ b \in Blocks /\ b \notin new
        BY <1>8, <1>11, <3>1, FreeAreBlocks DEF HasList
      <4>. QED
        BY <1>1, <2>1, <4>1 DEF SizesFit, Fits
    <3>2. \A b \in FreeOn(i)' : Fits(i, b)'
      BY <1>2, <1>6, <1>10, <2>1 DEF Fits
    <3>. QED
      BY <3>1, <3>2
  <2>. QED
    BY <1>1, <1>14, <2>2, <2>3 DEF SizesFit
<1>16. OnePlace'
  <2>1. \A j \in Blocks : /\ size'[j] > 0 <=> size[j] > 0 \/ j \in new
                          /\ HasBuffer(j)' <=> HasBuffer(j)
                          /\ HasThread(j)' <=> HasThread(j)
    BY <1>1, <1>2, <1>6 DEF HasBuffer, HasThread, TypeOK
  <2>2. \A j \in Blocks : HasList(j)' <=> (HasList(j) /\ j \notin FreeOn(i)) \/ j \in new
    BY <1>2, <1>10, <1>11 DEF HasList, OnePlace
  <2>3. \A j, l \in Indices : \A b \in FreeOn(j)' : b \in FreeOn(l)' => j = l
    BY <1>8, <1>10, <1>11 DEF OnePlace, HasList
  <2>4. \A j \in FreeOn(i) : HasList(j)
    BY <1>2 DEF HasList
  <2>5. \A j \in Blocks : j \in dropped' <=> j \in dropped \/ j \in FreeOn(i)
    BY <1>1
  <2>. QED
    BY <1>1, <1>8, <2>1, <2>2, <2>3, <2>4, <2>5 DEF OnePlace
<1>17. MemoryReserved'
  <2>1. Unmapped' = Unmapped \ new
    BY <1>1, <1>2 DEF Unmapped, TypeOK
  <2>2. Cardinality(Unmapped') = Cardinality(Unmapped) - ChunkNode
    BY <1>6, <2>1
  <2>3. Waiting' = {} /\ Cardinality(Waiting') = 0 /\ ChunkNode * Cardinality(Waiting') = 0
    <3>1. Waiting' = {}
      BY <1>1 DEF Waiting
    <3>2. Cardinality(Waiting') = 0
      BY <3>1, FS_EmptySet
    <3>3. ChunkNode * 0 = 0
      BY ConstantFacts
    <3>. QED
      BY <3>1, <3>2, <3>3
  <2>4. Cardinality(Unmapped') >= 0
    BY <1>5, <2>2, WaitingIsFinite, ConstantFacts
  <2>5. inits' % Lists # 0 => Cardinality(Unmapped') >= ChunkNode * (Lists - (inits' % Lists))
    BY <1>1, <1>3, <1>5, <2>2
  <2>. QED
    BY <1>1, <2>3, <2>4, <2>5 DEF MemoryReserved
<1>18. ListsEnd'
  BY <1>10, <1>11 DEF ListsEnd
<1>. QED
  BY <1>12, <1>13, <1>15, <1>16, <1>17, <1>18

LEMMA NextIInv == IInv /\ [Next]_vars => IInv'
<1>. SUFFICES ASSUME IInv, [Next]_vars PROVE IInv'
  OBVIOUS
<1>1. CASE InitList
  BY <1>1, InitListStep
<1>2. CASE \E t \in Threads, b \in Buffers :
              \/ BufferInit(t, b) \/ Clear(t, b) \/ FreshCache(t, b)
              \/ \E c \in Buffers : Assign(t, b, c)
  BY <1>2, BeginsStep
<1>3. ASSUME NEW t \in Threads, Work(t) PROVE IInv'
  BY <1>3, MallocStep, ReadHeadStep, TakeStep, RefillStep, FreeStep, LinkOldStep,
     GiveStep DEF Work
<1>4. CASE UNCHANGED vars
  <2>1. UNCHANGED <<size, link, head, mutex, cache, allo, pc, buffer, block, units,
                    alloLen, first, dropped, inits, copied>>
    BY <1>4 DEF vars, memory, buffers, local, history
  <2>2. \A i \in Indices : FreeOn(i)' = FreeOn(i)
    BY <2>1 DEF FreeOn
  <2>. QED
    BY <2>1, <2>2 DEF IInv, TypeOK, CallTypes, CallsInPlace, Place, Old, OldUnits,
       ListsEnd, SizesFit, Fits, OnePlace, HasBuffer, HasThread, HasList,
       MemoryReserved, Waiting, Unmapped
<1>. QED
  BY <1>1, <1>2, <1>3, <1>4 DEF Next

(* The inductive invariant holds in every state. *)
THEOREM Invariance == Spec => []IInv
<1>. QED
  BY InitIInv, NextIInv, PTL DEF Spec

(* Type correctness of the memory, the buffers and the calls. *)
THEOREM TypeCorrect == Spec => []TypeOK
<1>1. IInv => TypeOK
  BY DEF IInv
<1>. QED
  BY <1>1, Invariance, PTL

(* The links through the blocks lead from the head of each free list to an *)
(* end, and to no block twice: refill, allocate and deallocate.            *)
THEOREM FreeListsEnd == Spec => []ListsEnd
<1>1. IInv => ListsEnd
  BY DEF IInv
<1>. QED
  BY <1>1, Invariance, PTL

(* Allocate: a block is with one buffer, with one thread, on one free list *)
(* or dropped by a later init; no two of these share it and none is lost.  *)
THEOREM OnePlaceForEveryBlock == Spec => []EveryBlockHasOnePlace
<1>1. IInv => EveryBlockHasOnePlace
  <2>. SUFFICES ASSUME IInv PROVE EveryBlockHasOnePlace
    OBVIOUS
  <2>. USE DEF IInv
  <2>. DEFINE free == UNION {FreeOn(i) : i \in Indices}
  <2>1. \A b, c \in Buffers : b # c /\ cache[b] # NULL => cache[b] # cache[c]
    BY DEF OnePlace
  <2>2. \A t, u \in Threads : t # u /\ block[t] # NULL => block[t] # block[u]
    BY DEF OnePlace
  <2>3. \A i, j \in Indices : i # j => FreeOn(i) \intersect FreeOn(j) = {}
    BY DEF OnePlace
  <2>4. \A k : k \in Held <=> k \in Blocks /\ HasBuffer(k)
    BY ConstantFacts DEF Held, HasBuffer, TypeOK
  <2>5. \A k : k \in Given <=> k \in Blocks /\ HasThread(k)
    BY ConstantFacts DEF Given, HasThread, CallTypes
  <2>6. \A k : k \in free <=> k \in Blocks /\ HasList(k)
    BY FreeAreBlocks DEF HasList
  <2>7. \A k : k \in Mapped <=> k \in Blocks /\ size[k] > 0
    BY DEF Mapped, Unmapped, TypeOK
  <2>8. dropped \subseteq Blocks
    BY DEF CallTypes
  <2>. HIDE DEF free
  <2>9. /\ Held \intersect Given = {}
        /\ (Held \union Given) \intersect (free \union dropped) = {}
        /\ free \intersect dropped = {}
    BY <2>4, <2>5, <2>6, <2>8 DEF OnePlace
  <2>10. Mapped = Held \union Given \union free \union dropped
    BY <2>4, <2>5, <2>6, <2>7, <2>8 DEF OnePlace
  <2>. QED
    BY <2>1, <2>2, <2>3, <2>9, <2>10 DEF EveryBlockHasOnePlace, free
<1>. QED
  BY <1>1, Invariance, PTL

(* Allocate and Buffer: nobody has a block that is smaller than it thinks, *)
(* and until a buffer is copied nobody has a larger one either.            *)
THEOREM LargeEnough == Spec => []BlocksAreLargeEnough
<1>1. IInv => BlocksAreLargeEnough
  <2>. SUFFICES ASSUME IInv PROVE BlocksAreLargeEnough
    OBVIOUS
  <2>1. \A k \in Blocks, n \in Nat :
           Fits(n, k) => size[k] >= n /\ (copied \/ size[k] = n)
    BY DEF Fits, IInv, TypeOK
  <2>2. \A b \in Buffers : cache[b] # NULL => cache[b] \in Blocks /\ allo[b] \in Nat
    BY DEF IInv, TypeOK
  <2>3. \A i \in Indices : i \in Nat
    BY DEF Indices
  <2>. QED
    BY <2>1, <2>2, <2>3, FreeAreBlocks DEF BlocksAreLargeEnough, SizesFit, IInv
<1>. QED
  BY <1>1, Invariance, PTL
-----------------------------------------------------------------------------
(* AsynLog                                                                 *)

(* ConcatAssociative, for sequences of lines *)
LEMMA Regroup ==
    \A p, q, x \in Seq(Lines) : (p \o q) \o x = p \o (q \o x)
BY ConcatAssociative

(* The inductive invariant of the log. *)

(* STATUS is what init and stop have made it. *)
StatusFollowsMain ==
    STATUS = IF main = "running" THEN "RUN"
             ELSE IF main = "stopped" THEN "STOP" ELSE "INIT"

(* A writer that looks at STATUS before it is set never enters its loop. *)
NoLoopBeforeRun == STATUS = "INIT" => writer \in {"none", "while", "exited"}

(* One line per call. *)
OneLineEach == \A t \in Loggers : Len(saying[t]) <= 1

LogIInv ==
    /\ LogTypeOK
    /\ StatusFollowsMain
    /\ NoLoopBeforeRun
    /\ OneLineEach
    /\ LinesInOrder
    /\ WriterSleepsOnEmpty
    /\ MutexLostOnlyByStop

LEMMA InitLogIInv == LogInit => LogIInv
<1>. SUFFICES ASSUME LogInit PROVE LogIInv
  OBVIOUS
<1>1. <<>> \in Seq(Lines) /\ <<>> \o <<>> = <<>> /\ Len(<<>>) = 0
  BY EmptySeq, ConcatEmptySeq
<1>2. LogTypeOK
  BY <1>1 DEF LogInit, LogTypeOK
<1>3. LinesInOrder
  BY <1>1 DEF LogInit, LinesInOrder
<1>. QED
  BY <1>1, <1>2, <1>3 DEF LogInit, LogIInv, StatusFollowsMain, NoLoopBeforeRun,
     OneLineEach, WriterSleepsOnEmpty, MutexLostOnlyByStop

(* The steps of init, of stop and of the writer that move no line. *)
LEMMA ControlStep ==
    ASSUME LogIInv,
           \/ InitFails \/ CreateWriter \/ SetRun \/ Stop
           \/ While \/ Wait \/ Leave \/ SpuriousWake
    PROVE  LogIInv'
<1>. USE DEF LogIInv
<1>1. UNCHANGED <<log_buffer, content, saying, logged, written>>
  BY DEF InitFails, CreateWriter, SetRun, Stop, While, Wait, Leave, SpuriousWake
<1>2. LinesInOrder' /\ OneLineEach'
  BY <1>1 DEF LinesInOrder, OneLineEach
<1>3. /\ StatusFollowsMain' /\ NoLoopBeforeRun' /\ MutexLostOnlyByStop'
      /\ WriterSleepsOnEmpty' /\ LogTypeOK'
  <2>. USE DEF StatusFollowsMain, NoLoopBeforeRun, MutexLostOnlyByStop,
               WriterSleepsOnEmpty, LogTypeOK, Locks
  <2>1. CASE InitFails
    BY <2>1 DEF InitFails
  <2>2. CASE CreateWriter
    BY <2>2 DEF CreateWriter
  <2>3. CASE SetRun
    BY <2>3 DEF SetRun
  <2>4. CASE Stop
    BY <2>4 DEF Stop
  <2>5. CASE While
    BY <2>5 DEF While
  <2>6. CASE Wait
    BY <2>6 DEF Wait
  <2>7. CASE Leave
    BY <2>7 DEF Leave
  <2>8. CASE SpuriousWake
    BY <2>8 DEF SpuriousWake
  <2>. QED
    BY <2>1, <2>2, <2>3, <2>4, <2>5, <2>6, <2>7, <2>8
<1>. QED
  BY <1>2, <1>3

(* The line that is taken is the oldest: it moves from the front of the    *)
(* buffer into the hand, and the sequence of all lines stays the same.     *)
LEMMA TakeLineStep ==
    ASSUME LogIInv, TakeLine
    PROVE  LogIInv'
<1>. USE DEF LogIInv
<1>1. /\ log_buffer \in Seq(Lines) /\ log_buffer # <<>>
      /\ written \in Seq(Lines) /\ content = <<>>
  BY DEF TakeLine, Locks, LogTypeOK
<1>2. /\ Head(log_buffer) \in Lines /\ Tail(log_buffer) \in Seq(Lines)
      /\ <<Head(log_buffer)>> \in Seq(Lines)
      /\ <<Head(log_buffer)>> \o Tail(log_buffer) = log_buffer
  BY <1>1, HeadTailProperties
<1>3. LogTypeOK'
  BY <1>2 DEF TakeLine, LogTypeOK
<1>4. LinesInOrder'
  <2>1. written' \o content' \o log_buffer'
           = written \o (<<Head(log_buffer)>> \o Tail(log_buffer))
    BY <1>1, <1>2, ConcatAssociative DEF TakeLine
  <2>2. written \o content = written
    BY <1>1, ConcatEmptySeq
  <2>. QED
    BY <1>2, <2>1, <2>2 DEF TakeLine, LinesInOrder
<1>. QED
  BY <1>3, <1>4 DEF TakeLine, Locks, StatusFollowsMain, NoLoopBeforeRun,
     OneLineEach, WriterSleepsOnEmpty, MutexLostOnlyByStop

LEMMA WriteLineStep ==
    ASSUME LogIInv, WriteLine
    PROVE  LogIInv'
<1>. USE DEF LogIInv
<1>1. /\ written \in Seq(Lines) /\ content \in Seq(Lines)
      /\ log_buffer \in Seq(Lines) /\ written \o content \in Seq(Lines)
  BY ConcatProperties DEF LogTypeOK
<1>2. LogTypeOK'
  BY <1>1, EmptySeq DEF WriteLine, LogTypeOK
<1>3. LinesInOrder'
  <2>1. written' \o content' = written \o content
    BY <1>1, ConcatEmptySeq DEF WriteLine
  <2>. QED
    BY <2>1 DEF WriteLine, LinesInOrder
<1>. QED
  BY <1>2, <1>3 DEF WriteLine, StatusFollowsMain, NoLoopBeforeRun,
     OneLineEach, WriterSleepsOnEmpty, MutexLostOnlyByStop

LEMMA CallStep ==
    ASSUME LogIInv, NEW t \in Loggers, NEW line \in Lines, Call(t, line)
    PROVE  LogIInv'
<1>. USE DEF LogIInv
<1>1. <<line>> \in Seq(Lines) /\ Len(<<line>>) = 1
  OBVIOUS
<1>2. LogTypeOK' /\ OneLineEach'
  BY <1>1 DEF Call, LogTypeOK, OneLineEach
<1>. QED
  BY <1>2 DEF Call, StatusFollowsMain, NoLoopBeforeRun, LinesInOrder,
     WriterSleepsOnEmpty, MutexLostOnlyByStop

(* A line that is appended to an empty buffer is alone in it and signalled, *)
(* so the writer is not left asleep.                                        *)
LEMMA ProduceStep ==
    ASSUME LogIInv, NEW t \in Loggers, Produce(t)
    PROVE  LogIInv'
<1>. USE DEF LogIInv
<1>1. saying[t] \in Seq(Lines) /\ Len(saying[t]) = 1
  <2>1. saying[t] # <<>> /\ Len(saying[t]) <= 1 /\ saying[t] \in Seq(Lines)
    BY DEF Produce, OneLineEach, LogTypeOK
  <2>2. Len(saying[t]) \in Nat /\ Len(saying[t]) # 0
    BY <2>1, EmptySeq, LenProperties
  <2>3. \A n \in Nat : n # 0 /\ n <= 1 => n = 1
    OBVIOUS
  <2>. QED
    BY <2>1, <2>2, <2>3, Zenon
<1>2. log_buffer \in Seq(Lines) /\ logged \in Seq(Lines)
  BY DEF LogTypeOK
<1>3. written \o content \in Seq(Lines)
  <2>1. written \in Seq(Lines) /\ content \in Seq(Lines)
    BY DEF LogTypeOK
  <2>. QED
    BY <2>1, ConcatProperties
<1>4. /\ log_buffer' \in Seq(Lines) /\ logged' \in Seq(Lines)
      /\ Len(log_buffer') = Len(log_buffer) + 1
      /\ (written \o content) \o log_buffer'
            = ((written \o content) \o log_buffer) \o saying[t]
  <2>1. log_buffer' = log_buffer \o saying[t] /\ logged' = logged \o saying[t]
    BY DEF Produce
  <2>2. logged \o saying[t] \in Seq(Lines)
    BY <1>1, <1>2, ConcatProperties
  <2>3. /\ log_buffer \o saying[t] \in Seq(Lines)
        /\ Len(log_buffer \o saying[t]) = Len(log_buffer) + Len(saying[t])
    BY <1>1, <1>2, ConcatProperties
  <2>4. ((written \o content) \o log_buffer) \o saying[t]
          = (written \o content) \o (log_buffer \o saying[t])
    BY <1>1, <1>2, <1>3, Regroup, Zenon
  <2>. QED
    BY <1>1, <2>1, <2>2, <2>3, <2>4
<1>5. writer' \in {writer, "woken"} /\ (writer' # writer => writer = "asleep")
  BY DEF Produce, Signal
<1>6. LogTypeOK' /\ OneLineEach'
  BY <1>4, <1>5, EmptySeq DEF Produce, LogTypeOK, OneLineEach
<1>7. LinesInOrder'
  BY <1>4 DEF Produce, LinesInOrder
<1>8. WriterSleepsOnEmpty'
  <2>1. CASE writer = "asleep"
    <3>1. Len(log_buffer') = 1
      BY <2>1, <1>4 DEF WriterSleepsOnEmpty
    <3>. QED
      BY <2>1, <3>1 DEF Produce, Signal, WriterSleepsOnEmpty
  <2>2. CASE writer # "asleep"
    BY <2>2, <1>5 DEF WriterSleepsOnEmpty
  <2>. QED
    BY <2>1, <2>2
<1>. QED
  BY <1>5, <1>6, <1>7, <1>8 DEF Produce, StatusFollowsMain, NoLoopBeforeRun,
     MutexLostOnlyByStop

LEMMA NextLogIInv == LogIInv /\ [LogNext]_logVars => LogIInv'
<1>. SUFFICES ASSUME LogIInv, [LogNext]_logVars PROVE LogIInv'
  OBVIOUS
<1>1. CASE InitFails \/ CreateWriter \/ SetRun \/ Stop \/ SpuriousWake
  BY <1>1, ControlStep
<1>2. CASE Writer
  BY <1>2, ControlStep, TakeLineStep, WriteLineStep DEF Writer
<1>3. CASE \E t \in Loggers, line \in Lines : Call(t, line)
  BY <1>3, CallStep
<1>4. CASE \E t \in Loggers : Produce(t)
  BY <1>4, ProduceStep
<1>5. CASE UNCHANGED logVars
  BY <1>5 DEF logVars, LogIInv, LogTypeOK, StatusFollowsMain, NoLoopBeforeRun,
     OneLineEach, LinesInOrder, WriterSleepsOnEmpty, MutexLostOnlyByStop
<1>. QED
  BY <1>1, <1>2, <1>3, <1>4, <1>5 DEF LogNext

(* The inductive invariant holds in every state. *)
THEOREM LogInvariance == LogSpec => []LogIInv
<1>. QED
  BY InitLogIInv, NextLogIInv, PTL DEF LogSpec

(* produce_log and write_log: the file, the writer's hand and log_buffer    *)
(* are what has been logged, in that order.                                 *)
THEOREM NothingLostOrReordered == LogSpec => []LinesInOrder
<1>1. LogIInv => LinesInOrder
  BY DEF LogIInv
<1>. QED
  BY <1>1, LogInvariance, PTL

(* produce_log: the signal for a line that is alone in log_buffer is enough. *)
THEOREM NoLostWakeup == LogSpec => []WriterSleepsOnEmpty
<1>1. LogIInv => WriterSleepsOnEmpty
  BY DEF LogIInv
<1>. QED
  BY <1>1, LogInvariance, PTL

(* write_log keeps log_mutex only when it leaves after stop. *)
THEOREM MutexIsGivenBack == LogSpec => []MutexLostOnlyByStop
<1>1. LogIInv => MutexLostOnlyByStop
  BY DEF LogIInv
<1>. QED
  BY <1>1, LogInvariance, PTL
=============================================================================
