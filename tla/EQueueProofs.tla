----------------------------- MODULE EQueueProofs -----------------------------
(***************************************************************************)
(* Proofs about the linked list of EQueue, for every set of events and     *)
(* every array length: the links always spell the queue, and the counter   *)
(* is off by exactly what the running operation has done.                  *)
(***************************************************************************)
EXTENDS EQueue, SequenceTheorems, TLAPS

(* The inductive invariant behind Represents and UsedExact: no event is in *)
(* the list twice, and the events pushs has still to link are in no list.  *)
PushsArgument ==
    op = "pushs" =>
       /\ items = Len(arg)
       /\ Distinct(arg)
       /\ \A j \in i + 1 .. items : arg[j] \notin Range(queue)

IInv ==
    /\ TypeOK
    /\ Represents
    /\ UsedExact
    /\ Distinct(queue)
    /\ PushsArgument

LinksOK ==
    /\ begin \in Pointers
    /\ end \in Pointers
    /\ next \in [Events -> Pointers]
    /\ prev \in [Events -> Pointers]

(* Membership in the queue, by position. *)
LEMMA QueuePositions ==
    ASSUME TypeOK
    PROVE  /\ Len(queue) \in Nat
           /\ \A k \in 1..Len(queue) : queue[k] \in Events
           /\ \A k \in 1..Len(queue) : queue[k] \in Range(queue)
           /\ \A e \in Range(queue) : \E k \in 1..Len(queue) : queue[k] = e
           /\ queue = <<>> <=> Len(queue) = 0
<1>1. queue \in Seq(Events)
  BY DEF TypeOK
<1>2. Len(queue) \in Nat /\ DOMAIN queue = 1..Len(queue)
  BY <1>1, LenProperties
<1>3. \A k \in 1..Len(queue) : queue[k] \in Events
  BY <1>1, ElementOfSeq
<1>4. queue = <<>> <=> Len(queue) = 0
  BY <1>1, EmptySeq
<1>. QED
  BY <1>2, <1>3, <1>4 DEF Range

(* What is left to show of a nonempty queue after a step. *)
LEMMA RepresentsNext ==
    ASSUME queue' # <<>>, begin' = queue'[1], end' = queue'[Len(queue')],
           NEW m, Len(queue') = m,
           \A k \in 1..m :
              /\ next'[queue'[k]] = IF k = m THEN NULL ELSE queue'[k + 1]
              /\ prev'[queue'[k]] = IF k = 1 THEN NULL ELSE queue'[k - 1]
    PROVE  Represents'
<1>. QED
  BY DEF Represents

(* pushs: an event of no list becomes the last of this one. *)
LEMMA LinkLastKeepsList ==
    ASSUME TypeOK, Represents, Distinct(queue),
           NEW e \in Events, e \notin Range(queue),
           LinkLast(e), queue' = Append(queue, e)
    PROVE  /\ LinksOK' /\ Represents' /\ Distinct(queue)'
           /\ queue' \in Seq(Events) /\ Len(queue') = Len(queue) + 1
           /\ Range(queue') = Range(queue) \union {e}
<1>. DEFINE n == Len(queue)
<1>1. /\ n \in Nat
      /\ \A k \in 1..n : queue[k] \in Events /\ queue[k] # e
      /\ queue = <<>> <=> n = 0
  BY QueuePositions
<1>2. /\ queue' \in Seq(Events)
      /\ Len(queue') = n + 1
      /\ \A k \in 1..n : queue'[k] = queue[k]
      /\ queue'[n + 1] = e
      /\ queue' # <<>>
  BY AppendProperties DEF TypeOK
<1>3. Distinct(queue)'
  BY <1>1, <1>2 DEF Distinct
<1>4. Range(queue') = Range(queue) \union {e}
  <2>1. DOMAIN queue' = 1..n + 1 /\ DOMAIN queue = 1..n
    BY <1>2, LenProperties DEF TypeOK
  <2>. QED
    BY <1>1, <1>2, <2>1 DEF Range
<1>5. CASE end # NULL
  <2>1. /\ n > 0 /\ end = queue[n] /\ begin = queue[1]
    BY <1>1, <1>5 DEF Represents
  <2>2. /\ next' = [next EXCEPT ![e] = NULL, ![end] = e]
        /\ prev' = [prev EXCEPT ![e] = end]
        /\ end' = e /\ begin' = begin
    BY <1>5 DEF LinkLast
  <2>3. LinksOK'
    BY <1>1, <2>1, <2>2 DEF LinksOK, TypeOK, Pointers
  <2>4. end # e /\ end \in Events
    BY <1>1, <2>1
  <2>5. next'[e] = NULL /\ next'[end] = e /\ prev'[e] = end
    BY <2>2, <2>4 DEF TypeOK
  <2>6. \A x \in Events : /\ x # e /\ x # end => next'[x] = next[x]
                          /\ x # e => prev'[x] = prev[x]
    BY <2>2 DEF TypeOK
  <2>7. begin' = queue'[1] /\ end' = queue'[Len(queue')]
    BY <1>1, <1>2, <2>1, <2>2
  <2>8. ASSUME NEW k \in 1..n + 1
        PROVE  /\ next'[queue'[k]] = IF k = n + 1 THEN NULL ELSE queue'[k + 1]
               /\ prev'[queue'[k]] = IF k = 1 THEN NULL ELSE queue'[k - 1]
    <3>1. CASE k = n + 1
      BY <1>1, <1>2, <2>1, <2>5, <3>1
    <3>2. CASE k = n
      BY <1>1, <1>2, <2>1, <2>5, <2>6, <3>2 DEF Represents
    <3>3. CASE k < n
      <4>1. queue[k] # end /\ queue[k] # e /\ queue[k] \in Events
        BY <1>1, <2>1, <3>3 DEF Distinct
      <4>2. next[queue[k]] = queue[k + 1]
        BY <1>1, <3>3 DEF Represents
      <4>3. prev[queue[k]] = IF k = 1 THEN NULL ELSE queue[k - 1]
        BY <1>1, <3>3 DEF Represents
      <4>. QED
        BY <1>1, <1>2, <2>6, <3>3, <4>1, <4>2, <4>3
    <3>. QED
      BY <1>1, <3>1, <3>2, <3>3
  <2>9. Represents'
    <3>. HIDE DEF n
    <3>. QED
      BY <1>2, <2>7, <2>8, RepresentsNext
  <2>. QED
    BY <1>2, <1>3, <1>4, <2>3, <2>9
<1>6. CASE end = NULL
  <2>1. n = 0
    <3>1. ASSUME n > 0 PROVE FALSE
      <4>1. end = queue[n] /\ queue[n] \in Events
        BY <1>1, <3>1 DEF Represents
      <4>. QED
        BY <1>6, <4>1, EQueueAssumption
    <3>. QED
      BY <1>1, <3>1
  <2>2. /\ next' = [next EXCEPT ![e] = NULL]
        /\ prev' = [prev EXCEPT ![e] = NULL]
        /\ begin' = e /\ end' = e
    BY <1>6 DEF LinkLast
  <2>3. LinksOK'
    BY <2>2 DEF LinksOK, TypeOK, Pointers
  <2>4. next'[e] = NULL /\ prev'[e] = NULL
    BY <2>2 DEF TypeOK
  <2>5. Represents'
    BY <1>2, <2>1, <2>2, <2>4 DEF Represents
  <2>. QED
    BY <1>2, <1>3, <1>4, <2>3, <2>5
<1>. QED
  BY <1>5, <1>6

(* pops and pop: the first event leaves, and the rest is still spelled out.*)
LEMMA UnlinkFirstKeepsList ==
    ASSUME TypeOK, Represents, Distinct(queue),
           UnlinkFirst, queue' = Tail(queue)
    PROVE  /\ LinksOK' /\ Represents' /\ Distinct(queue)'
           /\ queue' \in Seq(Events) /\ Len(queue') = Len(queue) - 1
           /\ Len(queue) > 0 /\ begin = queue[1]
           /\ Range(queue') \subseteq Range(queue)
<1>. DEFINE n == Len(queue)
<1>1. /\ n \in Nat
      /\ \A k \in 1..n : queue[k] \in Events
      /\ queue = <<>> <=> n = 0
  BY QueuePositions
<1>2. n > 0 /\ begin = queue[1] /\ end = queue[n] /\ queue # <<>>
  BY <1>1 DEF UnlinkFirst, Represents
<1>3. /\ queue' \in Seq(Events)
      /\ Len(queue') = n - 1
      /\ \A k \in 1..n - 1 : queue'[k] = queue[k + 1]
      /\ queue' = <<>> <=> n = 1
  <2>1. queue \in Seq(Events) /\ queue # <<>>
    BY <1>2 DEF TypeOK
  <2>2. /\ Tail(queue) \in Seq(Events)
        /\ Len(Tail(queue)) = n - 1
        /\ \A k \in 1..n - 1 : Tail(queue)[k] = queue[k + 1]
    BY <2>1, HeadTailProperties
  <2>3. Tail(queue) = <<>> <=> Len(Tail(queue)) = 0
    BY <2>2, EmptySeq
  <2>. QED
    BY <1>1, <2>2, <2>3
<1>4. Distinct(queue)'
  BY <1>1, <1>3 DEF Distinct
<1>5. Range(queue') \subseteq Range(queue)
  <2>1. DOMAIN queue' = 1..n - 1 /\ DOMAIN queue = 1..n
    BY <1>3, LenProperties DEF TypeOK
  <2>. QED
    BY <1>1, <1>3, <2>1 DEF Range
<1>6. /\ begin' = next[begin]
      /\ next' = [next EXCEPT ![begin] = NULL]
      /\ begin' = IF n = 1 THEN NULL ELSE queue[2]
      /\ begin \in Events
  <2>1. begin' = next[begin] /\ next' = [next EXCEPT ![begin] = NULL]
    BY DEF UnlinkFirst
  <2>2. 1 \in 1..n /\ begin = queue[1] /\ begin \in Events
    BY <1>1, <1>2
  <2>3. next[queue[1]] = IF 1 = n THEN NULL ELSE queue[1 + 1]
    BY <2>2 DEF Represents
  <2>. QED
    BY <1>1, <2>1, <2>2, <2>3
<1>7. CASE n = 1
  <2>1. begin' = NULL
    BY <1>6, <1>7
  <2>2. end' = NULL /\ prev' = [prev EXCEPT ![begin] = NULL]
    BY <2>1 DEF UnlinkFirst
  <2>3. LinksOK'
    BY <1>6, <2>1, <2>2 DEF LinksOK, TypeOK, Pointers
  <2>4. Represents'
    BY <1>3, <1>7, <2>1, <2>2 DEF Represents
  <2>. QED
    BY <1>2, <1>3, <1>4, <1>5, <2>3, <2>4
<1>8. CASE n > 1
  <2>1. begin' = queue[2] /\ begin' \in Events /\ begin' # NULL
    BY <1>1, <1>6, <1>8, EQueueAssumption
  <2>2. /\ end' = end
        /\ prev' = [prev EXCEPT ![begin] = NULL, ![begin'] = NULL]
    BY <2>1 DEF UnlinkFirst
  <2>3. LinksOK'
    BY <1>6, <2>1, <2>2 DEF LinksOK, TypeOK, Pointers
  <2>4. begin' = queue'[1] /\ end' = queue'[Len(queue')]
    BY <1>1, <1>2, <1>3, <1>8, <2>1, <2>2
  <2>5. ASSUME NEW k \in 1..n - 1
        PROVE  /\ next'[queue'[k]] = IF k = n - 1 THEN NULL ELSE queue'[k + 1]
               /\ prev'[queue'[k]] = IF k = 1 THEN NULL ELSE queue'[k - 1]
    <3>1. /\ queue'[k] = queue[k + 1]
          /\ queue[k + 1] # begin /\ queue[k + 1] \in Events
      BY <1>1, <1>2, <1>3 DEF Distinct
    <3>2. next'[queue'[k]] = next[queue[k + 1]]
      BY <1>6, <3>1 DEF TypeOK
    <3>3. next[queue[k + 1]] = IF k + 1 = n THEN NULL ELSE queue[k + 2]
      BY <1>1 DEF Represents
    <3>4. next'[queue'[k]] = IF k = n - 1 THEN NULL ELSE queue'[k + 1]
      <4>1. CASE k = n - 1
        BY <1>1, <3>2, <3>3, <4>1
      <4>2. CASE k # n - 1
        <5>1. k + 1 \in 1..n - 1 /\ k + 1 # n /\ k + 1 + 1 = k + 2
          BY <1>1, <4>2
        <5>2. queue'[k + 1] = queue[k + 2]
          BY <1>3, <5>1
        <5>. QED
          BY <3>2, <3>3, <4>2, <5>1, <5>2
      <4>. QED
        BY <4>1, <4>2
    <3>5. CASE k = 1
      <4>1. queue'[k] = begin'
        BY <2>1, <3>1, <3>5
      <4>2. prev'[begin'] = NULL
        BY <2>1, <2>2 DEF TypeOK
      <4>. QED
        BY <3>4, <3>5, <4>1, <4>2
    <3>6. CASE k > 1
      <4>1. queue[k + 1] # begin'
        BY <1>1, <2>1, <3>6 DEF Distinct
      <4>2. prev'[queue[k + 1]] = prev[queue[k + 1]]
        BY <2>1, <2>2, <3>1, <4>1 DEF TypeOK
      <4>3. prev[queue[k + 1]] = queue[k]
        BY <1>1, <3>6 DEF Represents
      <4>4. queue'[k - 1] = queue[k]
        BY <1>1, <1>3, <3>6
      <4>. QED
        BY <3>1, <3>4, <3>6, <4>2, <4>3, <4>4
    <3>. QED
      BY <3>5, <3>6
  <2>6. Represents'
    <3>1. queue' # <<>> /\ Len(queue') = n - 1
      BY <1>3, <1>8
    <3>. HIDE DEF n
    <3>. QED
      BY <2>4, <2>5, <3>1, RepresentsNext
  <2>. QED
    BY <1>2, <1>3, <1>4, <1>5, <2>3, <2>6
<1>9. n = 1 \/ n > 1
  <2>1. n \in Nat /\ n > 0
    BY <1>1, <1>2
  <2>. HIDE DEF n
  <2>. QED
    BY <2>1
<1>. QED
  BY <1>7, <1>8, <1>9

(* erase: the neighbours of the event that leaves point past it. *)
LEMMA UnlinkKeepsList ==
    ASSUME TypeOK, Represents, Distinct(queue),
           NEW p \in 1..Len(queue), Unlink(queue[p]),
           queue' = [j \in 1..Len(queue) - 1 |->
                       IF j < p THEN queue[j] ELSE queue[j + 1]]
    PROVE  /\ LinksOK' /\ Represents' /\ Distinct(queue)'
           /\ queue' \in Seq(Events) /\ Len(queue') = Len(queue) - 1
<1>. DEFINE n == Len(queue)
<1>1. /\ n \in Nat
      /\ \A k \in 1..n : queue[k] \in Events
      /\ queue = <<>> <=> n = 0
  BY QueuePositions
<1>2. /\ begin = queue[1] /\ end = queue[n]
      /\ queue[p] \in Events /\ begin \in Events /\ end \in Events
  BY <1>1 DEF Represents
<1>3. /\ queue' \in Seq(Events)
      /\ Len(queue') = n - 1
      /\ \A j \in 1..n - 1 : queue'[j] = IF j < p THEN queue[j]
                                                 ELSE queue[j + 1]
      /\ queue' = <<>> <=> n = 1
  <2>. DEFINE el(j) == IF j < p THEN queue[j] ELSE queue[j + 1]
  <2>1. n - 1 \in Nat /\ \A j \in 1..n - 1 : el(j) \in Events
    BY <1>1
  <2>2. queue' = [j \in 1..n - 1 |-> el(j)]
    OBVIOUS
  <2>. HIDE DEF n, el
  <2>3. queue' \in [1..n - 1 -> Events]
    BY <2>1, <2>2
  <2>4. queue' \in Seq(Events)
    <3>. DEFINE m == n - 1
    <3>1. m \in Nat /\ queue' \in [1..m -> Events]
      BY <2>1, <2>3
    <3>. HIDE DEF m
    <3>. QED
      BY <3>1, SeqDef
  <2>5. Len(queue') = n - 1
    BY <2>1, <2>3, <2>4, LenProperties
  <2>6. \A j \in 1..n - 1 : queue'[j] = el(j)
    BY <2>2
  <2>7. queue' = <<>> <=> Len(queue') = 0
    BY <2>4, EmptySeq
  <2>8. n \in Nat
    BY <1>1
  <2>9. queue' = <<>> <=> n = 1
    BY <2>5, <2>7, <2>8
  <2>. QED
    BY <2>4, <2>5, <2>6, <2>9 DEF el
<1>4. Distinct(queue)'
  BY <1>1, <1>3 DEF Distinct
<1>5. CASE queue[p] = begin
  <2>1. 1 \in 1..n /\ p = 1
    BY <1>1, <1>2, <1>5 DEF Distinct
  <2>2. queue' = Tail(queue)
    <3>1. queue \in Seq(Events) /\ queue # <<>>
      BY <1>1, <2>1 DEF TypeOK
    <3>2. /\ Tail(queue) \in Seq(Events)
          /\ Len(Tail(queue)) = n - 1
          /\ \A j \in 1..n - 1 : Tail(queue)[j] = queue[j + 1]
      BY <3>1, HeadTailProperties
    <3>3. \A j \in 1..n - 1 : queue'[j] = queue[j + 1]
      BY <1>3, <2>1
    <3>4. \A j \in 1..Len(queue') : queue'[j] = Tail(queue)[j]
      BY <1>3, <3>2, <3>3
    <3>. QED
      BY <1>3, <3>2, <3>4, SeqEqual
  <2>3. UnlinkFirst
    BY <1>5 DEF Unlink
  <2>. QED
    BY <2>2, <2>3, UnlinkFirstKeepsList
<1>6. CASE queue[p] # begin
  <2>. DEFINE e == queue[p]
              a == queue[p - 1]
  <2>1. /\ p \in 2..n /\ p - 1 \in 1..n
        /\ a \in Events /\ e \in Events /\ a # e
        /\ prev[e] = a
        /\ next[e] = IF p = n THEN NULL ELSE queue[p + 1]
    <3>1. p # 1
      BY <1>2, <1>6
    <3>2. p \in 2..n /\ p - 1 \in 1..n /\ p # p - 1
      BY <1>1, <3>1
    <3>3. a \in Events /\ e \in Events /\ a # e
      BY <1>1, <3>2 DEF Distinct
    <3>4. prev[e] = a
      BY <3>1 DEF Represents
    <3>5. next[e] = IF p = n THEN NULL ELSE queue[p + 1]
      BY DEF Represents
    <3>. QED
      BY <3>2, <3>3, <3>4, <3>5
  <2>2. e = end <=> p = n
    <3>1. n \in 1..n
      BY <1>1
    <3>. QED
      BY <1>2, <3>1 DEF Distinct
  <2>3. /\ next' \in [Events -> Pointers]
        /\ \A x \in Events : next'[x] = IF x = e THEN NULL
                                         ELSE IF x = a THEN next[e]
                                         ELSE next[x]
    <3>1. CASE e = end
      <4>1. next' = [next EXCEPT ![a] = NULL, ![e] = NULL]
        BY <1>6, <2>1, <3>1, EQueueAssumption DEF Unlink
      <4>2. next[e] = NULL
        BY <2>1, <2>2, <3>1
      <4>. QED
        BY <2>1, <4>1, <4>2 DEF TypeOK, Pointers
    <3>2. CASE e # end
      <4>1. next' = [next EXCEPT ![a] = next[e], ![e] = NULL]
        BY <1>6, <2>1, <3>2 DEF Unlink
      <4>. QED
        BY <2>1, <4>1 DEF TypeOK, Pointers
    <3>. QED
      BY <3>1, <3>2
  <2>4. p < n => queue[p + 1] \in Events /\ queue[p + 1] # e
    BY <1>1 DEF Distinct
  <2>5. /\ prev' \in [Events -> Pointers]
        /\ \A x \in Events :
              prev'[x] = IF x = e THEN NULL
                         ELSE IF p < n /\ x = queue[p + 1] THEN a
                         ELSE prev[x]
    <3>1. CASE e = end
      <4>1. prev' = [prev EXCEPT ![e] = NULL]
        BY <1>6, <3>1 DEF Unlink
      <4>2. ~(p < n)
        BY <1>1, <2>2, <3>1
      <4>. QED
        BY <2>1, <4>1, <4>2 DEF TypeOK, Pointers
    <3>2. CASE e # end
      <4>1. p < n
        BY <1>1, <2>2, <3>2
      <4>2. prev' = [prev EXCEPT ![next[e]] = prev[e], ![e] = NULL]
        BY <1>6, <3>2 DEF Unlink
      <4>3. next[e] = queue[p + 1] /\ prev[e] = a
        BY <1>1, <2>1, <4>1
      <4>4. prev' = [prev EXCEPT ![queue[p + 1]] = a, ![e] = NULL]
        BY <4>2, <4>3
      <4>. QED
        BY <2>1, <2>4, <4>1, <4>4 DEF TypeOK, Pointers
    <3>. QED
      BY <3>1, <3>2
  <2>6. begin' = begin /\ end' = IF p = n THEN a ELSE end
    BY <1>6, <2>1, <2>2, EQueueAssumption DEF Unlink
  <2>7. LinksOK'
    BY <1>2, <2>1, <2>3, <2>5, <2>6 DEF LinksOK, Pointers
  <2>8. /\ begin' = queue'[1]
        /\ end' = queue'[Len(queue')]
        /\ queue' # <<>>
    <3>1. 1 \in 1..n - 1 /\ n - 1 \in 1..n - 1
      BY <1>1, <2>1
    <3>2. queue'[1] = queue[1]
      BY <1>3, <2>1, <3>1
    <3>3. queue'[n - 1] = IF p = n THEN a ELSE queue[n]
      BY <1>1, <1>3, <2>1, <3>1
    <3>. QED
      BY <1>1, <1>2, <1>3, <2>1, <2>6, <3>2, <3>3
  <2>9. ASSUME NEW k \in 1..n - 1
        PROVE  /\ next'[queue'[k]] = IF k = n - 1 THEN NULL ELSE queue'[k + 1]
               /\ prev'[queue'[k]] = IF k = 1 THEN NULL ELSE queue'[k - 1]
    <3>1. k \in Nat /\ k \in 1..n /\ k + 1 \in 1..n /\ p \in Nat /\ n \in Nat
      BY <1>1
    <3>2. CASE k < p
      <4>1. queue'[k] = queue[k] /\ queue[k] # e /\ queue[k] \in Events
        BY <1>1, <1>3, <3>1, <3>2 DEF Distinct
      <4>2. prev'[queue[k]] = prev[queue[k]]
        <5>1. p < n => queue[k] # queue[p + 1]
          BY <3>1, <3>2 DEF Distinct
        <5>. QED
          BY <2>5, <4>1, <5>1
      <4>3. prev[queue[k]] = IF k = 1 THEN NULL ELSE queue[k - 1]
        BY <3>1 DEF Represents
      <4>4. k # 1 => queue'[k - 1] = queue[k - 1]
        BY <1>3, <3>1, <3>2
      <4>5. CASE k = p - 1
        <5>1. next'[queue'[k]] = IF p = n THEN NULL ELSE queue[p + 1]
          BY <2>1, <2>3, <4>1, <4>5
        <5>2. p # n => k + 1 \in 1..n - 1 /\ queue'[k + 1] = queue[p + 1]
          BY <1>3, <2>1, <3>1, <4>5
        <5>3. p = n <=> k = n - 1
          BY <3>1, <4>5
        <5>. QED
          BY <4>1, <4>2, <4>3, <4>4, <5>1, <5>2, <5>3
      <4>6. CASE k # p - 1
        <5>1. queue[k] # a
          BY <2>1, <3>1, <4>6 DEF Distinct
        <5>2. next'[queue'[k]] = next[queue[k]]
          BY <2>3, <4>1, <5>1
        <5>3. next[queue[k]] = queue[k + 1] /\ k # n - 1
          BY <2>1, <3>1, <3>2, <4>6 DEF Represents
        <5>4. queue'[k + 1] = queue[k + 1]
          BY <1>3, <2>1, <3>1, <3>2, <4>6
        <5>. QED
          BY <4>1, <4>2, <4>3, <4>4, <5>2, <5>3, <5>4
      <4>. QED
        BY <4>5, <4>6
    <3>3. CASE k >= p
      <4>1. /\ queue'[k] = queue[k + 1]
            /\ queue[k + 1] # e /\ queue[k + 1] # a
            /\ queue[k + 1] \in Events
        BY <1>1, <1>3, <2>1, <3>1, <3>3 DEF Distinct
      <4>2. next'[queue'[k]] = next[queue[k + 1]]
        BY <2>3, <4>1
      <4>3. next[queue[k + 1]] = IF k + 1 = n THEN NULL ELSE queue[k + 1 + 1]
        BY <3>1 DEF Represents
      <4>4. k # n - 1 => queue'[k + 1] = queue[k + 1 + 1]
        BY <1>3, <3>1, <3>3
      <4>5. next'[queue'[k]] = IF k = n - 1 THEN NULL ELSE queue'[k + 1]
        BY <3>1, <4>2, <4>3, <4>4
      <4>6. k # 1
        BY <2>1, <3>1, <3>3
      <4>7. CASE k = p
        <5>1. p < n /\ queue[k + 1] = queue[p + 1]
          BY <3>1, <4>7
        <5>2. prev'[queue'[k]] = a
          BY <2>5, <4>1, <5>1
        <5>3. queue'[k - 1] = a
          BY <1>3, <2>1, <3>1, <4>7
        <5>. QED
          BY <4>5, <4>6, <5>2, <5>3
      <4>8. CASE k > p
        <5>1. queue[k + 1] # queue[p + 1] /\ p < n
          BY <3>1, <4>8 DEF Distinct
        <5>2. prev'[queue'[k]] = prev[queue[k + 1]]
          BY <2>5, <4>1, <5>1
        <5>3. prev[queue[k + 1]] = queue[k]
          BY <3>1 DEF Represents
        <5>4. queue'[k - 1] = queue[k]
          <6>1. k - 1 \in 1..n - 1 /\ ~(k - 1 < p) /\ (k - 1) + 1 = k
            BY <2>1, <3>1, <4>8
          <6>. QED
            BY <1>3, <6>1
        <5>. QED
          BY <4>5, <4>6, <5>2, <5>3, <5>4
      <4>. QED
        BY <3>1, <3>3, <4>7, <4>8
    <3>. QED
      BY <3>1, <3>2, <3>3
  <2>10. Represents'
    <3>1. Len(queue') = n - 1
      BY <1>3
    <3>. HIDE DEF n
    <3>. QED
      BY <2>8, <2>9, <3>1, RepresentsNext
  <2>. QED
    BY <1>3, <1>4, <2>7, <2>10
<1>. QED
  BY <1>5, <1>6
-----------------------------------------------------------------------------
(* Steps that leave the list alone. *)
LEMMA SameList ==
    ASSUME IInv, UNCHANGED <<list, queue>>
    PROVE  /\ LinksOK' /\ Represents' /\ Distinct(queue)'
           /\ queue' \in Seq(Events)
<1>. QED
  BY DEF IInv, list, LinksOK, TypeOK, Represents, Distinct

LEMMA ArrayIsSequence ==
    ASSUME NEW evs \in Arrays
    PROVE  evs \in Seq(Events) /\ Len(evs) \in 1..MaxItems
<1>1. PICK n \in 1..MaxItems : evs \in [1..n -> Events]
  BY DEF Arrays
<1>2. n \in Nat
  BY <1>1, EQueueAssumption
<1>3. evs \in Seq(Events)
  BY <1>1, <1>2, SeqDef
<1>. QED
  BY <1>1, <1>2, <1>3, LenProperties

LEMMA PushsStepIInv == ASSUME IInv, PushsStep PROVE IInv'
<1>. DEFINE e == arg[i + 1]
<1>. USE DEF IInv
<1>1. /\ op = "pushs" /\ i \in Nat /\ items \in Nat /\ i + 1 \in i + 1 .. items
      /\ Len(arg) = items /\ arg \in Seq(Events) /\ op' = op
      /\ arg' = arg /\ items' = items /\ i' = i + 1 /\ used' = used
      /\ before' = before
  BY EQueueAssumption DEF PushsStep, PushsArgument, TypeOK
<1>2. e \in Events
  BY <1>1, ElementOfSeq
<1>3. e \notin Range(queue)
  BY <1>1 DEF PushsArgument
<1>4. LinkLast(e) /\ queue' = Append(queue, e)
  BY DEF PushsStep
<1>. HIDE DEF e
<1>5. /\ LinksOK' /\ Represents' /\ Distinct(queue)'
      /\ queue' \in Seq(Events) /\ Len(queue') = Len(queue) + 1
      /\ Range(queue') = Range(queue) \union {e}
  BY <1>2, <1>3, <1>4, LinkLastKeepsList
<1>6. TypeOK'
  BY <1>1, <1>5 DEF TypeOK, LinksOK
<1>7. UsedExact'
  <2>1. Len(queue) \in Nat /\ used = Len(queue) - i
    BY <1>1, QueuePositions DEF UsedExact
  <2>. QED
    BY <1>1, <1>5, <2>1 DEF UsedExact
<1>8. PushsArgument'
  <2>1. ASSUME NEW j \in i' + 1 .. items'
        PROVE  arg'[j] \notin Range(queue')
    <3>1. j \in i + 1 .. items /\ j # i + 1 /\ j \in 1..Len(arg)
          /\ i + 1 \in 1..Len(arg)
      BY <1>1
    <3>2. arg[j] # e
      BY <1>1, <3>1 DEF PushsArgument, Distinct, e
    <3>3. arg[j] \notin Range(queue)
      BY <1>1, <3>1 DEF PushsArgument
    <3>. QED
      BY <1>1, <1>5, <3>2, <3>3
  <2>2. Distinct(arg)' /\ items' = Len(arg')
    BY <1>1 DEF PushsArgument, Distinct
  <2>. QED
    BY <2>1, <2>2 DEF PushsArgument
<1>. QED
  BY <1>5, <1>6, <1>7, <1>8

LEMMA PopsStepIInv == ASSUME IInv, PopsStep PROVE IInv'
<1>. USE DEF IInv
<1>1. /\ op = "pops" /\ i \in Nat /\ items \in Nat /\ i < items
      /\ op' = op /\ items' = items /\ i' = i + 1 /\ used' = used
      /\ arg' = Append(arg, begin) /\ arg \in Seq(Events) /\ before' = before
  BY EQueueAssumption DEF PopsStep, TypeOK
<1>2. UnlinkFirst /\ queue' = Tail(queue)
  BY DEF PopsStep
<1>3. /\ LinksOK' /\ Represents' /\ Distinct(queue)'
      /\ queue' \in Seq(Events) /\ Len(queue') = Len(queue) - 1
      /\ Len(queue) > 0 /\ begin = queue[1]
  BY <1>2, UnlinkFirstKeepsList
<1>4. Len(queue) \in Nat /\ begin \in Events
  BY <1>3, QueuePositions
<1>5. arg' \in Seq(Events)
  BY <1>1, <1>4, AppendProperties
<1>6. TypeOK'
  BY <1>1, <1>3, <1>5 DEF TypeOK, LinksOK
<1>7. UsedExact' /\ PushsArgument'
  BY <1>1, <1>3, <1>4 DEF UsedExact, PushsArgument
<1>. QED
  BY <1>3, <1>6, <1>7

LEMMA PopIInv == ASSUME IInv, Pop PROVE IInv'
<1>. USE DEF IInv
<1>1. /\ op = "idle" /\ op' = "pop" /\ arg' = <<begin>> /\ items' = 1
      /\ i' = 0 /\ before' = queue /\ used' = used
      /\ UnlinkFirst /\ queue' = Tail(queue)
  BY DEF Pop, Start
<1>2. /\ LinksOK' /\ Represents' /\ Distinct(queue)'
      /\ queue' \in Seq(Events) /\ Len(queue') = Len(queue) - 1
      /\ Len(queue) > 0 /\ begin = queue[1]
  BY <1>1, UnlinkFirstKeepsList
<1>3. Len(queue) \in Nat /\ begin \in Events
  BY <1>2, QueuePositions
<1>4. arg' \in Seq(Events)
  BY <1>1, <1>3
<1>5. TypeOK'
  BY <1>1, <1>2, <1>4, EQueueAssumption DEF TypeOK, LinksOK, Ops
<1>6. UsedExact' /\ PushsArgument'
  BY <1>1, <1>2, <1>3 DEF UsedExact, PushsArgument
<1>. QED
  BY <1>2, <1>5, <1>6

LEMMA EraseIInv ==
    ASSUME IInv, NEW k \in 1..Len(queue), Erase(k) PROVE IInv'
<1>. USE DEF IInv
<1>1. /\ op = "idle" /\ op' = "erase" /\ arg' = <<queue[k]>> /\ items' = 1
      /\ i' = 0 /\ before' = queue /\ used' = used
  BY DEF Erase, Start
<1>2. /\ LinksOK' /\ Represents' /\ Distinct(queue)'
      /\ queue' \in Seq(Events) /\ Len(queue') = Len(queue) - 1
  BY UnlinkKeepsList DEF Erase
<1>3. Len(queue) \in Nat /\ queue[k] \in Events
  BY QueuePositions
<1>4. arg' \in Seq(Events)
  BY <1>1, <1>3
<1>5. TypeOK'
  BY <1>1, <1>2, <1>4, EQueueAssumption DEF TypeOK, LinksOK, Ops
<1>6. UsedExact' /\ PushsArgument'
  BY <1>1, <1>2, <1>3 DEF UsedExact, PushsArgument
<1>. QED
  BY <1>2, <1>5, <1>6

(* The returns: afterwards the counter is exact. *)
LEMMA FinishIInv ==
    ASSUME IInv, NEW delta, Finish(delta), used + delta = Len(queue)
    PROVE  IInv'
<1>. USE DEF IInv
<1>1. /\ LinksOK' /\ Represents' /\ Distinct(queue)'
      /\ queue' \in Seq(Events)
  BY SameList DEF Finish
<1>2. Len(queue) \in Nat
  BY QueuePositions
<1>3. TypeOK'
  BY <1>1, <1>2, EQueueAssumption, EmptySeq DEF Finish, TypeOK, LinksOK, Ops
<1>4. UsedExact' /\ PushsArgument'
  BY DEF Finish, UsedExact, PushsArgument
<1>. QED
  BY <1>1, <1>3, <1>4

LEMMA ClearIInv == ASSUME IInv, Clear PROVE IInv'
<1>. USE DEF IInv
<1>1. queue' = <<>> /\ queue' \in Seq(Events) /\ Len(queue') = 0
  BY EmptySeq DEF Clear
<1>2. TypeOK'
  BY <1>1 DEF Clear, TypeOK, Pointers
<1>3. Represents' /\ Distinct(queue)' /\ UsedExact' /\ PushsArgument'
  BY <1>1 DEF Clear, Represents, Distinct, UsedExact, PushsArgument
<1>. QED
  BY <1>2, <1>3
-----------------------------------------------------------------------------
LEMMA InitIInv == Init => IInv
<1>1. <<>> \in Seq(Events) /\ Len(<<>>) = 0
  BY EmptySeq
<1>. QED
  BY <1>1, EQueueAssumption
     DEF Init, IInv, TypeOK, Represents, UsedExact, Distinct, PushsArgument,
         Pointers, Ops

(* Every step of every operation preserves the inductive invariant. *)
LEMMA NextIInv == IInv /\ [Next]_vars => IInv'
<1>. SUFFICES ASSUME IInv, [Next]_vars PROVE IInv'
  OBVIOUS
<1>. USE DEF IInv
<1>0. Len(queue) \in Nat
  BY QueuePositions
<1>1. ASSUME NEW evs \in Arrays, Distinct(evs), PushsCall(evs),
             Range(evs) \intersect Range(queue) = {}
      PROVE  IInv'
  <2>1. LinksOK' /\ Represents' /\ Distinct(queue)' /\ queue' \in Seq(Events)
    BY <1>1, SameList DEF PushsCall
  <2>2. evs \in Seq(Events) /\ Len(evs) \in 1..MaxItems
    BY ArrayIsSequence
  <2>3. TypeOK'
    BY <1>1, <2>1, <2>2, EQueueAssumption
       DEF PushsCall, Start, TypeOK, LinksOK, Ops
  <2>4. UsedExact'
    BY <1>0, <1>1 DEF PushsCall, Start, UsedExact
  <2>5. PushsArgument'
    <3>1. \A j \in 1..Len(evs) : evs[j] \in Range(evs)
      BY <2>2, LenProperties DEF Range
    <3>. QED
      BY <1>1, <2>2, <3>1 DEF PushsCall, Start, PushsArgument, Distinct
  <2>. QED
    BY <2>1, <2>3, <2>4, <2>5
<1>2. CASE PushsStep
  BY <1>2, PushsStepIInv
<1>3. CASE PushsReturn
  <2>1. used + items = Len(queue) /\ Finish(items)
    BY <1>0, <1>3 DEF PushsReturn, UsedExact, TypeOK
  <2>. QED
    BY <2>1, FinishIInv
<1>4. ASSUME NEW n \in 1..MaxItems, PopsCall(n) PROVE IInv'
  <2>1. LinksOK' /\ Represents' /\ Distinct(queue)' /\ queue' \in Seq(Events)
    BY <1>4, SameList DEF PopsCall
  <2>2. TypeOK'
    BY <1>4, <2>1, EQueueAssumption, EmptySeq
       DEF PopsCall, Start, TypeOK, LinksOK, Ops
  <2>3. UsedExact' /\ PushsArgument'
    BY <1>0, <1>4 DEF PopsCall, Start, UsedExact, PushsArgument
  <2>. QED
    BY <2>1, <2>2, <2>3
<1>5. CASE PopsStep
  BY <1>5, PopsStepIInv
<1>6. CASE PopsReturn
  <2>1. used + (-i) = Len(queue) /\ Finish(-i)
    BY <1>0, <1>6, EQueueAssumption DEF PopsReturn, UsedExact, TypeOK
  <2>. QED
    BY <2>1, FinishIInv
<1>7. CASE Pop
  BY <1>7, PopIInv
<1>8. ASSUME NEW k \in 1..Len(queue), Erase(k) PROVE IInv'
  BY <1>8, EraseIInv
<1>9. CASE Decrement
  <2>1. used + (-1) = Len(queue) /\ Finish(-1)
    BY <1>0, <1>9 DEF Decrement, UsedExact
  <2>. QED
    BY <2>1, FinishIInv
<1>10. CASE Clear
  BY <1>10, ClearIInv
<1>11. CASE UNCHANGED vars
  <2>1. TypeOK' /\ Represents'
    BY <1>11 DEF vars, TypeOK, Represents
  <2>2. UsedExact' /\ Distinct(queue)' /\ PushsArgument'
    BY <1>11 DEF vars, UsedExact, Distinct, PushsArgument
  <2>. QED
    BY <2>1, <2>2
<1>. QED
  BY <1>1, <1>2, <1>3, <1>4, <1>5, <1>6, <1>7, <1>8, <1>9, <1>10, <1>11
     DEF Next

THEOREM Invariance == Spec => []IInv
<1>. QED
  BY InitIInv, NextIInv, PTL DEF Spec

(* The state stays well typed. *)
THEOREM TypeCorrect == Spec => []TypeOK
<1>1. IInv => TypeOK
  BY DEF IInv
<1>. QED
  BY <1>1, Invariance, PTL

(* The links spell the queue, whatever sequence of operations was run.     *)
THEOREM ListRepresentsQueue == Spec => []Represents
<1>1. IInv => Represents
  BY DEF IInv
<1>. QED
  BY <1>1, Invariance, PTL

(* The counter is off by what the running operation has done and exact when*)
(* none runs.                                                              *)
THEOREM CounterIsExact == Spec => []UsedExact
<1>1. IInv => UsedExact
  BY DEF IInv
<1>. QED
  BY <1>1, Invariance, PTL
-----------------------------------------------------------------------------
(* Of any two lists, an event that leaves the front of the second for the  *)
(* back of the first leaves their concatenation as it was.                 *)
LEMMA MoveOne ==
    ASSUME NEW S, NEW s \in Seq(S), NEW t \in Seq(S), t # <<>>
    PROVE  Append(s, t[1]) \o Tail(t) = s \o t
<1>1. /\ Len(s) \in Nat /\ Len(t) \in Nat /\ Len(t) > 0
      /\ t[1] \in S
  BY EmptySeq, LenProperties, ElementOfSeq
<1>2. /\ Tail(t) \in Seq(S) /\ Len(Tail(t)) = Len(t) - 1
      /\ \A k \in 1..Len(t) - 1 : Tail(t)[k] = t[k + 1]
  BY HeadTailProperties
<1>3. <<t[1]>> \in Seq(S) /\ Append(s, t[1]) = s \o <<t[1]>>
  BY <1>1, AppendIsConcat
<1>4. (s \o <<t[1]>>) \o Tail(t) = s \o (<<t[1]>> \o Tail(t))
  BY <1>2, <1>3, ConcatAssociative
<1>5. <<t[1]>> \o Tail(t) = t
  <2>1. Len(<<t[1]>>) = 1 /\ <<t[1]>>[1] = t[1]
    OBVIOUS
  <2>2. /\ <<t[1]>> \o Tail(t) \in Seq(S)
        /\ Len(<<t[1]>> \o Tail(t)) = Len(t)
        /\ \A k \in 1..Len(t) : (<<t[1]>> \o Tail(t))[k] =
              IF k <= 1 THEN <<t[1]>>[k] ELSE Tail(t)[k - 1]
    <3>. DEFINE f == <<t[1]>>
    <3>1. f \in Seq(S) /\ Len(f) = 1
      BY <1>3, <2>1
    <3>. HIDE DEF f
    <3>. QED
      BY <1>1, <1>2, <3>1, ConcatProperties DEF f
  <2>3. \A k \in 1..Len(t) : (<<t[1]>> \o Tail(t))[k] = t[k]
    BY <1>1, <1>2, <2>1, <2>2
  <2>. QED
    BY <2>2, <2>3, SeqEqual
<1>. QED
  BY <1>3, <1>4, <1>5

(* The list after pushs has appended one more event of its array.          *)
LEMMA AppendOneMore ==
    ASSUME NEW S, NEW s \in Seq(S), NEW t \in Seq(S), NEW k \in 1..Len(t)
    PROVE  Append(s \o SubSeq(t, 1, k - 1), t[k]) = s \o SubSeq(t, 1, k)
<1>1. Len(t) \in Nat /\ t[k] \in S
  BY LenProperties, ElementOfSeq
<1>2. SubSeq(t, 1, k) = SubSeq(t, 1, k - 1) \o <<t[k]>>
  <2>1. 1 \in 1..Len(t) /\ k \in 1..Len(t)
    BY <1>1
  <2>. QED
    BY <2>1, SubSeqRecursiveSecond
<1>3. SubSeq(t, 1, k - 1) \in Seq(S)
  <2>1. \A j \in 1..k - 1 : t[j] \in S
    BY <1>1, ElementOfSeq
  <2>. QED
    BY <1>1, <2>1, SubSeqProperties
<1>4. s \o SubSeq(t, 1, k - 1) \in Seq(S) /\ <<t[k]>> \in Seq(S)
  BY <1>1, <1>3, ConcatProperties
<1>5. Append(s \o SubSeq(t, 1, k - 1), t[k])
         = (s \o SubSeq(t, 1, k - 1)) \o <<t[k]>>
  BY <1>1, <1>4, AppendIsConcat
<1>6. (s \o SubSeq(t, 1, k - 1)) \o <<t[k]>>
         = s \o (SubSeq(t, 1, k - 1) \o <<t[k]>>)
  <2>. DEFINE u == SubSeq(t, 1, k - 1)
              v == <<t[k]>>
  <2>1. u \in Seq(S) /\ v \in Seq(S)
    BY <1>3, <1>4
  <2>. HIDE DEF u, v
  <2>2. (s \o u) \o v = s \o (u \o v)
    BY <2>1, ConcatAssociative
  <2>. QED
    BY <2>2 DEF u, v
<1>. QED
  BY <1>2, <1>5, <1>6

(* A list that begin finds nonempty starts with that event.                *)
LEMMA FirstIsBegin ==
    ASSUME IInv, begin # NULL
    PROVE  queue # <<>> /\ queue[1] = begin
<1>. QED
  BY DEF IInv, Represents

(* Every step keeps the order of a whole operation, given the invariant.   *)
LEMMA NextFifo == IInv /\ OperationsAreFifo /\ [Next]_vars => OperationsAreFifo'
<1>. SUFFICES ASSUME IInv, OperationsAreFifo, [Next]_vars
              PROVE  OperationsAreFifo'
  OBVIOUS
<1>0. queue \in Seq(Events) /\ before \in Seq(Events) /\ arg \in Seq(Events)
  BY DEF IInv, TypeOK
<1>1. ASSUME NEW evs \in Arrays, PushsCall(evs) PROVE OperationsAreFifo'
  <2>1. SubSeq(evs, 1, 0) = <<>>
    BY SubSeqEmpty
  <2>2. queue = queue \o SubSeq(evs, 1, 0)
    BY <1>0, <2>1, ConcatEmptySeq
  <2>. QED
    BY <1>1, <2>2 DEF PushsCall, Start, OperationsAreFifo
<1>2. CASE PushsStep
  <2>1. /\ op = "pushs" /\ op' = "pushs" /\ arg' = arg /\ before' = before
        /\ i' = i + 1 /\ queue' = Append(queue, arg[i + 1])
    BY <1>2 DEF PushsStep
  <2>2. i \in Nat /\ i + 1 \in 1..Len(arg) /\ (i + 1) - 1 = i
    BY <1>2, EQueueAssumption DEF PushsStep, IInv, TypeOK, PushsArgument
  <2>3. queue = before \o SubSeq(arg, 1, i)
    BY <2>1 DEF OperationsAreFifo
  <2>4. Append(before \o SubSeq(arg, 1, (i + 1) - 1), arg[i + 1])
           = before \o SubSeq(arg, 1, i + 1)
    BY <1>0, <2>2, AppendOneMore
  <2>. QED
    BY <2>1, <2>2, <2>3, <2>4 DEF OperationsAreFifo
<1>3. ASSUME NEW n \in 1..MaxItems, PopsCall(n) PROVE OperationsAreFifo'
  <2>1. queue = <<>> \o queue
    BY <1>0, ConcatEmptySeq
  <2>. QED
    BY <1>3, <2>1 DEF PopsCall, Start, OperationsAreFifo
<1>4. CASE PopsStep
  <2>1. /\ op = "pops" /\ op' = "pops" /\ before' = before
        /\ arg' = Append(arg, begin) /\ queue' = Tail(queue) /\ begin # NULL
    BY <1>4 DEF PopsStep, UnlinkFirst
  <2>2. before = arg \o queue
    BY <2>1 DEF OperationsAreFifo
  <2>3. arg' \o queue' = arg \o queue
    BY <1>0, <2>1, FirstIsBegin, MoveOne
  <2>. QED
    BY <2>1, <2>2, <2>3 DEF OperationsAreFifo
<1>5. CASE Pop
  <2>1. /\ op' = "pop" /\ before' = queue
        /\ arg' = <<begin>> /\ queue' = Tail(queue) /\ begin # NULL
    BY <1>5 DEF Pop, Start, UnlinkFirst
  <2>2. Append(<<>>, queue[1]) \o Tail(queue) = <<>> \o queue
    BY <1>0, <2>1, FirstIsBegin, MoveOne, EmptySeq
  <2>3. arg' = Append(<<>>, queue[1]) /\ <<>> \o queue = queue
    BY <1>0, <2>1, FirstIsBegin, ConcatEmptySeq
  <2>. QED
    BY <2>1, <2>2, <2>3 DEF OperationsAreFifo
<1>6. ASSUME NEW k \in 1..Len(queue), Erase(k) PROVE OperationsAreFifo'
  BY <1>6 DEF Erase, Start, OperationsAreFifo
<1>7. CASE PushsReturn \/ PopsReturn \/ Decrement
  BY <1>7 DEF PushsReturn, PopsReturn, Decrement, Finish, OperationsAreFifo
<1>8. CASE Clear
  BY <1>8 DEF Clear, OperationsAreFifo
<1>9. CASE UNCHANGED vars
  BY <1>9 DEF vars, OperationsAreFifo
<1>. QED
  BY <1>1, <1>2, <1>3, <1>4, <1>5, <1>6, <1>7, <1>8, <1>9 DEF Next

(* First in, first out: however the operations follow one another, pushs   *)
(* appends its array in order and pops and pop hand out the oldest events  *)
(* in order.                                                               *)
THEOREM Fifo == Spec => []OperationsAreFifo
<1>1. Init => OperationsAreFifo
  BY DEF Init, OperationsAreFifo
<1>. QED
  BY <1>1, NextFifo, Invariance, PTL DEF Spec
=============================================================================
