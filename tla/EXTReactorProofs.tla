--------------------------- MODULE EXTReactorProofs ---------------------------
(***************************************************************************)
(* Proofs about the pool of worker threads, for any finite sets of workers *)
(* and producers, any events, and any capacity above one: who holds an     *)
(* event, when all workers may block in their own queue, what is left in   *)
(* the queue by stopUntilEmpty, and that the pool calls the queue the way  *)
(* BlockEQueue says, so that what is proved of the queue holds here.       *)
(***************************************************************************)
EXTENDS EXTReactor, FiniteSetTheorems, SequenceTheorems, TLAPS

(* The inductive invariant of Spec: its parts.  An event exists if         *)
(* and only if somebody holds it, and two never do.                        *)
InQueue(e) == \E k \in DOMAIN queue : queue[k] = e
InPost(e) == \E t \in Q!Threads : batch[t] = <<e>>
InHand(e) == \E w \in Workers : hand[w] = e

OneHolder ==
    /\ \A e \in Events : e \in live <=> InQueue(e) \/ InPost(e) \/ InHand(e)
    /\ \A e \in Events : /\ ~(InQueue(e) /\ InPost(e)) /\ ~(InQueue(e) /\ InHand(e))
                         /\ ~(InPost(e) /\ InHand(e))
    /\ \A j, k \in DOMAIN queue : queue[j] = queue[k] => j = k
    /\ \A t, u \in Q!Threads : batch[t] = batch[u] /\ batch[t] # <<>> => t = u
    /\ \A v, w \in Workers : hand[v] = hand[w] /\ hand[v] # None => v = w

(* The types, but for the counter of the condition variable. *)
PoolTypes ==
    /\ run \in BOOLEAN /\ emptystop \in BOOLEAN /\ late \in BOOLEAN
    /\ main \in {"init", "running", "stopping", "joining", "joined",
                 "destroying"}
    /\ pc \in [Workers -> Exited \union
                 {"unborn", "while", "if", "size", "pop", "callback", "end",
                  "repost"}]
    /\ drains \subseteq Workers
    /\ hand \in [Workers -> Events \union {None}]
    /\ live \subseteq Events
    /\ status \in [Events -> {"INIT", "READY", "RUNNING", "DONE", "CANCELED"}]
    /\ queue \in Seq(Events)
    /\ asleep \subseteq Q!Threads
    /\ op \in [Q!Threads -> Q!Calls]
    /\ batch \in [Q!Threads -> {<<e>> : e \in Events} \union {<<>>}]
    /\ items \in [Q!Threads -> 0..1]

(* Where a thread is in the pool says which call of the queue it is in,    *)
(* and what it has in hand or is about to post.                            *)
CallsInPlace ==
    /\ \A t \in Q!Threads : /\ op[t] = "push" <=> batch[t] # <<>>
                            /\ op[t] = "pop" <=> items[t] = 1
    /\ \A w \in Workers : /\ op[w] = "pop" <=> pc[w] = "pop"
                          /\ op[w] = "push" <=> pc[w] = "repost"
                          /\ hand[w] # None <=> pc[w] \in {"callback", "end"}
    /\ op[Main] = "pop" => main = "destroying"
    /\ main \in {"joined", "destroying"} => \A w \in Workers : pc[w] \in Exited
    /\ main = "init" => \A w \in Workers : pc[w] = "unborn"

(* All workers sleep in a repost only while the queue is full: the pop     *)
(* that makes room and signals nobody is made by one that is awake.        *)
AllWorkersBlocked == \A w \in Workers : w \in asleep /\ op[w] = "push"

BlockedOnlyWhenFull ==
    /\ cap = Capacity
    /\ \A t \in asleep : op[t] # "none"
    /\ AllWorkersBlocked => Q!Full

(* After one worker has seen the empty queue and gone, whoever puts an     *)
(* event into it is a worker that will look again, or comes from outside.  *)
DrainedIsEmpty ==
    /\ \A w \in Workers : pc[w] \in {"size", "drained"} \/ w \in drains => emptystop
    /\ (\E w \in Workers : pc[w] = "drained")
          => queue = <<>> \/ late \/ \E w \in Workers : pc[w] \notin Exited

IInv ==
    /\ PoolTypes
    /\ OneHolder
    /\ CallsInPlace
    /\ BlockedOnlyWhenFull
    /\ DrainedIsEmpty

LEMMA PoolThreads ==
    /\ Workers \subseteq Q!Threads /\ Producers \subseteq Q!Threads
    /\ Main \in Q!Threads /\ Main \notin Workers
    /\ Workers \intersect Producers = {} /\ Workers # {}
    /\ Q!Threads = Workers \union Producers \union {Main}
<1>. QED
  BY EXTReactorAssumption DEF Q!Threads

LEMMA InitIInv == Init => IInv
<1>. SUFFICES ASSUME Init PROVE IInv
  OBVIOUS
<1>. USE EXTReactorAssumption, PoolThreads DEF Init, Q!Init
<1>1. DOMAIN queue = {} /\ queue \in Seq(Events) /\ <<>> \in {<<>>}
  BY EmptySeq, LenProperties
<1>2. PoolTypes
  <2>1. batch \in [Q!Threads -> {<<e>> : e \in Events} \union {<<>>}]
    <3>. DEFINE B == {<<e>> : e \in Events} \union {<<>>}
    <3>1. <<>> \in B
      OBVIOUS
    <3>. HIDE DEF B
    <3>2. [t \in Q!Threads |-> <<>>] \in [Q!Threads -> B]
      BY <3>1
    <3>. QED
      BY <3>2 DEF B
  <2>2. /\ pc \in [Workers -> Exited \union {"unborn", "while", "if", "size", "pop",
                                             "callback", "end", "repost"}]
        /\ hand \in [Workers -> Events \union {None}]
        /\ status \in [Events -> {"INIT", "READY", "RUNNING", "DONE", "CANCELED"}]
    OBVIOUS
  <2>3. op \in [Q!Threads -> Q!Calls] /\ items \in [Q!Threads -> 0..1]
    BY DEF Q!Calls
  <2>4. asleep \subseteq Q!Threads /\ drains \subseteq Workers /\ live \subseteq Events
    OBVIOUS
  <2>5. run \in BOOLEAN /\ emptystop \in BOOLEAN /\ late \in BOOLEAN
    OBVIOUS
  <2>6. main \in {"init", "running", "stopping", "joining", "joined", "destroying"}
    OBVIOUS
  <2>. QED
    BY <1>1, <2>1, <2>2, <2>3, <2>4, <2>5, <2>6 DEF PoolTypes
<1>3. OneHolder
  BY <1>1 DEF OneHolder, InQueue, InPost, InHand
<1>4. CallsInPlace
  BY DEF CallsInPlace
<1>5. BlockedOnlyWhenFull /\ DrainedIsEmpty
  BY DEF BlockedOnlyWhenFull, DrainedIsEmpty, AllWorkersBlocked
<1>. QED
  BY <1>2, <1>3, <1>4, <1>5 DEF IInv
-----------------------------------------------------------------------------
(* What the calls of the queue do to the events in it, to the thread that  *)
(* makes the call, and to the sleepers.                                    *)
LEMMA PushDoneMoves ==
    ASSUME IInv, NEW t \in Q!Threads, Q!PushDone(t)
    PROVE  /\ queue' \in Seq(Events)
           /\ \A d \in Events : /\ InQueue(d)' <=> InQueue(d) \/ batch[t] = <<d>>
                                /\ InPost(d)' <=> InPost(d) /\ batch[t] # <<d>>
           /\ \E e \in Events : batch[t] = <<e>>
           /\ \A j, k \in DOMAIN queue' : queue'[j] = queue'[k] => j = k
           /\ \A u, v \in Q!Threads : batch'[u] = batch'[v] /\ batch'[u] # <<>> => u = v
<1>. USE DEF IInv
<1>1. PICK e \in Events : batch[t] = <<e>>
  BY DEF Q!PushDone, Q!Running, CallsInPlace, PoolTypes
<1>2. queue \in Seq(Events) /\ <<e>> \in Seq(Events) /\ Len(<<e>>) = 1 /\ <<e>>[1] = e
  BY DEF PoolTypes
<1>3. queue' = queue \o <<e>>
  BY <1>1 DEF Q!PushDone
<1>4. /\ queue' \in Seq(Events) /\ Len(queue) \in Nat
      /\ DOMAIN queue = 1..Len(queue) /\ DOMAIN queue' = 1..(Len(queue) + 1)
      /\ queue'[Len(queue) + 1] = e
      /\ \A k \in DOMAIN queue : queue'[k] = queue[k]
  BY <1>2, <1>3, ConcatProperties, LenProperties
<1>5. /\ batch'[t] = <<>> /\ \A u \in Q!Threads \ {t} : batch'[u] = batch[u]
  BY DEF Q!PushDone, Q!Return, PoolTypes
<1>6. InPost(e) /\ ~InQueue(e)
  BY <1>1 DEF InPost, OneHolder
<1>7. \A d \in Events : InQueue(d)' <=> InQueue(d) \/ d = e
  <2>1. DOMAIN queue' = (DOMAIN queue) \union {Len(queue) + 1}
    BY <1>4
  <2>. QED
    BY <1>4, <2>1 DEF InQueue
<1>8. \A d \in Events : InPost(d)' <=> InPost(d) /\ d # e
  <2>1. \A u \in Q!Threads \ {t} : batch[u] # <<e>>
    BY <1>1 DEF OneHolder
  <2>. QED
    BY <1>1, <1>5, <2>1 DEF InPost
<1>9. \A j, k \in DOMAIN queue' : queue'[j] = queue'[k] => j = k
  <2>1. \A k \in DOMAIN queue : queue'[k] # e
    BY <1>4, <1>6 DEF InQueue
  <2>2. \A k \in DOMAIN queue' : k \in DOMAIN queue \/ k = Len(queue) + 1
    BY <1>4
  <2>3. \A j, k \in DOMAIN queue : queue'[j] = queue'[k] => j = k
    BY <1>4 DEF OneHolder
  <2>. QED
    BY <1>4, <2>1, <2>2, <2>3
<1>10. \A u, v \in Q!Threads : batch'[u] = batch'[v] /\ batch'[u] # <<>> => u = v
  BY <1>5 DEF OneHolder
<1>11. \A d \in Events : batch[t] = <<d>> <=> d = e
  BY <1>1
<1>. QED
  BY <1>1, <1>4, <1>7, <1>8, <1>9, <1>10, <1>11

LEMMA PopDoneMoves ==
    ASSUME IInv, NEW t \in Q!Threads, Q!PopDone(t)
    PROVE  /\ queue' \in Seq(Events)
           /\ Head(queue) \in Events /\ InQueue(Head(queue))
           /\ \A d \in Events : /\ InQueue(d)' <=> InQueue(d) /\ d # Head(queue)
                                /\ InPost(d)' <=> InPost(d)
           /\ \A j, k \in DOMAIN queue' : queue'[j] = queue'[k] => j = k
           /\ batch' = batch
<1>. USE DEF IInv
<1>1. queue \in Seq(Events) /\ queue # <<>> /\ items[t] = 1 /\ batch[t] = <<>>
  BY DEF Q!PopDone, Q!Running, Q!Empty, PoolTypes, CallsInPlace
<1>2. /\ Len(queue) \in Nat \ {0} /\ DOMAIN queue = 1..Len(queue)
      /\ Head(queue) = queue[1] /\ Head(queue) \in Events
  BY <1>1, EmptySeq, LenProperties, HeadTailProperties
<1>3. queue' = SubSeq(queue, 2, Len(queue))
  <2>1. Q!Taken(t) = 1
    BY <1>1, <1>2 DEF Q!Taken
  <2>2. queue' = SubSeq(queue, Q!Taken(t) + 1, Len(queue))
    BY DEF Q!PopDone
  <2>3. 1 + 1 = 2
    OBVIOUS
  <2>. QED
    BY <2>1, <2>2, <2>3
<1>4. /\ queue' \in Seq(Events) /\ DOMAIN queue' = 1..(Len(queue) - 1)
      /\ \A k \in DOMAIN queue' : queue'[k] = queue[k + 1] /\ k + 1 \in DOMAIN queue
  BY <1>1, <1>2, <1>3, TailIsSubSeq, HeadTailProperties, LenProperties
<1>5. \A j, k \in DOMAIN queue : queue[j] = queue[k] => j = k
  BY DEF OneHolder
<1>6. \A d \in Events : InQueue(d)' <=> InQueue(d) /\ d # Head(queue)
  <2>1. \A k \in DOMAIN queue' : queue'[k] # Head(queue)
    BY <1>2, <1>4, <1>5
  <2>2. \A k \in DOMAIN queue :
           k = 1 \/ (k - 1 \in DOMAIN queue' /\ queue'[k - 1] = queue[k])
    BY <1>2, <1>4
  <2>. QED
    BY <1>2, <1>4, <2>1, <2>2 DEF InQueue
<1>7. \A j, k \in DOMAIN queue' : queue'[j] = queue'[k] => j = k
  <2>1. ASSUME NEW j \in DOMAIN queue', NEW k \in DOMAIN queue', queue'[j] = queue'[k]
        PROVE  j = k
    <3>1. j + 1 = k + 1
      BY <1>4, <1>5, <2>1
    <3>. QED
      BY <1>2, <1>4, <3>1
  <2>. QED
    BY <2>1
<1>8. batch' = batch
  BY <1>1 DEF Q!PopDone, Q!Return, PoolTypes
<1>9. InQueue(Head(queue))
  BY <1>2 DEF InQueue
<1>. QED
  BY <1>2, <1>4, <1>6, <1>7, <1>8, <1>9 DEF InPost

LEMMA SignalsWake ==
    ASSUME NEW t, Q!NoSignal(t) \/ Q!SignalOne(t) \/ Q!SignalAll(t)
    PROVE  asleep' \subseteq asleep
<1>. QED
  BY DEF Q!NoSignal, Q!SignalOne, Q!SignalAll

(* A call that returns wakes sleepers at most, and leaves the thread in    *)
(* none. *)
LEMMA DoneReturns ==
    ASSUME IInv, NEW t \in Q!Threads, Q!PushDone(t) \/ Q!PopDone(t)
    PROVE  /\ asleep' \subseteq asleep /\ t \notin asleep /\ cap' = cap
           /\ op' = [op EXCEPT ![t] = "none"]
           /\ batch' = [batch EXCEPT ![t] = <<>>]
           /\ items' = [items EXCEPT ![t] = 0]
<1>. QED
  BY SignalsWake DEF Q!PushDone, Q!PopDone, Q!Running, Q!Return

(* In none of its calls does the queue leave all the workers blocked while *)
(* there is room. *)
LEMMA PushDoneUnblocks ==
    ASSUME IInv, NEW t \in Q!Threads, Q!PushDone(t)
    PROVE  BlockedOnlyWhenFull'
<1>. USE DEF IInv
<1>1. /\ asleep' \subseteq asleep /\ t \notin asleep /\ cap' = cap
      /\ op' = [op EXCEPT ![t] = "none"]
  BY DoneReturns
<1>2. op'[t] = "none" /\ \A u \in Q!Threads \ {t} : op'[u] = op[u]
  BY <1>1 DEF PoolTypes
<1>3. ~AllWorkersBlocked'
  <2>. SUFFICES ASSUME AllWorkersBlocked' PROVE FALSE
    OBVIOUS
  <2>1. AllWorkersBlocked
    BY <1>1, <1>2, PoolThreads DEF AllWorkersBlocked
  <2>. QED
    BY <2>1 DEF BlockedOnlyWhenFull, Q!PushDone
<1>. QED
  BY <1>1, <1>2, <1>3 DEF BlockedOnlyWhenFull, PoolTypes

LEMMA PopDoneUnblocks ==
    ASSUME IInv, NEW t \in Workers \union {Main}, Q!PopDone(t)
    PROVE  BlockedOnlyWhenFull'
<1>. USE DEF IInv
<1>1. /\ asleep' \subseteq asleep /\ t \notin asleep /\ cap' = cap
      /\ op' = [op EXCEPT ![t] = "none"]
  BY DoneReturns, PoolThreads
<1>2. op'[t] = "none" /\ \A u \in Q!Threads \ {t} : op'[u] = op[u]
  BY <1>1, PoolThreads DEF PoolTypes
<1>3. ~AllWorkersBlocked'
  <2>1. CASE t \in Workers
    BY <1>2, <2>1 DEF AllWorkersBlocked
  <2>2. CASE t = Main
    <3>1. main = "destroying"
      BY <2>2 DEF CallsInPlace, Q!PopDone, Q!Running
    <3>2. \A w \in Workers : op[w] # "push"
      BY <3>1 DEF CallsInPlace, Exited
    <3>. QED
      BY <1>2, <2>2, <3>2, PoolThreads DEF AllWorkersBlocked
  <2>. QED
    BY <2>1, <2>2
<1>. QED
  BY <1>1, <1>2, <1>3 DEF BlockedOnlyWhenFull, PoolTypes

LEMMA CallsKeepBlocked ==
    ASSUME IInv, NEW t \in Q!Threads, op[t] = "none", NEW l \in {"push", "pop"},
           op' = [op EXCEPT ![t] = l], UNCHANGED <<queue, cap, asleep>>
    PROVE  BlockedOnlyWhenFull'
<1>. USE DEF IInv
<1>1. op'[t] = l /\ (\A u \in Q!Threads \ {t} : op'[u] = op[u]) /\ t \notin asleep
  BY DEF PoolTypes, BlockedOnlyWhenFull
<1>2. AllWorkersBlocked' => AllWorkersBlocked
  BY <1>1, PoolThreads DEF AllWorkersBlocked
<1>. QED
  BY <1>1, <1>2 DEF BlockedOnlyWhenFull, Q!Full, PoolTypes

LEMMA WaitsKeepBlocked ==
    ASSUME IInv, NEW t \in Q!Threads,
           Q!PushBlocked(t) \/ (Q!PopBlocked(t) /\ t \in Workers)
    PROVE  /\ BlockedOnlyWhenFull'
           /\ asleep' = asleep \union {t} /\ UNCHANGED <<queue, op, batch, items>>
<1>. USE DEF IInv
<1>1. /\ asleep' = asleep \union {t} /\ UNCHANGED <<queue, cap, op, batch, items>>
      /\ op[t] # "none"
  BY DEF Q!PushBlocked, Q!PopBlocked, Q!Running, Q!Sleep
<1>2. CASE Q!PushBlocked(t)
  BY <1>1, <1>2 DEF BlockedOnlyWhenFull, Q!PushBlocked, Q!Full
<1>3. CASE Q!PopBlocked(t) /\ t \in Workers
  <2>1. ~AllWorkersBlocked'
    BY <1>1, <1>3 DEF AllWorkersBlocked, Q!PopBlocked, Q!Running
  <2>. QED
    BY <1>1, <2>1 DEF BlockedOnlyWhenFull
<1>. QED
  BY <1>1, <1>2, <1>3
-----------------------------------------------------------------------------
(* Steps that touch neither the queue nor the events in hand.              *)
LEMMA HoldersSame ==
    ASSUME OneHolder, UNCHANGED <<live, queue, batch, hand>>
    PROVE  OneHolder'
<1>. QED
  BY DEF OneHolder, InQueue, InPost, InHand

LEMMA QueueSame ==
    ASSUME IInv, UNCHANGED bqueue
    PROVE  BlockedOnlyWhenFull'
<1>. QED
  BY DEF IInv, BlockedOnlyWhenFull, AllWorkersBlocked, Q!Full, bqueue

LEMMA CancelStep ==
    ASSUME IInv, NEW e \in Events, Cancel(e)
    PROVE  IInv'
<1>. USE DEF IInv, Cancel, control, worker, bqueue
<1>1. PoolTypes'
  BY DEF PoolTypes
<1>2. OneHolder' /\ BlockedOnlyWhenFull'
  BY HoldersSame, QueueSame
<1>3. CallsInPlace' /\ DrainedIsEmpty'
  BY DEF CallsInPlace, DrainedIsEmpty
<1>. QED
  BY <1>1, <1>2, <1>3

LEMMA RunStep ==
    ASSUME IInv, Run
    PROVE  IInv'
<1>. USE DEF IInv, Run, event, bqueue
<1>1. PoolTypes'
  BY DEF PoolTypes
<1>2. OneHolder' /\ BlockedOnlyWhenFull'
  BY HoldersSame, QueueSame
<1>3. CallsInPlace'
  <2>1. \A w \in Workers : pc[w] = "unborn" /\ pc'[w] = "while"
    BY DEF CallsInPlace
  <2>2. \A w \in Workers : op[w] = "none" /\ hand[w] = None
    BY <2>1, PoolThreads DEF CallsInPlace, PoolTypes, Q!Calls
  <2>. QED
    BY <2>1, <2>2 DEF CallsInPlace
<1>4. DrainedIsEmpty'
  BY DEF DrainedIsEmpty, CallsInPlace
<1>. QED
  BY <1>1, <1>2, <1>3, <1>4

(* stop and stopUntilEmpty, join, and the beginning of the destructor. *)
LEMMA ControlStep ==
    ASSUME IInv, Stop \/ StopUntilEmpty \/ SetEmptyStop \/ Join \/ Destroy
    PROVE  IInv'
<1>. USE DEF IInv
<1>1. /\ run' \in BOOLEAN /\ emptystop' \in BOOLEAN /\ (emptystop => emptystop')
      /\ main' \in {"stopping", "joining", "joined", "destroying"}
      /\ UNCHANGED <<worker, event, bqueue>>
  BY DEF Stop, StopUntilEmpty, SetEmptyStop, Join, Destroy, PoolTypes
<1>2. main' \in {"joined", "destroying"} => \A w \in Workers : pc[w] \in Exited
  BY DEF Stop, StopUntilEmpty, SetEmptyStop, Join, Destroy, CallsInPlace
<1>3. op[Main] = "pop" => main' = "destroying"
  BY DEF Stop, StopUntilEmpty, SetEmptyStop, Join, Destroy, CallsInPlace
<1>. USE <1>1 DEF worker, event, bqueue
<1>4. PoolTypes'
  BY DEF PoolTypes
<1>5. OneHolder' /\ BlockedOnlyWhenFull'
  BY HoldersSame, QueueSame
<1>6. CallsInPlace'
  BY <1>2, <1>3 DEF CallsInPlace
<1>7. DrainedIsEmpty'
  BY DEF DrainedIsEmpty
<1>. QED
  BY <1>4, <1>5, <1>6, <1>7
-----------------------------------------------------------------------------
(* Events that come from outside. *)
LEMMA ClientPostsStep ==
    ASSUME IInv, NEW p \in Producers, NEW e \in Events, ClientPosts(p, e)
    PROVE  IInv'
<1>. USE PoolThreads DEF IInv
<1>1. /\ main # "destroying" /\ e \notin live /\ live' = live \union {e}
      /\ status' = [status EXCEPT ![e] = "READY"]
      /\ op[p] = "none" /\ op' = [op EXCEPT ![p] = "push"]
      /\ batch' = [batch EXCEPT ![p] = <<e>>]
      /\ UNCHANGED <<control, worker, late, queue, cap, asleep, items>>
  BY DEF ClientPosts, Post, Q!PushCall
<1>. USE <1>1 DEF control, worker
<1>2. /\ op'[p] = "push" /\ batch'[p] = <<e>> /\ p \in Q!Threads /\ p \notin Workers
      /\ batch[p] = <<>> /\ items[p] # 1
      /\ \A u \in Q!Threads \ {p} : op'[u] = op[u] /\ batch'[u] = batch[u]
  BY DEF PoolTypes, CallsInPlace
<1>3. PoolTypes'
  <2>1. batch' \in [Q!Threads -> {<<d>> : d \in Events} \union {<<>>}]
    BY DEF PoolTypes
  <2>2. op' \in [Q!Threads -> Q!Calls]
    BY DEF PoolTypes, Q!Calls
  <2>. QED
    BY <2>1, <2>2 DEF PoolTypes
<1>4. OneHolder'
  <2>1. ~InQueue(e) /\ ~InPost(e) /\ ~InHand(e)
    BY DEF OneHolder
  <2>2. \A d \in Events : InPost(d)' <=> InPost(d) \/ d = e
    BY <1>2 DEF InPost
  <2>3. \A d \in Events : (InQueue(d)' <=> InQueue(d)) /\ (InHand(d)' <=> InHand(d))
    BY DEF InQueue, InHand
  <2>4. \A t, u \in Q!Threads : batch'[t] = batch'[u] /\ batch'[t] # <<>> => t = u
    BY <1>2, <2>1 DEF OneHolder, InPost
  <2>5. \A d \in Events : d \in live' <=> InQueue(d)' \/ InPost(d)' \/ InHand(d)'
    BY <2>2, <2>3 DEF OneHolder
  <2>6. \A d \in Events : /\ ~(InQueue(d)' /\ InPost(d)') /\ ~(InQueue(d)' /\ InHand(d)')
                          /\ ~(InPost(d)' /\ InHand(d)')
    BY <2>1, <2>2, <2>3 DEF OneHolder
  <2>. QED
    BY <2>4, <2>5, <2>6 DEF OneHolder
<1>5. CallsInPlace'
  BY <1>2 DEF CallsInPlace
<1>6. BlockedOnlyWhenFull'
  BY <1>2, CallsKeepBlocked
<1>7. DrainedIsEmpty'
  BY DEF DrainedIsEmpty
<1>. QED
  BY <1>3, <1>4, <1>5, <1>6, <1>7

(* What a push that returns leaves, whoever made it. *)
LEMMA PushDoneKeeps ==
    ASSUME IInv, NEW t \in Q!Threads, Q!PushDone(t), UNCHANGED <<live, hand>>
    PROVE  /\ OneHolder' /\ BlockedOnlyWhenFull'
           /\ queue' \in Seq(Events) /\ asleep' \subseteq Q!Threads
           /\ op' \in [Q!Threads -> Q!Calls]
           /\ batch' \in [Q!Threads -> {<<e>> : e \in Events} \union {<<>>}]
           /\ items' \in [Q!Threads -> 0..1]
           /\ op'[t] = "none" /\ batch'[t] = <<>> /\ items'[t] = 0
           /\ \A u \in Q!Threads \ {t} :
                 op'[u] = op[u] /\ batch'[u] = batch[u] /\ items'[u] = items[u]
<1>. USE DEF IInv
<1>1. /\ asleep' \subseteq asleep
      /\ op' = [op EXCEPT ![t] = "none"]
      /\ batch' = [batch EXCEPT ![t] = <<>>]
      /\ items' = [items EXCEPT ![t] = 0]
  BY DoneReturns
<1>2. /\ queue' \in Seq(Events)
      /\ \A d \in Events : /\ InQueue(d)' <=> InQueue(d) \/ batch[t] = <<d>>
                           /\ InPost(d)' <=> InPost(d) /\ batch[t] # <<d>>
      /\ \A j, k \in DOMAIN queue' : queue'[j] = queue'[k] => j = k
      /\ \A u, v \in Q!Threads : batch'[u] = batch'[v] /\ batch'[u] # <<>> => u = v
  BY PushDoneMoves
<1>3. \A d \in Events : /\ InHand(d)' <=> InHand(d)
                        /\ batch[t] = <<d>> => InPost(d)
  BY DEF InHand, InPost
<1>4. OneHolder'
  BY <1>2, <1>3 DEF OneHolder
<1>5. /\ op' \in [Q!Threads -> Q!Calls]
      /\ items' \in [Q!Threads -> 0..1]
      /\ asleep' \subseteq Q!Threads
  BY <1>1 DEF PoolTypes, Q!Calls
<1>6. batch' \in [Q!Threads -> {<<e>> : e \in Events} \union {<<>>}]
  BY <1>1 DEF PoolTypes
<1>7. /\ op'[t] = "none" /\ batch'[t] = <<>> /\ items'[t] = 0
      /\ \A u \in Q!Threads \ {t} :
            op'[u] = op[u] /\ batch'[u] = batch[u] /\ items'[u] = items[u]
  BY <1>1 DEF PoolTypes
<1>. QED
  BY <1>2, <1>4, <1>5, <1>6, <1>7, PushDoneUnblocks

LEMMA ClientPushesStep ==
    ASSUME IInv, NEW p \in Producers, ClientPushes(p)
    PROVE  IInv'
<1>. USE PoolThreads DEF IInv, control, worker
<1>1. p \in Q!Threads /\ p \notin Workers
      /\ UNCHANGED <<control, worker, live, status>>
  BY DEF ClientPushes
<1>2. CASE Q!PushBlocked(p) /\ UNCHANGED late
  <2>1. /\ BlockedOnlyWhenFull'
        /\ asleep' = asleep \union {p} /\ UNCHANGED <<queue, op, batch, items>>
    BY <1>1, <1>2, WaitsKeepBlocked
  <2>2. PoolTypes'
    BY <1>1, <1>2, <2>1 DEF PoolTypes
  <2>3. OneHolder'
    BY <1>1, <2>1, HoldersSame
  <2>4. CallsInPlace' /\ DrainedIsEmpty'
    BY <1>1, <1>2, <2>1 DEF CallsInPlace, DrainedIsEmpty
  <2>. QED
    BY <2>1, <2>2, <2>3, <2>4
<1>3. CASE Q!PushDone(p) /\ late' = (late \/ emptystop)
  <2>1. /\ OneHolder' /\ BlockedOnlyWhenFull'
        /\ queue' \in Seq(Events) /\ asleep' \subseteq Q!Threads
        /\ op' \in [Q!Threads -> Q!Calls]
        /\ batch' \in [Q!Threads -> {<<e>> : e \in Events} \union {<<>>}]
        /\ items' \in [Q!Threads -> 0..1]
        /\ op'[p] = "none" /\ batch'[p] = <<>> /\ items'[p] = 0
        /\ \A u \in Q!Threads \ {p} :
              op'[u] = op[u] /\ batch'[u] = batch[u] /\ items'[u] = items[u]
    BY <1>1, <1>3, PushDoneKeeps
  <2>2. late' \in BOOLEAN
    BY <1>3 DEF PoolTypes
  <2>3. PoolTypes'
    BY <1>1, <2>1, <2>2 DEF PoolTypes
  <2>4. CallsInPlace'
    BY <1>1, <2>1 DEF CallsInPlace
  <2>5. DrainedIsEmpty'
    BY <1>1, <1>3 DEF DrainedIsEmpty
  <2>. QED
    BY <2>1, <2>3, <2>4, <2>5
<1>. QED
  BY <1>2, <1>3 DEF ClientPushes
-----------------------------------------------------------------------------
(* The beginning of a pop, by a worker or by the destructor. *)
LEMMA PopCallKeeps ==
    ASSUME IInv, NEW t \in Q!Threads, Q!PopCall(t, 1), UNCHANGED <<live, hand>>
    PROVE  /\ OneHolder' /\ BlockedOnlyWhenFull'
           /\ UNCHANGED <<queue, asleep, batch>> /\ batch[t] = <<>>
           /\ op' \in [Q!Threads -> Q!Calls]
           /\ items' \in [Q!Threads -> 0..1]
           /\ op[t] = "none" /\ op'[t] = "pop" /\ items'[t] = 1
           /\ \A u \in Q!Threads \ {t} : op'[u] = op[u] /\ items'[u] = items[u]
<1>. USE DEF IInv
<1>1. /\ op[t] = "none" /\ op' = [op EXCEPT ![t] = "pop"]
      /\ items' = [items EXCEPT ![t] = 1]
      /\ UNCHANGED <<queue, cap, asleep, batch>>
  BY DEF Q!PopCall
<1>2. /\ op' \in [Q!Threads -> Q!Calls]
      /\ items' \in [Q!Threads -> 0..1]
      /\ op'[t] = "pop" /\ items'[t] = 1
      /\ \A u \in Q!Threads \ {t} : op'[u] = op[u] /\ items'[u] = items[u]
  BY <1>1 DEF PoolTypes, Q!Calls
<1>3. batch[t] = <<>>
  BY <1>1 DEF CallsInPlace
<1>. QED
  BY <1>1, <1>2, <1>3, HoldersSame, CallsKeepBlocked

LEMMA DestroyPopStep ==
    ASSUME IInv, DestroyPop
    PROVE  IInv'
<1>. USE PoolThreads DEF IInv, control, worker, event
<1>1. /\ main = "destroying" /\ UNCHANGED <<control, worker, event>>
      /\ Q!PopCall(Main, 1)
  BY DEF DestroyPop
<1>2. /\ OneHolder' /\ BlockedOnlyWhenFull'
      /\ UNCHANGED <<queue, asleep, batch>> /\ batch[Main] = <<>>
      /\ op' \in [Q!Threads -> Q!Calls]
      /\ items' \in [Q!Threads -> 0..1]
      /\ op'[Main] = "pop" /\ items'[Main] = 1
      /\ \A u \in Q!Threads \ {Main} : op'[u] = op[u] /\ items'[u] = items[u]
  BY <1>1, PopCallKeeps
<1>3. PoolTypes'
  BY <1>1, <1>2 DEF PoolTypes
<1>4. CallsInPlace' /\ DrainedIsEmpty'
  BY <1>1, <1>2 DEF CallsInPlace, DrainedIsEmpty
<1>. QED
  BY <1>2, <1>3, <1>4

(* What a pop that returns does to the thread that made it. *)
LEMMA PopDoneKeeps ==
    ASSUME IInv, NEW t \in Workers \union {Main}, Q!PopDone(t)
    PROVE  /\ BlockedOnlyWhenFull'
           /\ asleep' \subseteq Q!Threads /\ op[t] = "pop" /\ batch' = batch
           /\ op' \in [Q!Threads -> Q!Calls]
           /\ items' \in [Q!Threads -> 0..1]
           /\ op'[t] = "none" /\ items'[t] = 0 /\ batch[t] = <<>>
           /\ \A u \in Q!Threads \ {t} : op'[u] = op[u] /\ items'[u] = items[u]
<1>. USE PoolThreads DEF IInv
<1>1. /\ asleep' \subseteq asleep
      /\ op' = [op EXCEPT ![t] = "none"]
      /\ items' = [items EXCEPT ![t] = 0]
  BY DoneReturns
<1>2. op[t] = "pop" /\ batch[t] = <<>> /\ batch' = batch
  BY PopDoneMoves DEF Q!PopDone, Q!Running, CallsInPlace
<1>3. /\ op' \in [Q!Threads -> Q!Calls]
      /\ items' \in [Q!Threads -> 0..1]
      /\ asleep' \subseteq Q!Threads
      /\ op'[t] = "none" /\ items'[t] = 0
      /\ \A u \in Q!Threads \ {t} : op'[u] = op[u] /\ items'[u] = items[u]
  BY <1>1 DEF PoolTypes, Q!Calls
<1>. QED
  BY <1>2, <1>3, PopDoneUnblocks

LEMMA DestroyReleaseStep ==
    ASSUME IInv, DestroyRelease
    PROVE  IInv'
<1>. USE PoolThreads DEF IInv, control, worker
<1>1. /\ Q!PopDone(Main) /\ UNCHANGED <<control, worker, late>>
      /\ live' = live \ {Head(queue)}
      /\ status' = [status EXCEPT ![Head(queue)] = "INIT"]
  BY DEF DestroyRelease
<1>2. /\ BlockedOnlyWhenFull'
      /\ asleep' \subseteq Q!Threads /\ op[Main] = "pop" /\ batch' = batch
      /\ op' \in [Q!Threads -> Q!Calls]
      /\ items' \in [Q!Threads -> 0..1]
      /\ op'[Main] = "none" /\ items'[Main] = 0 /\ batch[Main] = <<>>
      /\ \A u \in Q!Threads \ {Main} : op'[u] = op[u] /\ items'[u] = items[u]
  BY <1>1, PopDoneKeeps
<1>3. /\ queue' \in Seq(Events)
      /\ Head(queue) \in Events /\ InQueue(Head(queue))
      /\ \A d \in Events : /\ InQueue(d)' <=> InQueue(d) /\ d # Head(queue)
                           /\ InPost(d)' <=> InPost(d)
      /\ \A j, k \in DOMAIN queue' : queue'[j] = queue'[k] => j = k
  BY <1>1, PopDoneMoves
<1>4. PoolTypes'
  BY <1>1, <1>2, <1>3 DEF PoolTypes
<1>5. OneHolder'
  <2>1. \A d \in Events : InHand(d)' <=> InHand(d)
    BY <1>1 DEF InHand
  <2>. QED
    BY <1>1, <1>2, <1>3, <2>1 DEF OneHolder
<1>6. CallsInPlace'
  BY <1>1, <1>2 DEF CallsInPlace
<1>7. DrainedIsEmpty'
  <2>1. queue # <<>>
    BY <1>1 DEF Q!PopDone, Q!Empty
  <2>. QED
    BY <1>1, <2>1 DEF DrainedIsEmpty
<1>. QED
  BY <1>2, <1>4, <1>5, <1>6, <1>7
-----------------------------------------------------------------------------
(* The workers. *)
LEMMA WhereTheyGo ==
    ASSUME PoolTypes, NEW w \in Workers, NEW l, Goto(w, l)
    PROVE  pc'[w] = l /\ \A v \in Workers \ {w} : pc'[v] = pc[v]
<1>. QED
  BY DEF Goto, PoolTypes

LEMMA PopStep ==
    ASSUME IInv, NEW w \in Workers, Pop(w), pc[w] \in {"while", "size"},
           UNCHANGED <<control, drains, hand, event>>
    PROVE  IInv'
<1>. USE PoolThreads DEF IInv, control, event
<1>1. /\ OneHolder' /\ BlockedOnlyWhenFull'
      /\ UNCHANGED <<queue, asleep, batch>> /\ batch[w] = <<>>
      /\ op' \in [Q!Threads -> Q!Calls]
      /\ items' \in [Q!Threads -> 0..1]
      /\ op'[w] = "pop" /\ items'[w] = 1
      /\ \A u \in Q!Threads \ {w} : op'[u] = op[u] /\ items'[u] = items[u]
  BY PopCallKeeps DEF Pop
<1>2. pc'[w] = "pop" /\ \A v \in Workers \ {w} : pc'[v] = pc[v]
  BY WhereTheyGo DEF Pop
<1>3. PoolTypes'
  BY <1>1 DEF PoolTypes, Pop, Goto
<1>4. CallsInPlace'
  BY <1>1, <1>2 DEF CallsInPlace, Exited
<1>5. DrainedIsEmpty'
  BY <1>1, <1>2 DEF DrainedIsEmpty, Exited
<1>. QED
  BY <1>1, <1>3, <1>4, <1>5

(* A worker goes from one place outside the queue and extEvent to another. *)
LEMMA MoveStep ==
    ASSUME IInv, NEW w \in Workers, NEW l \in {"if", "size", "quit", "drained"}, Goto(w, l),
           pc[w] \in {"while", "if", "size"},
           UNCHANGED <<control, hand, event, bqueue>>,
           drains' \subseteq drains \union {w},
           l \in {"size", "drained"} \/ w \in drains' => emptystop,
           l = "drained" => queue = <<>>,
           l = "quit" => ~emptystop
    PROVE  IInv'
<1>. USE DEF IInv, control, event, bqueue
<1>1. pc'[w] = l /\ \A v \in Workers \ {w} : pc'[v] = pc[v]
  BY WhereTheyGo
<1>2. PoolTypes'
  BY DEF PoolTypes, Goto, Exited
<1>3. OneHolder' /\ BlockedOnlyWhenFull'
  BY HoldersSame, QueueSame
<1>4. CallsInPlace'
  BY <1>1 DEF CallsInPlace, Exited
<1>5. DrainedIsEmpty'
  <2>1. \A v \in Workers : pc'[v] \in {"size", "drained"} \/ v \in drains' => emptystop'
    BY <1>1 DEF DrainedIsEmpty
  <2>2. ASSUME NEW v \in Workers, pc'[v] = "drained"
        PROVE  queue' = <<>> \/ late' \/ \E u \in Workers : pc'[u] \notin Exited
    <3>1. emptystop /\ l # "quit"
      BY <2>1, <2>2
    <3>2. CASE l = "drained"
      BY <3>2
    <3>3. CASE l # "drained"
      BY <1>1, <3>1, <3>3 DEF Exited
    <3>. QED
      BY <3>2, <3>3
  <2>. QED
    BY <2>1, <2>2 DEF DrainedIsEmpty
<1>. QED
  BY <1>2, <1>3, <1>4, <1>5

LEMMA LoopStep ==
    ASSUME IInv, NEW w \in Workers, While(w) \/ If(w) \/ Size(w)
    PROVE  IInv'
<1>1. CASE While(w)
  <2>1. CASE Pop(w)
    BY <1>1, <2>1, PopStep DEF While
  <2>2. CASE Goto(w, "if") /\ UNCHANGED bqueue
    BY <1>1, <2>2, MoveStep DEF While, IInv, DrainedIsEmpty
  <2>. QED
    BY <1>1, <2>1, <2>2 DEF While
<1>2. CASE If(w)
  BY <1>2, MoveStep DEF If, IInv, DrainedIsEmpty
<1>3. CASE Size(w)
  <2>1. CASE Pop(w)
    BY <1>3, <2>1, PopStep DEF Size
  <2>2. CASE Goto(w, "drained") /\ UNCHANGED bqueue /\ queue = <<>>
    BY <1>3, <2>2, MoveStep DEF Size, IInv, DrainedIsEmpty
  <2>. QED
    BY <1>3, <2>1, <2>2 DEF Size
<1>. QED
  BY <1>1, <1>2, <1>3

LEMMA WaitStep ==
    ASSUME IInv, NEW w \in Workers, PopWaits(w) \/ RepostWaits(w)
    PROVE  IInv'
<1>. USE PoolThreads DEF IInv, control, worker, event
<1>1. UNCHANGED <<control, worker, event>>
  BY DEF PopWaits, RepostWaits
<1>2. /\ BlockedOnlyWhenFull'
      /\ asleep' = asleep \union {w} /\ UNCHANGED <<queue, op, batch, items>>
  BY WaitsKeepBlocked DEF PopWaits, RepostWaits
<1>3. PoolTypes'
  BY <1>1, <1>2 DEF PoolTypes
<1>4. OneHolder'
  BY <1>1, <1>2, HoldersSame
<1>5. CallsInPlace' /\ DrainedIsEmpty'
  BY <1>1, <1>2 DEF CallsInPlace, DrainedIsEmpty
<1>. QED
  BY <1>2, <1>3, <1>4, <1>5

LEMMA PoppedStep ==
    ASSUME IInv, NEW w \in Workers, Popped(w)
    PROVE  IInv'
<1>. USE PoolThreads DEF IInv, control
<1>1. PICK e \in Events : e = Head(queue)
  BY PopDoneMoves DEF Popped
<1>2. /\ Q!PopDone(w) /\ hand' = [hand EXCEPT ![w] = e]
      /\ status' = [status EXCEPT ![e] = "RUNNING"]
      /\ Goto(w, "callback")
      /\ UNCHANGED <<control, drains, live, late>>
  BY <1>1 DEF Popped
<1>3. /\ BlockedOnlyWhenFull'
      /\ asleep' \subseteq Q!Threads /\ op[w] = "pop" /\ batch' = batch
      /\ op' \in [Q!Threads -> Q!Calls]
      /\ items' \in [Q!Threads -> 0..1]
      /\ op'[w] = "none" /\ items'[w] = 0 /\ batch[w] = <<>>
      /\ \A u \in Q!Threads \ {w} : op'[u] = op[u] /\ items'[u] = items[u]
  BY <1>2, PopDoneKeeps
<1>4. /\ queue' \in Seq(Events) /\ InQueue(e)
      /\ \A d \in Events : /\ InQueue(d)' <=> InQueue(d) /\ d # e
                           /\ InPost(d)' <=> InPost(d)
      /\ \A j, k \in DOMAIN queue' : queue'[j] = queue'[k] => j = k
  BY <1>1, <1>2, PopDoneMoves
<1>5. pc'[w] = "callback" /\ \A v \in Workers \ {w} : pc'[v] = pc[v]
  BY <1>2, WhereTheyGo
<1>6. hand[w] = None /\ hand'[w] = e /\ \A v \in Workers \ {w} : hand'[v] = hand[v]
  BY <1>2, <1>3 DEF PoolTypes, CallsInPlace
<1>7. e # None
  BY EXTReactorAssumption
<1>8. PoolTypes'
  <2>1. pc' \in [Workers -> Exited \union {"unborn", "while", "if", "size", "pop",
                                           "callback", "end", "repost"}]
    BY <1>2 DEF PoolTypes, Goto
  <2>2. hand' \in [Workers -> Events \union {None}]
    BY <1>2 DEF PoolTypes
  <2>. QED
    BY <1>2, <1>3, <1>4, <2>1, <2>2 DEF PoolTypes
<1>9. OneHolder'
  <2>1. \A d \in Events : InHand(d)' <=> InHand(d) \/ d = e
    BY <1>6, EXTReactorAssumption DEF InHand
  <2>2. ~InHand(e)
    BY <1>4 DEF OneHolder
  <2>3. \A u, v \in Workers : hand'[u] = hand'[v] /\ hand'[u] # None => u = v
    BY <1>6, <2>2 DEF OneHolder, InHand
  <2>4. \A d \in Events : d \in live' <=> InQueue(d)' \/ InPost(d)' \/ InHand(d)'
    BY <1>2, <1>4, <2>1 DEF OneHolder
  <2>5. \A d \in Events : /\ ~(InQueue(d)' /\ InPost(d)') /\ ~(InQueue(d)' /\ InHand(d)')
                          /\ ~(InPost(d)' /\ InHand(d)')
    BY <1>4, <2>1 DEF OneHolder
  <2>. QED
    BY <1>3, <1>4, <2>3, <2>4, <2>5 DEF OneHolder
<1>10. CallsInPlace'
  BY <1>2, <1>3, <1>5, <1>6, <1>7 DEF CallsInPlace, Exited
<1>11. DrainedIsEmpty'
  BY <1>2, <1>5 DEF DrainedIsEmpty, Exited
<1>. QED
  BY <1>3, <1>8, <1>9, <1>10, <1>11

LEMMA CallbackStep ==
    ASSUME IInv, NEW w \in Workers, Callback(w)
    PROVE  IInv'
<1>. USE DEF IInv, control, bqueue
<1>1. /\ pc[w] = "callback" /\ Goto(w, "end")
      /\ UNCHANGED <<control, drains, hand, live, late, bqueue>>
      /\ status' \in [Events -> {"INIT", "READY", "RUNNING", "DONE", "CANCELED"}]
  BY DEF Callback, PoolTypes, CallsInPlace
<1>. USE <1>1
<1>2. pc'[w] = "end" /\ \A v \in Workers \ {w} : pc'[v] = pc[v]
  BY WhereTheyGo
<1>3. PoolTypes'
  BY DEF PoolTypes, Goto
<1>4. OneHolder' /\ BlockedOnlyWhenFull'
  BY HoldersSame, QueueSame
<1>5. CallsInPlace' /\ DrainedIsEmpty'
  BY <1>2 DEF CallsInPlace, DrainedIsEmpty, Exited
<1>. QED
  BY <1>3, <1>4, <1>5

(* After extEvent the worker has nothing in hand and is back in its loop.  *)
LEMMA LetsGo ==
    ASSUME IInv, NEW w \in Workers, NEW l \in {"while", "size", "repost"},
           LetGo(w), Goto(w, l)
    PROVE  /\ hand' \in [Workers -> Events \union {None}]
           /\ pc' \in [Workers -> Exited \union {"unborn", "while", "if", "size", "pop",
                                                 "callback", "end", "repost"}]
           /\ hand'[w] = None /\ \A v \in Workers \ {w} : hand'[v] = hand[v]
           /\ pc'[w] = l /\ \A v \in Workers \ {w} : pc'[v] = pc[v]
           /\ \A d \in Events : InHand(d)' <=> InHand(d) /\ d # hand[w]
           /\ \A u, v \in Workers : hand'[u] = hand'[v] /\ hand'[u] # None => u = v
<1>. USE EXTReactorAssumption DEF IInv
<1>1. /\ hand' \in [Workers -> Events \union {None}]
      /\ hand'[w] = None /\ \A v \in Workers \ {w} : hand'[v] = hand[v]
  BY DEF LetGo, PoolTypes
<1>2. /\ pc' \in [Workers -> Exited \union {"unborn", "while", "if", "size", "pop",
                                            "callback", "end", "repost"}]
      /\ pc'[w] = l /\ \A v \in Workers \ {w} : pc'[v] = pc[v]
  BY DEF Goto, PoolTypes
<1>3. \A d \in Events : InHand(d)' <=> InHand(d) /\ d # hand[w]
  BY <1>1 DEF InHand, OneHolder
<1>4. \A u, v \in Workers : hand'[u] = hand'[v] /\ hand'[u] # None => u = v
  BY <1>1 DEF OneHolder
<1>. QED
  BY <1>1, <1>2, <1>3, <1>4

LEMMA EndDeleteStep ==
    ASSUME IInv, NEW w \in Workers, EndDelete(w)
    PROVE  IInv'
<1>. USE DEF IInv, control, bqueue
<1>1. PICK e \in Events, l \in {"while", "size"} :
         /\ e = hand[w] /\ pc[w] = "end" /\ LetGo(w) /\ Goto(w, l)
         /\ live' = live \ {e} /\ status' = [status EXCEPT ![e] = "INIT"]
         /\ l = "size" => w \in drains
         /\ UNCHANGED <<control, drains, late, bqueue>>
  BY DEF EndDelete, Again, PoolTypes, CallsInPlace
<1>2. /\ hand' \in [Workers -> Events \union {None}]
      /\ pc' \in [Workers -> Exited \union {"unborn", "while", "if", "size", "pop",
                                            "callback", "end", "repost"}]
      /\ hand'[w] = None /\ \A v \in Workers \ {w} : hand'[v] = hand[v]
      /\ pc'[w] = l /\ \A v \in Workers \ {w} : pc'[v] = pc[v]
      /\ \A d \in Events : InHand(d)' <=> InHand(d) /\ d # e
      /\ \A u, v \in Workers : hand'[u] = hand'[v] /\ hand'[u] # None => u = v
  BY <1>1, LetsGo
<1>3. PoolTypes'
  BY <1>1, <1>2 DEF PoolTypes
<1>4. OneHolder'
  <2>1. InHand(e)
    BY <1>1 DEF InHand
  <2>2. \A d \in Events : (InQueue(d)' <=> InQueue(d)) /\ (InPost(d)' <=> InPost(d))
    BY <1>1 DEF InQueue, InPost
  <2>. QED
    BY <1>1, <1>2, <2>1, <2>2 DEF OneHolder
<1>5. CallsInPlace'
  BY <1>1, <1>2 DEF CallsInPlace, Exited
<1>6. BlockedOnlyWhenFull'
  BY <1>1, QueueSame
<1>7. DrainedIsEmpty'
  BY <1>1, <1>2 DEF DrainedIsEmpty, Exited
<1>. QED
  BY <1>3, <1>4, <1>5, <1>6, <1>7

LEMMA EndPostStep ==
    ASSUME IInv, NEW w \in Workers, EndPost(w)
    PROVE  IInv'
<1>. USE PoolThreads DEF IInv, control
<1>1. PICK e \in Events :
         /\ e = hand[w] /\ pc[w] = "end" /\ LetGo(w) /\ Goto(w, "repost")
         /\ status' = [status EXCEPT ![e] = "READY"]
         /\ op[w] = "none" /\ op' = [op EXCEPT ![w] = "push"]
         /\ batch' = [batch EXCEPT ![w] = <<e>>]
         /\ UNCHANGED <<control, drains, live, late, queue, cap, asleep, items>>
  BY DEF EndPost, Post, Q!PushCall, PoolTypes, CallsInPlace
<1>2. /\ hand' \in [Workers -> Events \union {None}]
      /\ pc' \in [Workers -> Exited \union {"unborn", "while", "if", "size", "pop",
                                            "callback", "end", "repost"}]
      /\ hand'[w] = None /\ \A v \in Workers \ {w} : hand'[v] = hand[v]
      /\ pc'[w] = "repost" /\ \A v \in Workers \ {w} : pc'[v] = pc[v]
      /\ \A d \in Events : InHand(d)' <=> InHand(d) /\ d # e
      /\ \A u, v \in Workers : hand'[u] = hand'[v] /\ hand'[u] # None => u = v
  BY <1>1, LetsGo
<1>3. /\ op'[w] = "push" /\ batch'[w] = <<e>> /\ w \in Q!Threads
      /\ batch[w] = <<>> /\ items[w] # 1
      /\ \A u \in Q!Threads \ {w} : op'[u] = op[u] /\ batch'[u] = batch[u]
  BY <1>1 DEF PoolTypes, CallsInPlace
<1>4. PoolTypes'
  <2>1. batch' \in [Q!Threads -> {<<d>> : d \in Events} \union {<<>>}]
    BY <1>1 DEF PoolTypes
  <2>2. op' \in [Q!Threads -> Q!Calls]
    BY <1>1 DEF PoolTypes, Q!Calls
  <2>. QED
    BY <1>1, <1>2, <2>1, <2>2 DEF PoolTypes
<1>5. OneHolder'
  <2>1. InHand(e)
    BY <1>1 DEF InHand
  <2>2. ~InPost(e) /\ ~InQueue(e)
    BY <2>1 DEF OneHolder
  <2>3. \A d \in Events : InPost(d)' <=> InPost(d) \/ d = e
    BY <1>3 DEF InPost
  <2>4. \A d \in Events : InQueue(d)' <=> InQueue(d)
    BY <1>1 DEF InQueue
  <2>5. \A t, u \in Q!Threads : batch'[t] = batch'[u] /\ batch'[t] # <<>> => t = u
    BY <1>3, <2>2 DEF OneHolder, InPost
  <2>6. \A d \in Events : d \in live' <=> InQueue(d)' \/ InPost(d)' \/ InHand(d)'
    BY <1>1, <1>2, <2>1, <2>3, <2>4 DEF OneHolder
  <2>7. \A d \in Events : /\ ~(InQueue(d)' /\ InPost(d)') /\ ~(InQueue(d)' /\ InHand(d)')
                          /\ ~(InPost(d)' /\ InHand(d)')
    BY <1>2, <2>1, <2>2, <2>3, <2>4 DEF OneHolder
  <2>. QED
    BY <1>1, <1>2, <2>5, <2>6, <2>7 DEF OneHolder
<1>6. CallsInPlace'
  BY <1>1, <1>2, <1>3 DEF CallsInPlace, Exited
<1>7. BlockedOnlyWhenFull'
  BY <1>1, CallsKeepBlocked
<1>8. DrainedIsEmpty'
  BY <1>1, <1>2 DEF DrainedIsEmpty, Exited
<1>. QED
  BY <1>4, <1>5, <1>6, <1>7, <1>8

LEMMA RepostedStep ==
    ASSUME IInv, NEW w \in Workers, Reposted(w)
    PROVE  IInv'
<1>. USE PoolThreads DEF IInv, control, event
<1>1. PICK l \in {"while", "size"} :
         /\ Q!PushDone(w) /\ Goto(w, l)
         /\ l = "size" => w \in drains
         /\ UNCHANGED <<control, drains, hand, event>>
  BY DEF Reposted, Again
<1>2. pc'[w] = l /\ \A v \in Workers \ {w} : pc'[v] = pc[v]
  BY <1>1, WhereTheyGo
<1>3. /\ OneHolder' /\ BlockedOnlyWhenFull'
      /\ queue' \in Seq(Events) /\ asleep' \subseteq Q!Threads
      /\ op' \in [Q!Threads -> Q!Calls]
      /\ batch' \in [Q!Threads -> {<<e>> : e \in Events} \union {<<>>}]
      /\ items' \in [Q!Threads -> 0..1]
      /\ op'[w] = "none" /\ batch'[w] = <<>> /\ items'[w] = 0
      /\ \A u \in Q!Threads \ {w} :
            op'[u] = op[u] /\ batch'[u] = batch[u] /\ items'[u] = items[u]
  BY <1>1, PushDoneKeeps
<1>4. PoolTypes'
  <2>1. pc' \in [Workers -> Exited \union {"unborn", "while", "if", "size", "pop",
                                           "callback", "end", "repost"}]
    BY <1>1 DEF Goto, PoolTypes
  <2>. QED
    BY <1>1, <1>3, <2>1 DEF PoolTypes
<1>5. CallsInPlace'
  <2>1. op[w] = "push"
    BY <1>1 DEF Q!PushDone, Q!Running
  <2>. QED
    BY <1>1, <1>2, <1>3, <2>1 DEF CallsInPlace, Exited
<1>6. DrainedIsEmpty'
  BY <1>1, <1>2 DEF DrainedIsEmpty, Exited
<1>. QED
  BY <1>3, <1>4, <1>5, <1>6

LEMMA WakeStep ==
    ASSUME IInv, SpuriousWake
    PROVE  IInv'
<1>. USE DEF IInv, control, worker, event
<1>1. /\ UNCHANGED <<control, worker, event, queue, cap, op, batch, items>>
      /\ asleep' \subseteq asleep
  BY DEF SpuriousWake, Q!SpuriousWake
<1>2. PoolTypes'
  BY <1>1 DEF PoolTypes
<1>3. OneHolder'
  BY <1>1, HoldersSame
<1>4. CallsInPlace' /\ DrainedIsEmpty'
  BY <1>1 DEF CallsInPlace, DrainedIsEmpty
<1>5. BlockedOnlyWhenFull'
  BY <1>1 DEF BlockedOnlyWhenFull, AllWorkersBlocked, Q!Full
<1>. QED
  BY <1>2, <1>3, <1>4, <1>5

LEMMA NextIInv == IInv /\ [Next]_vars => IInv'
<1>. SUFFICES ASSUME IInv, [Next]_vars PROVE IInv'
  OBVIOUS
<1>1. ASSUME NEW p \in Producers PROVE
         /\ \A e \in Events : ClientPosts(p, e) => IInv'
         /\ ClientPushes(p) => IInv'
  BY ClientPostsStep, ClientPushesStep
<1>2. ASSUME NEW e \in Events, Cancel(e) PROVE IInv'
  BY <1>2, CancelStep
<1>3. CASE Run \/ Stop \/ StopUntilEmpty \/ SetEmptyStop \/ Closing
  BY <1>3, RunStep, ControlStep, DestroyPopStep, DestroyReleaseStep DEF Closing
<1>4. ASSUME NEW w \in Workers, Work(w) PROVE IInv'
  BY <1>4, LoopStep, WaitStep, PoppedStep, CallbackStep, EndDeleteStep, EndPostStep,
     RepostedStep DEF Work
<1>5. CASE SpuriousWake
  BY <1>5, WakeStep
<1>6. CASE UNCHANGED vars
  <2>. USE <1>6 DEF IInv, vars, control, worker, event, bqueue
  <2>1. PoolTypes'
    BY DEF PoolTypes
  <2>2. OneHolder' /\ BlockedOnlyWhenFull'
    BY HoldersSame, QueueSame
  <2>3. CallsInPlace' /\ DrainedIsEmpty'
    BY DEF CallsInPlace, DrainedIsEmpty
  <2>. QED
    BY <2>1, <2>2, <2>3
<1>. QED
  BY <1>1, <1>2, <1>3, <1>4, <1>5, <1>6 DEF Next

(* The inductive invariant: one holder for each event, each thread in the  *)
(* call its place says, all workers blocked only at a full queue, and an   *)
(* empty queue behind the first worker that has drained it. *)
THEOREM Invariance == Spec => []IInv
<1>. QED
  BY InitIInv, NextIInv, PTL DEF Spec

(* Every event that exists is in exactly one place, a slot of the queue, a *)
(* post under way or a worker's hand, and a deleted one in none: through   *)
(* reposts, cancels, both kinds of stop and the destructor, no event is    *)
(* run twice at once, run after its delete, or lost. *)
THEOREM HeldOnce == Spec => []EventHeldOnce
<1>1. IInv => EventHeldOnce
  <2>. SUFFICES ASSUME IInv, NEW e \in Events
                PROVE  Cardinality(Holders(e)) = IF e \in live THEN 1 ELSE 0
    BY DEF EventHeldOnce
  <2>. USE DEF IInv, OneHolder
  <2>. DEFINE S == {<<"queue", k>> : k \in {j \in DOMAIN queue : queue[j] = e}}
              P == {<<"post", t>> : t \in {u \in Q!Threads : e \in Range(batch[u])}}
              H == {<<"hand", w>> : w \in {v \in Workers : hand[v] = e}}
  <2>1. Holders(e) = S \union P \union H
    BY DEF Holders
  <2>2. \A t \in Q!Threads : e \in Range(batch[t]) <=> batch[t] = <<e>>
    <3>1. ASSUME NEW t \in Q!Threads, NEW d \in Events, batch[t] = <<d>>
          PROVE  Range(batch[t]) = {d}
      BY <3>1 DEF Range
    <3>2. ASSUME NEW t \in Q!Threads, batch[t] = <<>>
          PROVE  Range(batch[t]) = {}
      BY <3>2 DEF Range
    <3>. QED
      BY <3>1, <3>2 DEF PoolTypes
  <2>3. (~InQueue(e) => S = {}) /\ (~InPost(e) => P = {}) /\ (~InHand(e) => H = {})
    BY <2>2 DEF InQueue, InPost, InHand
  <2>4. ASSUME InQueue(e) PROVE \E x : S = {x}
    <3>1. PICK k \in DOMAIN queue : queue[k] = e
      BY <2>4 DEF InQueue
    <3>2. {j \in DOMAIN queue : queue[j] = e} = {k}
      BY <3>1
    <3>3. S = {<<"queue", k>>}
      BY <3>2
    <3>. QED
      BY <3>3
  <2>5. ASSUME InPost(e) PROVE \E x : P = {x}
    <3>1. PICK t \in Q!Threads : batch[t] = <<e>>
      BY <2>5 DEF InPost
    <3>2. {u \in Q!Threads : e \in Range(batch[u])} = {t}
      BY <2>2, <3>1
    <3>3. P = {<<"post", t>>}
      BY <3>2
    <3>. QED
      BY <3>3
  <2>6. ASSUME InHand(e) PROVE \E x : H = {x}
    <3>1. PICK w \in Workers : hand[w] = e
      BY <2>6 DEF InHand
    <3>2. {v \in Workers : hand[v] = e} = {w}
      BY <3>1, EXTReactorAssumption
    <3>3. H = {<<"hand", w>>}
      BY <3>2
    <3>. QED
      BY <3>3
  <2>. HIDE DEF S, P, H
  <2>7. CASE e \in live
    <3>1. \E x : S \union P \union H = {x}
      BY <2>3, <2>4, <2>5, <2>6, <2>7
    <3>. QED
      BY <2>1, <2>7, <3>1, FS_Singleton
  <2>8. CASE e \notin live
    BY <2>1, <2>3, <2>8, FS_EmptySet
  <2>. QED
    BY <2>7, <2>8
<1>. QED
  BY <1>1, Invariance, PTL

(* When all workers sleep in their own reposts, which nobody but they can  *)
(* end, there are as many events as the queue and the workers together can *)
(* hold: an event for each slot, and another for each worker. *)
THEOREM BlockOnlyWhenOverfull == Spec => []RepostsBlockOnlyWhenOverfull
<1>1. IInv => RepostsBlockOnlyWhenOverfull
  <2>. SUFFICES ASSUME IInv, AllWorkersBlocked
                PROVE  Cardinality(live) >= Capacity + Cardinality(Workers)
    BY DEF RepostsBlockOnlyWhenOverfull, AllWorkersBlocked
  <2>. USE EXTReactorAssumption, PoolThreads DEF IInv
  <2>1. IsFiniteSet(live) /\ Cardinality(live) \in Nat
    BY FS_Subset, FS_CardinalityType DEF PoolTypes
  <2>. DEFINE S == {e \in live : InQueue(e)}
              P == {e \in live : InPost(e)}
              s == [k \in 1..Capacity |-> queue[k]]
              p == [w \in Workers |-> batch[w][1]]
  <2>2. /\ IsFiniteSet(S) /\ IsFiniteSet(P) /\ S \intersect P = {}
        /\ Cardinality(S) \in Nat /\ Cardinality(P) \in Nat
    BY <2>1, FS_Subset, FS_CardinalityType DEF OneHolder, PoolTypes
  <2>3. Cardinality(S) >= Capacity
    <3>1. Len(queue) \in Nat /\ Len(queue) >= Capacity /\ queue \in Seq(Events)
          /\ DOMAIN queue = 1..Len(queue) /\ \A k \in DOMAIN queue : queue[k] \in Events
      BY LenProperties, ElementOfSeq DEF BlockedOnlyWhenFull, Q!Full, PoolTypes
    <3>2. \A k \in 1..Capacity : k \in DOMAIN queue
      BY <3>1
    <3>3. \A k \in DOMAIN queue : queue[k] \in S
      BY <3>1 DEF OneHolder, InQueue
    <3>4. s \in Injection(1..Capacity, S)
      BY <3>2, <3>3 DEF Injection, IsInjective, OneHolder
    <3>. HIDE DEF S, s
    <3>5. Cardinality(1..Capacity) = Capacity
      BY FS_Interval
    <3>. QED
      BY <2>2, <3>4, <3>5, FS_Injection
  <2>4. Cardinality(P) >= Cardinality(Workers)
    <3>1. ASSUME NEW w \in Workers
          PROVE  batch[w] # <<>> /\ batch[w][1] \in P /\ batch[w] = <<batch[w][1]>>
      <4>1. PICK e \in Events : batch[w] = <<e>>
        BY DEF AllWorkersBlocked, CallsInPlace, PoolTypes
      <4>2. InPost(e) /\ e \in live
        BY <4>1 DEF InPost, OneHolder
      <4>. QED
        BY <4>1, <4>2
    <3>2. \A v, w \in Workers : batch[v][1] = batch[w][1] => v = w
      <4>1. ASSUME NEW v \in Workers, NEW w \in Workers, batch[v][1] = batch[w][1]
            PROVE  v = w
        <5>1. batch[v] = batch[w] /\ batch[v] # <<>>
          BY <3>1, <4>1
        <5>. QED
          BY <5>1 DEF OneHolder
      <4>. QED
        BY <4>1
    <3>3. p \in Injection(Workers, P)
      BY <3>1, <3>2 DEF Injection, IsInjective
    <3>. HIDE DEF P, p
    <3>. QED
      BY <2>2, <3>3, FS_Injection, FS_CardinalityType
  <2>5. S \union P \in SUBSET live
    OBVIOUS
  <2>. HIDE DEF S, P
  <2>6. Cardinality(S \union P) = Cardinality(S) + Cardinality(P)
    <3>1. /\ Cardinality(S \intersect P) = 0
          /\ Cardinality(S \union P)
               = Cardinality(S) + Cardinality(P) - Cardinality(S \intersect P)
      BY <2>2, FS_Union, FS_EmptySet
    <3>. QED
      BY <2>2, <3>1
  <2>7. Cardinality(S \union P) <= Cardinality(live)
    BY <2>1, <2>5, FS_Subset
  <2>8. Cardinality(Workers) \in Nat
    BY FS_CardinalityType
  <2>. QED
    BY <2>1, <2>2, <2>3, <2>4, <2>6, <2>7, <2>8
<1>. QED
  BY <1>1, Invariance, PTL

(* What is left in the queue when stopUntilEmpty has joined its workers    *)
(* came from outside after the call, unless all of them had quit between   *)
(* the writes of the two flags. *)
THEOREM StopLeavesEmpty == Spec => []StopsWhenEmpty
<1>1. IInv => StopsWhenEmpty
  BY DEF IInv, StopsWhenEmpty, DrainedIsEmpty, CallsInPlace, Exited
<1>. QED
  BY <1>1, Invariance, PTL
-----------------------------------------------------------------------------
(* The pool and its queue.  QP is the queue as EXTReactor uses it, with    *)
(* the theorems that hold of it.                                           *)
QP == INSTANCE BlockEQueueProofs WITH
        Pushers <- Workers \union Producers, Poppers <- Workers \union {Main},
        MaxPush <- 1, MaxPop <- 1

LEMMA QueueAssumption == QP!BlockEQueueAssumption
<1>1. IsFiniteSet(Workers \union Producers) /\ IsFiniteSet(Workers \union {Main})
  BY EXTReactorAssumption, FS_Union, FS_Singleton
<1>2. QP!IsFiniteSet(Workers \union Producers) /\ QP!IsFiniteSet(Workers \union {Main})
  BY <1>1 DEF IsFiniteSet, QP!IsFiniteSet
<1>. QED
  BY <1>2, EXTReactorAssumption DEF QP!BlockEQueueAssumption

LEMMA InitIsQueueInit == Init => QP!Init
<1>. QED
  BY DEF Init, Q!Init, QP!Init, Q!Threads, QP!Threads

(* The steps of the pool's calls are steps of the queue. *)
LEMMA CallsAreQueueSteps ==
    ASSUME NEW t \in Q!Threads,
           \/ Q!PushBlocked(t) \/ Q!PushDone(t)
           \/ Q!PopCall(t, 1) \/ Q!PopBlocked(t) \/ Q!PopDone(t)
           \/ Q!SpuriousWake(t)
    PROVE  QP!Next
<1>. USE DEF Q!Running, QP!Running, Q!Full, QP!Full, Q!Empty, QP!Empty,
             Q!WaitsOf, QP!WaitsOf, Q!Sleep, QP!Sleep, Q!Return, QP!Return
<1>0. t \in QP!Threads
  BY DEF Q!Threads, QP!Threads
<1>1. Q!PushBlocked(t) => QP!PushBlocked(t)
  BY DEF Q!PushBlocked, QP!PushBlocked
<1>2. Q!PushDone(t) => QP!PushDone(t)
  BY DEF Q!PushDone, QP!PushDone, Q!NoSignal, QP!NoSignal,
         Q!SignalOne, QP!SignalOne, Q!SignalAll, QP!SignalAll
<1>3. Q!PopCall(t, 1) => QP!PopCall(t, 1)
  BY DEF Q!PopCall, QP!PopCall
<1>4. Q!PopBlocked(t) => QP!PopBlocked(t)
  BY DEF Q!PopBlocked, QP!PopBlocked
<1>5. Q!PopDone(t) => QP!PopDone(t)
  BY DEF Q!PopDone, QP!PopDone, Q!NoSignal, QP!NoSignal,
         Q!SignalOne, QP!SignalOne, Q!Taken, QP!Taken
<1>6. Q!SpuriousWake(t) => QP!SpuriousWake(t)
  BY DEF Q!SpuriousWake, QP!SpuriousWake
<1>. QED
  BY <1>0, <1>1, <1>2, <1>3, <1>4, <1>5, <1>6 DEF QP!Next

(* What the pool posts is one event that is nowhere in the queue's hands.  *)
LEMMA PostIsQueueStep ==
    ASSUME IInv, NEW t \in Q!Threads, NEW e \in Events, Q!PushCall(t, <<e>>),
           ~InQueue(e), ~InPost(e)
    PROVE  QP!Next
<1>1. t \in QP!Threads /\ QP!Threads = Q!Threads /\ QP!PushCall(t, <<e>>)
  BY DEF Q!Threads, QP!Threads, Q!PushCall, QP!PushCall
<1>2. <<e>> \in QP!Batches
  BY DEF QP!Batches
<1>3. QP!Range(<<e>>) = {e} /\ Len(<<e>>) = 1
  BY DEF QP!Range
<1>4. QP!Cardinality({e}) = 1
  BY QueueAssumption, QP!FS_Singleton
<1>5. e \notin QP!Range(queue)
  BY DEF QP!Range, InQueue
<1>6. \A u \in Q!Threads : e \notin QP!Range(batch[u])
  BY DEF QP!Range, InPost, IInv, PoolTypes
<1>7. QP!Range(<<e>>) \subseteq QP!Free
  BY <1>1, <1>3, <1>5, <1>6 DEF QP!Free
<1>. QED
  BY <1>1, <1>2, <1>3, <1>4, <1>7 DEF QP!Next

LEMMA NextIsQueueStep == IInv /\ [Next]_vars => [QP!Next]_(QP!vars)
<1>. SUFFICES ASSUME IInv, [Next]_vars PROVE QP!Next \/ UNCHANGED QP!vars
  OBVIOUS
<1>. USE PoolThreads DEF QP!vars, bqueue
<1>1. ASSUME NEW p \in Producers, NEW e \in Events, ClientPosts(p, e)
      PROVE  QP!Next
  BY <1>1, PostIsQueueStep DEF ClientPosts, Post, IInv, OneHolder
<1>2. ASSUME NEW p \in Producers, ClientPushes(p) PROVE QP!Next
  BY <1>2, CallsAreQueueSteps DEF ClientPushes
<1>3. ASSUME NEW e \in Events, Cancel(e) PROVE UNCHANGED QP!vars
  BY <1>3 DEF Cancel
<1>4. CASE Run \/ Stop \/ StopUntilEmpty \/ SetEmptyStop \/ Join \/ Destroy
  BY <1>4 DEF Run, Stop, StopUntilEmpty, SetEmptyStop, Join, Destroy
<1>5. CASE DestroyPop \/ DestroyRelease
  BY <1>5, CallsAreQueueSteps DEF DestroyPop, DestroyRelease
<1>6. ASSUME NEW w \in Workers, Work(w) PROVE QP!Next \/ UNCHANGED QP!vars
  <2>1. CASE While(w) \/ Size(w) \/ If(w)
    BY <2>1, CallsAreQueueSteps DEF While, Size, If, Pop
  <2>2. CASE PopWaits(w) \/ Popped(w) \/ RepostWaits(w) \/ Reposted(w)
    BY <2>2, CallsAreQueueSteps DEF PopWaits, Popped, RepostWaits, Reposted
  <2>3. CASE Callback(w) \/ EndDelete(w)
    BY <2>3 DEF Callback, EndDelete
  <2>4. CASE EndPost(w)
    <3>1. hand[w] \in Events /\ InHand(hand[w])
      BY <2>4 DEF EndPost, IInv, PoolTypes, CallsInPlace, InHand
    <3>2. ~InQueue(hand[w]) /\ ~InPost(hand[w])
      BY <3>1 DEF IInv, OneHolder
    <3>. QED
      BY <2>4, <3>1, <3>2, PostIsQueueStep DEF EndPost, Post
  <2>. QED
    BY <1>6, <2>1, <2>2, <2>3, <2>4 DEF Work
<1>7. CASE SpuriousWake
  <2>1. PICK t \in asleep : Q!SpuriousWake(t)
    BY <1>7 DEF SpuriousWake
  <2>2. t \in Q!Threads
    BY DEF IInv, PoolTypes
  <2>. QED
    BY <2>1, <2>2, CallsAreQueueSteps
<1>8. CASE UNCHANGED vars
  BY <1>8 DEF vars
<1>. QED
  BY <1>1, <1>2, <1>3, <1>4, <1>5, <1>6, <1>7, <1>8 DEF Next, Closing

(* The pool uses its queue as BlockEQueue's users may: nobody posts an     *)
(* event that is in the queue or in another post, nobody begins a call     *)
(* within a call. *)
THEOREM PoolIsQueueUser == Spec => QP!Spec
<1>. QED
  BY InitIsQueueInit, NextIsQueueStep, Invariance, PTL DEF Spec, QP!Spec

(* Type correctness of the pool and of its queue, whose counter of waits   *)
(* never goes below zero. *)
THEOREM TypeCorrect == Spec => []TypeOK
<1>1. IInv /\ QP!TypeOK => TypeOK
  <2>1. QP!TypeOK => Q!TypeOK
    BY DEF QP!TypeOK, Q!TypeOK, Q!Threads, QP!Threads, Q!Calls, QP!Calls
  <2>. QED
    BY <2>1 DEF IInv, PoolTypes, TypeOK
<1>2. QP!Spec => []QP!TypeOK
  BY QueueAssumption, QP!TypeCorrect
<1>. QED
  BY <1>1, <1>2, PoolIsQueueUser, Invariance, PTL

(* Workers that wait for events and posts that wait for room, the workers' *)
(* own reposts among them, sleep on one condition variable; when some of   *)
(* each sleep there, a post is awake that will wake them all. *)
THEOREM PoolNeverMutualWait == Spec => []Q!NoMutualWait
<1>1. QP!NoMutualWait => Q!NoMutualWait
  BY DEF QP!NoMutualWait, Q!NoMutualWait, QP!PushersAsleep, Q!PushersAsleep,
         QP!PoppersAsleep, Q!PoppersAsleep, QP!PushersAwake, Q!PushersAwake,
         Q!Threads, QP!Threads
<1>2. QP!Spec => []QP!NoMutualWait
  BY QueueAssumption, QP!NeverMutualWait
<1>. QED
  BY <1>1, <1>2, PoolIsQueueUser, PTL
=============================================================================
