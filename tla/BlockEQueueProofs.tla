--------------------------- MODULE BlockEQueueProofs ---------------------------
(***************************************************************************)
(* Proofs about the blocking event queue, for every set of threads, every  *)
(* set of events, every batch size and every capacity that                 *)
(* BlockEQueueAssumption allows.                                           *)
(***************************************************************************)
EXTENDS BlockEQueue, FiniteSetTheorems, SequenceTheorems, TLAPS

(* The inductive invariant of Spec: the pieces that the properties above   *)
(* need of each other.                                                     *)

(* A thread is on the condition variable only from within a call.          *)
SleepersAreInCalls == \A t \in asleep \union woken : op[t] # "none"

(* A pending call carries what it was called with. *)
CallArguments ==
    \A t \in Threads :
       /\ op[t] = "push" => batch[t] \in Batches
       /\ op[t] = "pop" => items[t] \in 1..MaxPop

(* What erase, clear and setMaxSize keep too: the inductive invariant of   *)
(* AdminSpec.                                                              *)
AdminInv ==
    /\ TypeOK
    /\ WaitsExact
    /\ SleepersAreInCalls
    /\ CallArguments
    /\ PopperSleepsOnEmpty

IInv ==
    /\ AdminInv
    /\ cap = Capacity
    /\ PusherSleepsNearFull
    /\ OvershootBounded

(* There are finitely many threads, so every set of them has a cardinality.*)
LEMMA ThreadsFinite ==
    ASSUME NEW S \in SUBSET Threads
    PROVE  IsFiniteSet(S) /\ Cardinality(S) \in Nat
<1>1. IsFiniteSet(Threads)
  BY BlockEQueueAssumption, FS_Union DEF Threads
<1>. QED
  BY <1>1, FS_Subset, FS_CardinalityType

(* What a critical section reads in MCondition::waits is the number of the *)
(* OTHER threads on the condition variable.                                *)
LEMMA WaitsOfCounts ==
    ASSUME TypeOK, WaitsExact, NEW t \in Threads, t \notin asleep
    PROVE  /\ WaitsOf(t) = Cardinality((asleep \union woken) \ {t})
           /\ WaitsOf(t) \in Nat
<1>. DEFINE S == asleep \union woken
<1>1. S \in SUBSET Threads
  BY DEF TypeOK
<1>2. IsFiniteSet(S) /\ Cardinality(S) \in Nat
  BY <1>1, ThreadsFinite
<1>3. /\ Cardinality(S \ {t}) = IF t \in S THEN Cardinality(S) - 1
                                           ELSE Cardinality(S)
      /\ IsFiniteSet(S \ {t})
  BY <1>2, FS_RemoveElement
<1>4. Cardinality(S \ {t}) \in Nat
  BY <1>3, FS_CardinalityType
<1>. QED
  BY <1>3, <1>4 DEF WaitsOf, WaitsExact

(* A thread that goes to sleep keeps the count exact. *)
LEMMA SleepKeepsCount ==
    ASSUME TypeOK, WaitsExact, NEW t \in Threads, t \notin asleep, Sleep(t)
    PROVE  WaitsExact' /\ waits' \in Nat
<1>. DEFINE S == (asleep \union woken) \ {t}
<1>1. WaitsOf(t) = Cardinality(S) /\ WaitsOf(t) \in Nat
  BY WaitsOfCounts
<1>2. S \in SUBSET Threads /\ t \notin S
  BY DEF TypeOK
<1>3. Cardinality(S \union {t}) = Cardinality(S) + 1
  BY <1>2, ThreadsFinite, FS_AddElement
<1>4. asleep' \union woken' = S \union {t}
  BY DEF Sleep
<1>5. asleep' \intersect woken' = {}
  BY DEF Sleep, WaitsExact
<1>6. waits' = Cardinality(S) + 1 /\ waits' \in Nat
  BY <1>1 DEF Sleep
<1>7. waits' = Cardinality(asleep' \union woken')
  BY <1>3, <1>4, <1>6
<1>. QED
  BY <1>5, <1>6, <1>7 DEF WaitsExact

(* A thread that leaves, having signalled as many as it likes, keeps it    *)
(* exact too: waking moves threads within the counted set.                 *)
LEMMA SignalKeepsCount ==
    ASSUME TypeOK, WaitsExact, NEW t \in Threads, t \notin asleep,
           waits' = WaitsOf(t),
           NoSignal(t) \/ SignalOne(t) \/ SignalAll(t)
    PROVE  /\ WaitsExact' /\ waits' \in Nat
           /\ asleep' \subseteq asleep
           /\ woken' \subseteq Threads
           /\ asleep' \union woken' \subseteq (asleep \union woken) \ {t}
<1>1. asleep' \union woken' = (asleep \union woken) \ {t}
  BY DEF NoSignal, SignalOne, SignalAll
<1>2. asleep' \intersect woken' = {}
  BY DEF NoSignal, SignalOne, SignalAll, WaitsExact
<1>3. asleep' \subseteq asleep /\ woken' \subseteq Threads
  BY DEF NoSignal, SignalOne, SignalAll, TypeOK
<1>. QED
  BY <1>1, <1>2, <1>3, WaitsOfCounts DEF WaitsExact

(* push wakes everybody: one signal is enough for one waiter, and more     *)
(* waiters are broadcast to.                                               *)
LEMMA PushWakesAll ==
    ASSUME TypeOK, WaitsExact, NEW t \in Threads, PushDone(t)
    PROVE  asleep' = {}
<1>. DEFINE S == (asleep \union woken) \ {t}
<1>1. WaitsOf(t) = Cardinality(S) /\ t \notin asleep
  BY WaitsOfCounts DEF PushDone, Running
<1>2. IsFiniteSet(S) /\ asleep \subseteq S
  BY <1>1, ThreadsFinite DEF TypeOK
<1>3. CASE WaitsOf(t) < 1 /\ NoSignal(t)
  <2>1. Cardinality(S) = 0
    BY <1>1, <1>2, <1>3, FS_CardinalityType
  <2>2. S = {}
    BY <2>1, <1>2, FS_EmptySet
  <2>. QED
    BY <2>2, <1>2, <1>3 DEF NoSignal
<1>4. CASE WaitsOf(t) = 1 /\ SignalOne(t)
  <2>1. PICK x : S = {x}
    BY <1>1, <1>2, <1>4, FS_Singleton
  <2>. QED
    BY <2>1, <1>2, <1>4 DEF SignalOne
<1>5. CASE WaitsOf(t) > 1 /\ SignalAll(t)
  BY <1>5 DEF SignalAll
<1>. QED
  BY <1>3, <1>4, <1>5 DEF PushDone

(* A batch is a nonempty sequence of at most MaxPush events. *)
LEMMA BatchIsSequence ==
    ASSUME NEW evs \in Batches
    PROVE  evs \in Seq(Events) /\ Len(evs) \in 1..MaxPush
<1>1. PICK n \in 1..MaxPush : evs \in [1..n -> Events]
  BY DEF Batches
<1>2. n \in Nat
  BY <1>1, BlockEQueueAssumption
<1>3. evs \in Seq(Events)
  BY <1>1, <1>2, SeqDef
<1>. QED
  BY <1>1, <1>2, <1>3, LenProperties

(* What a pop leaves: a suffix, shorter by at least one event and by at    *)
(* most MaxPop.                                                            *)
LEMMA PopLeavesSuffix ==
    ASSUME TypeOK, CallArguments, NEW t \in Threads, PopDone(t)
    PROVE  /\ Taken(t) \in 1..MaxPop /\ Taken(t) <= Len(queue)
           /\ queue' \in Seq(Events)
           /\ Len(queue') = Len(queue) - Taken(t)
<1>1. Len(queue) \in Nat \ {0}
  BY EmptySeq DEF PopDone, Empty, TypeOK
<1>2. items[t] \in 1..MaxPop /\ MaxPop \in Nat
  BY BlockEQueueAssumption DEF PopDone, Running, CallArguments
<1>3. Taken(t) \in 1..MaxPop /\ Taken(t) <= Len(queue)
  BY <1>1, <1>2 DEF Taken
<1>4. \A i \in Taken(t) + 1 .. Len(queue) : queue[i] \in Events
  BY <1>1, <1>3, ElementOfSeq DEF TypeOK
<1>5. queue' = SubSeq(queue, Taken(t) + 1, Len(queue))
  BY DEF PopDone
<1>6. Taken(t) + 1 \in Int /\ Len(queue) \in Int
  BY <1>1, <1>3
<1>. HIDE DEF Taken
<1>7. /\ queue' \in Seq(Events)
      /\ Len(queue') = IF Taken(t) + 1 <= Len(queue)
                       THEN Len(queue) - (Taken(t) + 1) + 1 ELSE 0
  BY <1>4, <1>5, <1>6, SubSeqProperties
<1>. QED
  BY <1>1, <1>3, <1>7
-----------------------------------------------------------------------------
(* The calls that only record their arguments. *)
LEMMA PushCallKeeps ==
    ASSUME AdminInv, NEW t \in Threads, NEW evs \in Batches, PushCall(t, evs)
    PROVE  AdminInv'
<1>. USE DEF AdminInv
<1>1. TypeOK'
  BY BatchIsSequence DEF PushCall, TypeOK, Calls
<1>2. WaitsExact'
  BY DEF PushCall, WaitsExact
<1>3. SleepersAreInCalls'
  BY DEF PushCall, SleepersAreInCalls, TypeOK
<1>4. CallArguments'
  BY DEF PushCall, CallArguments, TypeOK
<1>5. PoppersAsleep' \subseteq PoppersAsleep
  BY DEF PushCall, PoppersAsleep, TypeOK
<1>6. PopperSleepsOnEmpty'
  BY <1>5 DEF PushCall, PopperSleepsOnEmpty, Empty
<1>. QED
  BY <1>1, <1>2, <1>3, <1>4, <1>6

LEMMA PushCallStep ==
    ASSUME IInv, NEW t \in Threads, NEW evs \in Batches, PushCall(t, evs)
    PROVE  IInv'
<1>. USE DEF IInv
<1>1. AdminInv'
  BY PushCallKeeps
<1>2. cap' = Capacity /\ OvershootBounded'
  BY DEF PushCall, OvershootBounded
<1>3. t \in PushersAwake'
  BY DEF PushCall, PushersAwake, AdminInv, SleepersAreInCalls, TypeOK
<1>4. PusherSleepsNearFull'
  BY <1>3 DEF PusherSleepsNearFull
<1>. QED
  BY <1>1, <1>2, <1>4

LEMMA PopCallKeeps ==
    ASSUME AdminInv, NEW t \in Threads, NEW k \in 1..MaxPop, PopCall(t, k)
    PROVE  AdminInv'
<1>. USE DEF AdminInv
<1>1. TypeOK'
  BY BlockEQueueAssumption DEF PopCall, TypeOK, Calls
<1>2. WaitsExact'
  BY DEF PopCall, WaitsExact
<1>3. SleepersAreInCalls'
  BY DEF PopCall, SleepersAreInCalls, TypeOK
<1>4. CallArguments'
  BY DEF PopCall, CallArguments, TypeOK
<1>5. t \notin asleep
  BY DEF PopCall, SleepersAreInCalls
<1>6. PopperSleepsOnEmpty'
  BY <1>5 DEF PopCall, PopperSleepsOnEmpty, PoppersAsleep, Empty, TypeOK
<1>. QED
  BY <1>1, <1>2, <1>3, <1>4, <1>6

LEMMA PopCallStep ==
    ASSUME IInv, NEW t \in Threads, NEW k \in 1..MaxPop, PopCall(t, k)
    PROVE  IInv'
<1>. USE DEF IInv
<1>1. AdminInv'
  BY PopCallKeeps
<1>2. cap' = Capacity /\ OvershootBounded'
  BY DEF PopCall, OvershootBounded
<1>3. PushersAsleep' = PushersAsleep /\ PushersAwake' = PushersAwake
  BY DEF PopCall, PushersAsleep, PushersAwake, AdminInv, TypeOK
<1>4. PusherSleepsNearFull'
  BY <1>3 DEF PopCall, PusherSleepsNearFull
<1>. QED
  BY <1>1, <1>2, <1>4

(* A pusher sleeps because the queue is full, so it is not too early. *)
LEMMA PushBlockedKeeps ==
    ASSUME AdminInv, NEW t \in Threads, PushBlocked(t)
    PROVE  AdminInv'
<1>. USE DEF AdminInv
<1>1. WaitsExact' /\ waits' \in Nat
  BY SleepKeepsCount DEF PushBlocked, Running
<1>2. TypeOK'
  BY <1>1 DEF PushBlocked, Sleep, TypeOK
<1>3. CallArguments'
  BY DEF PushBlocked, CallArguments
<1>4. SleepersAreInCalls'
  BY DEF PushBlocked, Running, Sleep, SleepersAreInCalls
<1>5. PoppersAsleep' = PoppersAsleep
  BY DEF PushBlocked, Running, Sleep, PoppersAsleep
<1>6. PopperSleepsOnEmpty'
  BY <1>5 DEF PushBlocked, PopperSleepsOnEmpty, Empty
<1>. QED
  BY <1>1, <1>2, <1>3, <1>4, <1>6

LEMMA PushBlockedStep ==
    ASSUME IInv, NEW t \in Threads, PushBlocked(t)
    PROVE  IInv'
<1>. USE DEF IInv
<1>1. AdminInv'
  BY PushBlockedKeeps
<1>2. cap' = Capacity /\ OvershootBounded'
  BY DEF PushBlocked, OvershootBounded
<1>3. Len(queue) \in Nat /\ Len(queue) >= cap
  BY LenProperties DEF PushBlocked, Full, AdminInv, TypeOK
<1>4. PusherSleepsNearFull'
  BY <1>3, BlockEQueueAssumption DEF PushBlocked, PusherSleepsNearFull
<1>. QED
  BY <1>1, <1>2, <1>4

LEMMA PopBlockedKeeps ==
    ASSUME AdminInv, NEW t \in Threads, PopBlocked(t)
    PROVE  AdminInv'
<1>. USE DEF AdminInv
<1>1. WaitsExact' /\ waits' \in Nat
  BY SleepKeepsCount DEF PopBlocked, Running
<1>2. TypeOK'
  BY <1>1 DEF PopBlocked, Sleep, TypeOK
<1>3. CallArguments'
  BY DEF PopBlocked, CallArguments
<1>4. SleepersAreInCalls'
  BY DEF PopBlocked, Running, Sleep, SleepersAreInCalls
<1>5. PopperSleepsOnEmpty'
  BY DEF PopBlocked, PopperSleepsOnEmpty, Empty
<1>. QED
  BY <1>1, <1>2, <1>3, <1>4, <1>5

LEMMA PopBlockedStep ==
    ASSUME IInv, NEW t \in Threads, PopBlocked(t)
    PROVE  IInv'
<1>. USE DEF IInv
<1>1. AdminInv'
  BY PopBlockedKeeps
<1>2. cap' = Capacity /\ OvershootBounded'
  BY DEF PopBlocked, OvershootBounded
<1>3. PushersAsleep' = PushersAsleep /\ PushersAwake' = PushersAwake
  BY DEF PopBlocked, Running, Sleep, PushersAsleep, PushersAwake
<1>4. PusherSleepsNearFull'
  BY <1>3 DEF PopBlocked, PusherSleepsNearFull
<1>. QED
  BY <1>1, <1>2, <1>4

(* After a push nobody is asleep. *)
LEMMA PushDoneKeeps ==
    ASSUME AdminInv, NEW t \in Threads, PushDone(t)
    PROVE  AdminInv'
<1>. USE DEF AdminInv
<1>1. asleep' = {}
  BY PushWakesAll
<1>2. /\ WaitsExact' /\ waits' \in Nat
      /\ asleep' \subseteq asleep /\ woken' \subseteq Threads
      /\ asleep' \union woken' \subseteq (asleep \union woken) \ {t}
  BY SignalKeepsCount DEF PushDone, Running
<1>3. batch[t] \in Seq(Events)
  BY BatchIsSequence DEF PushDone, Running, CallArguments
<1>4. queue' \in Seq(Events)
  BY <1>3, ConcatProperties DEF PushDone, TypeOK
<1>5. TypeOK'
  BY <1>2, <1>4, BlockEQueueAssumption, EmptySeq
     DEF PushDone, Return, TypeOK, Calls
<1>6. SleepersAreInCalls'
  BY <1>2 DEF PushDone, Return, SleepersAreInCalls, TypeOK
<1>7. CallArguments'
  BY DEF PushDone, Return, CallArguments, TypeOK
<1>8. PopperSleepsOnEmpty'
  BY <1>1 DEF PopperSleepsOnEmpty, PoppersAsleep
<1>. QED
  BY <1>2, <1>5, <1>6, <1>7, <1>8

LEMMA PushDoneStep ==
    ASSUME IInv, NEW t \in Threads, PushDone(t)
    PROVE  IInv'
<1>. USE DEF IInv
<1>1. AdminInv'
  BY PushDoneKeeps
<1>2. batch[t] \in Seq(Events) /\ Len(batch[t]) \in 1..MaxPush
  BY BatchIsSequence DEF PushDone, Running, AdminInv, CallArguments
<1>3. Len(queue') = Len(queue) + Len(batch[t]) /\ Len(queue) \in Nat
  BY <1>2, ConcatProperties, LenProperties DEF PushDone, AdminInv, TypeOK
<1>4. cap' = Capacity /\ OvershootBounded'
  BY <1>2, <1>3, BlockEQueueAssumption DEF PushDone, Full, OvershootBounded
<1>5. asleep' = {}
  BY PushWakesAll DEF AdminInv
<1>6. PusherSleepsNearFull'
  BY <1>5 DEF PusherSleepsNearFull, PushersAsleep
<1>. QED
  BY <1>1, <1>4, <1>6

(* A pop of a queue that is not full wakes a sleeper if there is one, and  *)
(* that sleeper is a pusher, because the queue is not empty; a pop of a    *)
(* full queue wakes nobody but leaves the queue nearly full.               *)
LEMMA PopDoneKeeps ==
    ASSUME AdminInv, NEW t \in Threads, PopDone(t)
    PROVE  AdminInv'
<1>. USE DEF AdminInv
<1>1. /\ WaitsExact' /\ waits' \in Nat
      /\ asleep' \subseteq asleep /\ woken' \subseteq Threads
      /\ asleep' \union woken' \subseteq (asleep \union woken) \ {t}
  BY SignalKeepsCount DEF PopDone, Running
<1>2. queue' \in Seq(Events)
  BY PopLeavesSuffix
<1>3. TypeOK'
  BY <1>1, <1>2, BlockEQueueAssumption, EmptySeq
     DEF PopDone, Return, TypeOK, Calls
<1>4. SleepersAreInCalls'
  BY <1>1 DEF PopDone, Return, SleepersAreInCalls, TypeOK
<1>5. CallArguments'
  BY DEF PopDone, Return, CallArguments, TypeOK
<1>6. PoppersAsleep = {} /\ t \notin asleep
  BY DEF PopDone, Running, PopperSleepsOnEmpty
<1>7. PoppersAsleep' = {}
  BY <1>1, <1>6 DEF PopDone, Return, PoppersAsleep, TypeOK
<1>8. PopperSleepsOnEmpty'
  BY <1>7 DEF PopperSleepsOnEmpty
<1>. QED
  BY <1>1, <1>3, <1>4, <1>5, <1>8

LEMMA PopDoneStep ==
    ASSUME IInv, NEW t \in Threads, PopDone(t)
    PROVE  IInv'
<1>. USE DEF IInv
<1>1. AdminInv'
  BY PopDoneKeeps
<1>2. /\ asleep' \subseteq asleep /\ woken' \subseteq Threads
      /\ asleep' \union woken' \subseteq (asleep \union woken) \ {t}
  BY SignalKeepsCount DEF PopDone, Running, AdminInv
<1>3. /\ Taken(t) \in 1..MaxPop
      /\ Len(queue') = Len(queue) - Taken(t)
      /\ Len(queue) \in Nat
  BY PopLeavesSuffix, LenProperties DEF AdminInv, TypeOK
<1>4. cap' = Capacity /\ OvershootBounded'
  BY <1>3, BlockEQueueAssumption DEF PopDone, OvershootBounded
<1>5. PoppersAsleep = {} /\ t \notin asleep
  BY DEF PopDone, Running, AdminInv, PopperSleepsOnEmpty
<1>6. PusherSleepsNearFull'
  <2>1. CASE Full
    <3>1. Len(queue') + MaxPop >= cap'
      BY <1>3, <2>1, BlockEQueueAssumption DEF PopDone, Full
    <3>. QED
      BY <3>1 DEF PusherSleepsNearFull
  <2>2. CASE ~Full /\ asleep = {}
    BY <1>2, <2>2 DEF PusherSleepsNearFull, PushersAsleep
  <2>3. CASE ~Full /\ asleep # {}
    <3>1. WaitsOf(t) > 0
      <4>1. (asleep \union woken) \ {t} # {}
        BY <1>5, <2>3
      <4>2. IsFiniteSet((asleep \union woken) \ {t})
        BY ThreadsFinite DEF AdminInv, TypeOK
      <4>3. Cardinality((asleep \union woken) \ {t}) # 0
        BY <4>1, <4>2, FS_EmptySet
      <4>. QED
        BY <1>5, <4>3, WaitsOfCounts DEF AdminInv
    <3>2. SignalOne(t)
      <4>1. WaitsOf(t) \in Int
        BY DEF WaitsOf, AdminInv, TypeOK
      <4>2. ~(WaitsOf(t) < 1)
        BY <3>1, <4>1
      <4>. QED
        BY <2>3, <4>2 DEF PopDone
    <3>3. PICK s \in asleep : asleep' = asleep \ {s}
      BY <2>3, <3>2 DEF SignalOne
    <3>4. op[s] = "push" /\ s # t /\ s \in Threads
      BY <1>5, <3>3
         DEF PoppersAsleep, AdminInv, SleepersAreInCalls, TypeOK, Calls
    <3>5. s \in PushersAwake'
      BY <3>3, <3>4 DEF PopDone, Return, PushersAwake, AdminInv, TypeOK
    <3>. QED
      BY <3>5 DEF PusherSleepsNearFull
  <2>. QED
    BY <2>1, <2>2, <2>3
<1>. QED
  BY <1>1, <1>4, <1>6

LEMMA SpuriousWakeKeeps ==
    ASSUME AdminInv, NEW t \in Threads, SpuriousWake(t)
    PROVE  AdminInv'
<1>. USE DEF AdminInv
<1>1. asleep' \union woken' = asleep \union woken
  BY DEF SpuriousWake
<1>2. WaitsExact'
  BY <1>1 DEF SpuriousWake, WaitsExact
<1>3. TypeOK' /\ CallArguments'
  BY DEF SpuriousWake, TypeOK, CallArguments
<1>4. SleepersAreInCalls'
  BY <1>1 DEF SpuriousWake, SleepersAreInCalls
<1>5. PopperSleepsOnEmpty'
  BY DEF SpuriousWake, PopperSleepsOnEmpty, PoppersAsleep, Empty
<1>. QED
  BY <1>2, <1>3, <1>4, <1>5

LEMMA SpuriousWakeStep ==
    ASSUME IInv, NEW t \in Threads, SpuriousWake(t)
    PROVE  IInv'
<1>. USE DEF IInv
<1>1. AdminInv'
  BY SpuriousWakeKeeps
<1>2. cap' = Capacity /\ OvershootBounded'
  BY DEF SpuriousWake, OvershootBounded
<1>3. PusherSleepsNearFull'
  BY DEF SpuriousWake, PusherSleepsNearFull, PushersAsleep, PushersAwake
<1>. QED
  BY <1>1, <1>2, <1>3
-----------------------------------------------------------------------------
(* Every step of the protocol keeps the part of the invariant that does    *)
(* not speak of cap.                                                       *)
LEMMA NextAdminInv == AdminInv /\ [Next]_vars => AdminInv'
<1>. SUFFICES ASSUME AdminInv, [Next]_vars PROVE AdminInv'
  OBVIOUS
<1>1. ASSUME NEW t \in Threads, NEW evs \in Batches, PushCall(t, evs)
      PROVE  AdminInv'
  BY <1>1, PushCallKeeps
<1>2. ASSUME NEW t \in Threads, PushBlocked(t) PROVE AdminInv'
  BY <1>2, PushBlockedKeeps
<1>3. ASSUME NEW t \in Threads, PushDone(t) PROVE AdminInv'
  BY <1>3, PushDoneKeeps
<1>4. ASSUME NEW t \in Threads, NEW k \in 1..MaxPop, PopCall(t, k)
      PROVE  AdminInv'
  BY <1>4, PopCallKeeps
<1>5. ASSUME NEW t \in Threads, PopBlocked(t) PROVE AdminInv'
  BY <1>5, PopBlockedKeeps
<1>6. ASSUME NEW t \in Threads, PopDone(t) PROVE AdminInv'
  BY <1>6, PopDoneKeeps
<1>7. ASSUME NEW t \in Threads, SpuriousWake(t) PROVE AdminInv'
  BY <1>7, SpuriousWakeKeeps
<1>8. CASE UNCHANGED vars
  BY <1>8 DEF AdminInv, vars, TypeOK, WaitsExact, SleepersAreInCalls,
              CallArguments, PopperSleepsOnEmpty, PoppersAsleep, Empty
<1>. QED
  BY <1>1, <1>2, <1>3, <1>4, <1>5, <1>6, <1>7, <1>8 DEF Next

(* erase leaves a shorter sequence of events. *)
LEMMA EraseKeepsSequence ==
    ASSUME TypeOK, NEW i \in DOMAIN queue, Erase(i)
    PROVE  queue' \in Seq(Events)
<1>1. Len(queue) \in Nat /\ i \in 1..Len(queue)
  BY LenProperties DEF TypeOK
<1>2. \A j \in 1..Len(queue) : queue[j] \in Events
  BY ElementOfSeq DEF TypeOK
<1>3. SubSeq(queue, 1, i - 1) \in Seq(Events)
  BY <1>1, <1>2, SubSeqProperties
<1>4. SubSeq(queue, i + 1, Len(queue)) \in Seq(Events)
  BY <1>1, <1>2, SubSeqProperties
<1>. QED
  BY <1>3, <1>4, ConcatProperties DEF Erase

(* So do the operations that signal nobody: no popper sleeps while there   *)
(* is an event to erase, and they add none.                                *)
LEMMA AdminNextAdminInv == AdminInv /\ [AdminNext]_vars => AdminInv'
<1>. SUFFICES ASSUME AdminInv, [AdminNext]_vars PROVE AdminInv'
  OBVIOUS
<1>. USE DEF AdminInv
<1>1. ASSUME NEW i \in DOMAIN queue, Erase(i) PROVE AdminInv'
  <2>1. queue' \in Seq(Events)
    BY <1>1, EraseKeepsSequence
  <2>2. TypeOK' /\ WaitsExact' /\ SleepersAreInCalls' /\ CallArguments'
    BY <1>1, <2>1 DEF Erase, TypeOK, WaitsExact, SleepersAreInCalls, CallArguments
  <2>3. ~Empty
    BY <1>1, EmptySeq DEF Empty
  <2>4. PopperSleepsOnEmpty'
    BY <1>1, <2>3 DEF Erase, PopperSleepsOnEmpty, PoppersAsleep
  <2>. QED
    BY <2>2, <2>4
<1>2. CASE Clear
  <2>1. TypeOK' /\ WaitsExact' /\ SleepersAreInCalls' /\ CallArguments'
    BY <1>2, EmptySeq DEF Clear, TypeOK, WaitsExact, SleepersAreInCalls, CallArguments
  <2>2. PopperSleepsOnEmpty'
    BY <1>2 DEF Clear, PopperSleepsOnEmpty, Empty
  <2>. QED
    BY <2>1, <2>2
<1>3. ASSUME NEW maxsize \in MaxPop + 1 .. Capacity + 1, SetMaxSize(maxsize)
      PROVE  AdminInv'
  <2>1. maxsize \in Nat
    BY BlockEQueueAssumption
  <2>2. TypeOK' /\ WaitsExact' /\ SleepersAreInCalls' /\ CallArguments'
    BY <1>3, <2>1 DEF SetMaxSize, TypeOK, WaitsExact, SleepersAreInCalls, CallArguments
  <2>3. PopperSleepsOnEmpty'
    BY <1>3 DEF SetMaxSize, PopperSleepsOnEmpty, PoppersAsleep, Empty
  <2>. QED
    BY <2>2, <2>3
<1>. QED
  BY <1>1, <1>2, <1>3, NextAdminInv DEF AdminNext

LEMMA InitIInv == Init => IInv
<1>. SUFFICES ASSUME Init PROVE IInv
  OBVIOUS
<1>1. TypeOK
  BY BlockEQueueAssumption, EmptySeq DEF Init, TypeOK, Calls
<1>2. WaitsExact
  <2>1. asleep \union woken = {}
    BY DEF Init
  <2>. QED
    BY <2>1, FS_EmptySet DEF Init, WaitsExact
<1>3. SleepersAreInCalls /\ CallArguments
  BY DEF Init, SleepersAreInCalls, CallArguments
<1>4. PopperSleepsOnEmpty /\ PusherSleepsNearFull
  BY DEF Init, PopperSleepsOnEmpty, PusherSleepsNearFull,
         PoppersAsleep, PushersAsleep
<1>5. OvershootBounded
  BY BlockEQueueAssumption, EmptySeq DEF Init, OvershootBounded
<1>. QED
  BY <1>1, <1>2, <1>3, <1>4, <1>5 DEF IInv, AdminInv, Init

(* Every step of the protocol preserves the inductive invariant. *)
LEMMA NextIInv == IInv /\ [Next]_vars => IInv'
<1>. SUFFICES ASSUME IInv, [Next]_vars PROVE IInv'
  OBVIOUS
<1>1. ASSUME NEW t \in Threads, NEW evs \in Batches, PushCall(t, evs)
      PROVE  IInv'
  BY <1>1, PushCallStep
<1>2. ASSUME NEW t \in Threads, PushBlocked(t) PROVE IInv'
  BY <1>2, PushBlockedStep
<1>3. ASSUME NEW t \in Threads, PushDone(t) PROVE IInv'
  BY <1>3, PushDoneStep
<1>4. ASSUME NEW t \in Threads, NEW k \in 1..MaxPop, PopCall(t, k)
      PROVE  IInv'
  BY <1>4, PopCallStep
<1>5. ASSUME NEW t \in Threads, PopBlocked(t) PROVE IInv'
  BY <1>5, PopBlockedStep
<1>6. ASSUME NEW t \in Threads, PopDone(t) PROVE IInv'
  BY <1>6, PopDoneStep
<1>7. ASSUME NEW t \in Threads, SpuriousWake(t) PROVE IInv'
  BY <1>7, SpuriousWakeStep
<1>8. CASE UNCHANGED vars
  <2>1. AdminInv'
    BY <1>8, NextAdminInv DEF IInv
  <2>2. PusherSleepsNearFull' /\ OvershootBounded'
    BY <1>8 DEF IInv, vars, PusherSleepsNearFull, OvershootBounded,
                PushersAsleep, PushersAwake
  <2>. QED
    BY <1>8, <2>1, <2>2 DEF IInv, vars
<1>. QED
  BY <1>1, <1>2, <1>3, <1>4, <1>5, <1>6, <1>7, <1>8 DEF Next

(* The queue's protocol keeps its inductive invariant. *)
THEOREM Invariance == Spec => []IInv
<1>. QED
  BY InitIInv, NextIInv, PTL DEF Spec

(* The state stays well typed. *)
THEOREM TypeCorrect == Spec => []TypeOK
<1>1. IInv => TypeOK
  BY DEF IInv, AdminInv
<1>. QED
  BY <1>1, Invariance, PTL

(* MCondition::_waits, on which push and pop base their choice of signal,  *)
(* is exactly the number of threads on the condition variable.             *)
THEOREM WaitsAreExact == Spec => []WaitsExact
<1>1. IInv => WaitsExact
  BY DEF IInv, AdminInv
<1>. QED
  BY <1>1, Invariance, PTL

(* No consumer sleeps while there is something to consume. *)
THEOREM NoLostWakeupForPoppers == Spec => []PopperSleepsOnEmpty
<1>1. IInv => PopperSleepsOnEmpty
  BY DEF IInv, AdminInv
<1>. QED
  BY <1>1, Invariance, PTL

(* No producer sleeps alone below the level that one pop can reach.        *)
THEOREM PushersSleepNearFull == Spec => []PusherSleepsNearFull
<1>1. IInv => PusherSleepsNearFull
  BY DEF IInv
<1>. QED
  BY <1>1, Invariance, PTL

(* pushs overshoots cap by less than one batch. *)
THEOREM BoundedOvershoot == Spec => []OvershootBounded
<1>1. IInv => OvershootBounded
  BY DEF IInv
<1>. QED
  BY <1>1, Invariance, PTL

(* With erase, clear and setMaxSize going on as well, which change the     *)
(* queue and its cap without a signal, the count stays exact.              *)
THEOREM AdminKeepsWaitsExact == AdminSpec => []WaitsExact
<1>1. Init => AdminInv
  BY InitIInv DEF IInv
<1>2. AdminInv => WaitsExact
  BY DEF AdminInv
<1>. QED
  BY <1>1, <1>2, AdminNextAdminInv, PTL DEF AdminSpec

(* And no consumer is left asleep beside an event. *)
THEOREM AdminLosesNoWakeup == AdminSpec => []PopperSleepsOnEmpty
<1>1. Init => AdminInv
  BY InitIInv DEF IInv
<1>2. AdminInv => PopperSleepsOnEmpty
  BY DEF AdminInv
<1>. QED
  BY <1>1, <1>2, AdminNextAdminInv, PTL DEF AdminSpec

(* Producers and consumers never sleep on each other: with both asleep the *)
(* queue would be empty for the consumer and within one pop of full for the*)
(* producer, and Capacity exceeds what one pop can take.                   *)
THEOREM NeverMutualWait == Spec => []NoMutualWait
<1>1. IInv => NoMutualWait
  <2>. SUFFICES ASSUME IInv, PushersAsleep # {}, PoppersAsleep # {},
                       PushersAwake = {}
                PROVE  FALSE
    BY DEF NoMutualWait
  <2>1. Len(queue) = 0
    BY EmptySeq DEF IInv, AdminInv, PopperSleepsOnEmpty, Empty
  <2>2. Len(queue) + MaxPop >= Capacity
    BY DEF IInv, PusherSleepsNearFull
  <2>. QED
    BY <2>1, <2>2, BlockEQueueAssumption
<1>. QED
  BY <1>1, Invariance, PTL
-----------------------------------------------------------------------------
(* The mutex, the condition variable and the counter implement what the    *)
(* interface promises: a call takes effect when it can and not before;     *)
(* going to sleep and being woken change nothing a caller sees.            *)
THEOREM Refinement == Spec => Promise!Spec
<1>1. Init => Promise!Init
  BY DEF Init, Promise!Init, Threads, Promise!Threads
<1>2. IInv /\ [Next]_vars => [Promise!Next]_(Promise!vars)
  <2>. SUFFICES ASSUME IInv, [Next]_vars
                PROVE  [Promise!Next]_(Promise!vars)
    OBVIOUS
  <2>. USE DEF Threads, Promise!Threads, Batches, Promise!Batches
  <2>1. ASSUME NEW t \in Threads, NEW evs \in Batches, PushCall(t, evs)
        PROVE  Promise!Next
    <3>1. Promise!PushCall(t, evs)
      BY <2>1 DEF PushCall, Promise!PushCall
    <3>. QED
      BY <3>1 DEF Promise!Next
  <2>2. ASSUME NEW t \in Threads, PushDone(t)
        PROVE  Promise!Next
    <3>1. Len(queue) < Capacity
      BY <2>2, LenProperties, BlockEQueueAssumption
         DEF PushDone, Full, IInv, AdminInv, TypeOK
    <3>2. Promise!Push(t)
      BY <2>2, <3>1 DEF PushDone, Running, Return, Promise!Push,
                        Promise!Return
    <3>. QED
      BY <3>2 DEF Promise!Next
  <2>3. ASSUME NEW t \in Threads, NEW k \in 1..MaxPop, PopCall(t, k)
        PROVE  Promise!Next
    <3>1. Promise!PopCall(t, k)
      BY <2>3 DEF PopCall, Promise!PopCall
    <3>. QED
      BY <3>1 DEF Promise!Next
  <2>4. ASSUME NEW t \in Threads, PopDone(t)
        PROVE  Promise!Next
    <3>1. Len(queue) \in Nat \ {0} /\ queue # <<>>
      BY <2>4, EmptySeq DEF PopDone, Empty, IInv, AdminInv, TypeOK
    <3>2. items[t] \in 1..MaxPop /\ MaxPop \in Nat
      BY <2>4, BlockEQueueAssumption
         DEF PopDone, Running, IInv, AdminInv, CallArguments
    <3>3. /\ Taken(t) \in 1..Len(queue)
          /\ \/ Taken(t) = items[t]
             \/ Taken(t) < items[t] /\ Taken(t) = Len(queue)
      BY <3>1, <3>2 DEF Taken
    <3>4. /\ op[t] = "pop"
          /\ queue' = SubSeq(queue, Taken(t) + 1, Len(queue))
          /\ Promise!Return(t)
      BY <2>4 DEF PopDone, Running, Return, Promise!Return
    <3>. HIDE DEF Taken
    <3>5. Promise!Pop(t)
      BY <3>1, <3>3, <3>4 DEF Promise!Pop
    <3>. QED
      BY <3>5 DEF Promise!Next
  <2>5. ASSUME NEW t \in Threads,
               PushBlocked(t) \/ PopBlocked(t) \/ SpuriousWake(t)
        PROVE  UNCHANGED Promise!vars
    BY <2>5 DEF PushBlocked, PopBlocked, SpuriousWake, Promise!vars
  <2>6. CASE UNCHANGED vars
    BY <2>6 DEF vars, Promise!vars
  <2>. QED
    BY <2>1, <2>2, <2>3, <2>4, <2>5, <2>6 DEF Next
<1>. QED
  BY <1>1, <1>2, Invariance, PTL DEF Spec, Promise!Spec
=============================================================================
