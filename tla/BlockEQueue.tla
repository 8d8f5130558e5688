----------------------------- MODULE BlockEQueue -----------------------------
(***************************************************************************)
(* The blocking event queue of NfUnit/eventqueue.{h,cpp}: an EQueue behind *)
(* one mutex (MLock) and ONE condition variable (MCondition), on which     *)
(* both the threads that found the queue full and the threads that found   *)
(* it empty sleep.  Every critical section runs under the mutex and        *)
(* pthread_cond_wait releases it atomically, so a step is one critical     *)
(* section: from the acquisition (or re-acquisition after a wake-up) to    *)
(* the next wait or to the return.                                         *)
(*                                                                         *)
(* The queue is the sequence of events its linked list represents (module  *)
(* EQueue shows that the list does represent a sequence).                  *)
(***************************************************************************)
EXTENDS Integers, Sequences, FiniteSets, Functions

CONSTANTS Pushers,  \* threads that call push and pushs
          Poppers,  \* threads that call pop and pops; may overlap Pushers
          Events,   \* the IEvent objects that travel through the queue
          MaxPush,  \* the largest `items` given to pushs (1: push)
          MaxPop,   \* the largest `items` given to pops (1: pop)
          Capacity  \* cap, the constructor's value or the first setMaxSize

(* A batch taken out at once must leave something of a full queue behind:  *)
(* a queue as small as one pop can drain strands its sleepers (NoMutualWait*)
(* fails).  The code checks nothing of the kind; the default cap is 100000.*)
ASSUME BlockEQueueAssumption ==
    /\ IsFiniteSet(Pushers) /\ IsFiniteSet(Poppers)
    /\ MaxPush \in Nat \ {0}
    /\ MaxPop \in Nat \ {0}
    /\ Capacity \in Nat
    /\ MaxPop < Capacity

Threads == Pushers \union Poppers

Batches == UNION {[1..n -> Events] : n \in 1..MaxPush}

VARIABLES
    queue,    \* the events of _queue, oldest first
    cap,      \* EQueue::cap
    waits,    \* MCondition::_waits
    asleep,   \* threads inside pthread_cond_wait that nothing has woken
    woken,    \* threads that were woken and do not hold the mutex again yet
    op,       \* op[t]: the call thread t is in
    batch,    \* batch[t]: the events of t's pushs call
    items     \* items[t]: how many events t's pops call asks for

vars == <<queue, cap, waits, asleep, woken, op, batch, items>>

(* Mutants of Full: one event too late, one too early. *)
FullLate == Len(queue) > cap
FullEarly == Len(queue) + 1 >= cap

(* EQueue::full and EQueue::empty *)
Full == Len(queue) >= cap
Empty == queue = <<>>

(* Mutants of WaitsOf: the decrement after the wait is missing; it happens *)
(* whether the thread has waited or not.                                   *)
WaitsOfKept(t) == waits
WaitsOfDropped(t) == waits - 1

(* MCondition::waits as thread t reads it inside its critical section: a   *)
(* thread that returned from pthread_cond_wait has decremented _waits.     *)
WaitsOf(t) == IF t \in woken THEN waits - 1 ELSE waits

(* t may enter or re-enter its critical section. *)
Running(t, call) == op[t] = call /\ t \notin asleep

Init ==
    /\ queue = <<>>
    /\ cap = Capacity
    /\ waits = 0
    /\ asleep = {}
    /\ woken = {}
    /\ op = [t \in Threads |-> "none"]
    /\ batch = [t \in Threads |-> <<>>]
    /\ items = [t \in Threads |-> 0]
-----------------------------------------------------------------------------
(* pthread_cond_wait: the thread counts itself before it sleeps; a woken   *)
(* thread that has to sleep again has left the count and enters it anew.   *)
Sleep(t) ==
    /\ waits' = WaitsOf(t) + 1
    /\ asleep' = asleep \union {t}
    /\ woken' = woken \ {t}

(* pthread_cond_signal wakes one sleeper if there is one. *)
SignalOne(t) ==
    \/ /\ asleep = {}
       /\ woken' = woken \ {t}
       /\ UNCHANGED asleep
    \/ \E s \in asleep :
          /\ asleep' = asleep \ {s}
          /\ woken' = (woken \ {t}) \union {s}

(* Mutant of SignalAll: the broadcast is a signal. *)
SignalAllAsOne(t) == SignalOne(t)

SignalAll(t) ==
    /\ asleep' = {}
    /\ woken' = (woken \ {t}) \union asleep

NoSignal(t) ==
    /\ woken' = woken \ {t}
    /\ UNCHANGED asleep

(* The thread returns from its call. *)
Return(t) ==
    /\ op' = [op EXCEPT ![t] = "none"]
    /\ batch' = [batch EXCEPT ![t] = <<>>]
    /\ items' = [items EXCEPT ![t] = 0]

(* Events that are neither queued nor about to be: a caller owns them and  *)
(* may post them (an event is in at most one list, its links are its own). *)
Free == Events \ (Range(queue) \union UNION {Range(batch[t]) : t \in Threads})

PushCall(t, evs) ==
    /\ t \in Pushers
    /\ op[t] = "none"
    /\ op' = [op EXCEPT ![t] = "push"]
    /\ batch' = [batch EXCEPT ![t] = evs]
    /\ UNCHANGED <<queue, cap, waits, asleep, woken, items>>

(* while(_queue.full()) _cond.wait(NULL) *)
PushBlocked(t) ==
    /\ Running(t, "push")
    /\ Full
    /\ Sleep(t)
    /\ UNCHANGED <<queue, cap, op, batch, items>>

(* Room: one sleeper is signalled, several are broadcast to, and the whole *)
(* batch is appended, past cap if it does not fit.                         *)
PushDone(t) ==
    /\ Running(t, "push")
    /\ ~Full
    /\ waits' = WaitsOf(t)
    /\ \/ WaitsOf(t) < 1 /\ NoSignal(t)
       \/ WaitsOf(t) = 1 /\ SignalOne(t)
       \/ WaitsOf(t) > 1 /\ SignalAll(t)
    /\ queue' = queue \o batch[t]
    /\ Return(t)
    /\ UNCHANGED cap

PopCall(t, k) ==
    /\ t \in Poppers
    /\ op[t] = "none"
    /\ op' = [op EXCEPT ![t] = "pop"]
    /\ items' = [items EXCEPT ![t] = k]
    /\ UNCHANGED <<queue, cap, waits, asleep, woken, batch>>

(* while(_queue.empty()) _cond.wait(NULL) *)
PopBlocked(t) ==
    /\ Running(t, "pop")
    /\ Empty
    /\ Sleep(t)
    /\ UNCHANGED <<queue, cap, op, batch, items>>

(* How many events a pops(items) takes. *)
Taken(t) == IF items[t] <= Len(queue) THEN items[t] ELSE Len(queue)

(* Mutant of PopDone: a pop signals nobody. *)
PopDoneSilent(t) ==
    /\ Running(t, "pop")
    /\ ~Empty
    /\ waits' = WaitsOf(t)
    /\ NoSignal(t)
    /\ queue' = SubSeq(queue, Taken(t) + 1, Len(queue))
    /\ Return(t)
    /\ UNCHANGED cap

(* One sleeper is signalled, unless the queue is full BEFORE the events    *)
(* are taken: the pop that makes the first room wakes nobody.              *)
PopDone(t) ==
    /\ Running(t, "pop")
    /\ ~Empty
    /\ waits' = WaitsOf(t)
    /\ \/ WaitsOf(t) > 0 /\ ~Full /\ SignalOne(t)
       \/ (WaitsOf(t) < 1 \/ Full) /\ NoSignal(t)
    /\ queue' = SubSeq(queue, Taken(t) + 1, Len(queue))
    /\ Return(t)
    /\ UNCHANGED cap

(* pthread_cond_wait may return although nobody signalled. *)
SpuriousWake(t) ==
    /\ t \in asleep
    /\ asleep' = asleep \ {t}
    /\ woken' = woken \union {t}
    /\ UNCHANGED <<queue, cap, waits, op, batch, items>>

Next ==
    \/ \E t \in Threads, evs \in Batches :
          /\ Range(evs) \subseteq Free
          /\ Cardinality(Range(evs)) = Len(evs)
          /\ PushCall(t, evs)
    \/ \E t \in Threads : PushBlocked(t)
    \/ \E t \in Threads : PushDone(t)
    \/ \E t \in Threads, k \in 1..MaxPop : PopCall(t, k)
    \/ \E t \in Threads : PopBlocked(t)
    \/ \E t \in Threads : PopDone(t)
    \/ \E t \in Threads : SpuriousWake(t)

Spec == Init /\ [][Next]_vars
-----------------------------------------------------------------------------
(* The operations outside the push and pop protocol: they take the mutex   *)
(* (setMaxSize does not even do that) and signal nobody.                   *)

(* erase: takes out an event that is in the list *)
Erase(i) ==
    /\ queue' = SubSeq(queue, 1, i - 1) \o SubSeq(queue, i + 1, Len(queue))
    /\ UNCHANGED <<cap, waits, asleep, woken, op, batch, items>>

Clear ==
    /\ queue' = <<>>
    /\ UNCHANGED <<cap, waits, asleep, woken, op, batch, items>>

SetMaxSize(maxsize) ==
    /\ cap' = maxsize
    /\ UNCHANGED <<queue, waits, asleep, woken, op, batch, items>>

AdminNext ==
    \/ Next
    \/ \E i \in DOMAIN queue : Erase(i)
    \/ Clear
    \/ \E maxsize \in MaxPop + 1 .. Capacity + 1 : SetMaxSize(maxsize)

AdminSpec == Init /\ [][AdminNext]_vars
-----------------------------------------------------------------------------
(* Fairness: a thread that can enter its critical section eventually does  *)
(* (the scheduler, and a mutex that is only held for a bounded time), and  *)
(* the poppers are loops that keep popping (EXTReactor::callback).  Nobody *)
(* is obliged to push.                                                     *)
Attempt(t) ==
    PushBlocked(t) \/ PushDone(t) \/ PopBlocked(t) \/ PopDone(t)

PopAgain(t) == \E k \in 1..MaxPop : PopCall(t, k)

FairSpec ==
    /\ Spec
    /\ \A t \in Threads : WF_vars(Attempt(t))
    /\ \A t \in Poppers : WF_vars(PopAgain(t))
-----------------------------------------------------------------------------
Calls == {"none", "push", "pop"}

(* Type correctness: the queue holds events, the counter counts, a thread  *)
(* in a push call has a batch and a thread in a pop call a positive size.  *)
TypeOK ==
    /\ queue \in Seq(Events)
    /\ cap \in Nat
    /\ waits \in Nat
    /\ asleep \subseteq Threads
    /\ woken \subseteq Threads
    /\ op \in [Threads -> Calls]
    /\ batch \in [Threads -> Seq(Events)]
    /\ items \in [Threads -> 0..MaxPop]

(* MCondition::_waits counts the threads that went to sleep and have not   *)
(* re-acquired the mutex, woken or not: push and pop choose between no     *)
(* signal, one and a broadcast from it, so a count that drifts loses       *)
(* wake-ups, and a woken thread makes the count larger than the sleepers.  *)
WaitsExact ==
    /\ asleep \intersect woken = {}
    /\ waits = Cardinality(asleep \union woken)

PushersAsleep == {t \in asleep : op[t] = "push"}
PoppersAsleep == {t \in asleep : op[t] = "pop"}
PushersAwake == {t \in Threads \ asleep : op[t] = "push"}

(* No lost wake-up for consumers: a thread sleeps in pop only while the    *)
(* queue is empty.  A push with one waiter signals only one thread, and    *)
(* that may be a pusher; the next push has to make up for it.              *)
PopperSleepsOnEmpty == PoppersAsleep # {} => Empty

(* Wake-ups for producers come late but not never: when a thread sleeps in *)
(* push although no other push is under way (a push that ends wakes all),  *)
(* at most one batch has been taken out of a full queue since, because     *)
(* only the pop that finds the queue full skips the signal.                *)
PusherSleepsNearFull ==
    PushersAsleep # {} /\ PushersAwake = {} => Len(queue) + MaxPop >= cap

(* The one condition variable never has a producer and a consumer asleep   *)
(* on it with nobody on the way to wake them: the deadlock of the classic  *)
(* bounded buffer with a single condition and single signals.              *)
NoMutualWait ==
    PushersAsleep # {} /\ PoppersAsleep # {} => PushersAwake # {}

(* cap may be overshot, by less than one batch: pushs asks for room for    *)
(* one event and then appends all of them.                                 *)
OvershootBounded == Len(queue) < cap + MaxPush

(* The queue does what the interface promises, and no wake-up is lost: a   *)
(* push or a pop that could take effect is not left asleep for ever.       *)
Promise == INSTANCE BoundedQueue

ImplementsBoundedQueue == Promise!FairSpec
=============================================================================
