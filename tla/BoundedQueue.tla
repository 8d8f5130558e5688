---------------------------- MODULE BoundedQueue -----------------------------
(***************************************************************************)
(* What the IEQueue interface promises of a blocking queue, without a      *)
(* mutex, a condition variable or a count of waiters: a push takes effect  *)
(* at an instant at which there is room, a pop at an instant at which      *)
(* there are events, and a call that can take effect is not forgotten.     *)
(* BlockEQueue is shown to implement it.                                   *)
(***************************************************************************)
EXTENDS Integers, Sequences, FiniteSets

CONSTANTS Pushers, Poppers, Events, MaxPush, MaxPop, Capacity

Threads == Pushers \union Poppers

Batches == UNION {[1..n -> Events] : n \in 1..MaxPush}

VARIABLES
    queue,    \* the queued events, oldest first
    op,       \* op[t]: the call thread t is in
    batch,    \* batch[t]: the events t wants to push
    items     \* items[t]: how many events t wants to pop

vars == <<queue, op, batch, items>>

Init ==
    /\ queue = <<>>
    /\ op = [t \in Threads |-> "none"]
    /\ batch = [t \in Threads |-> <<>>]
    /\ items = [t \in Threads |-> 0]

Return(t) ==
    /\ op' = [op EXCEPT ![t] = "none"]
    /\ batch' = [batch EXCEPT ![t] = <<>>]
    /\ items' = [items EXCEPT ![t] = 0]

PushCall(t, evs) ==
    /\ t \in Pushers
    /\ op[t] = "none"
    /\ op' = [op EXCEPT ![t] = "push"]
    /\ batch' = [batch EXCEPT ![t] = evs]
    /\ UNCHANGED <<queue, items>>

Push(t) ==
    /\ op[t] = "push"
    /\ Len(queue) < Capacity
    /\ queue' = queue \o batch[t]
    /\ Return(t)

PopCall(t, k) ==
    /\ t \in Poppers
    /\ op[t] = "none"
    /\ op' = [op EXCEPT ![t] = "pop"]
    /\ items' = [items EXCEPT ![t] = k]
    /\ UNCHANGED <<queue, batch>>

Pop(t) ==
    /\ op[t] = "pop"
    /\ queue # <<>>
    /\ \E n \in 1..Len(queue) :
          /\ n = items[t] \/ (n < items[t] /\ n = Len(queue))
          /\ queue' = SubSeq(queue, n + 1, Len(queue))
    /\ Return(t)

Next ==
    \E t \in Threads :
       \/ \E evs \in Batches : PushCall(t, evs)
       \/ Push(t)
       \/ \E k \in 1..MaxPop : PopCall(t, k)
       \/ Pop(t)

Spec == Init /\ [][Next]_vars

(* As long as there is room, some pending push gets in; as long as there   *)
(* are events, some pending pop gets one.  No thread is promised that it   *)
(* is the one: the mutex is not fair among threads.                        *)
FairSpec ==
    /\ Spec
    /\ WF_vars(\E t \in Threads : Push(t))
    /\ WF_vars(\E t \in Threads : Pop(t))
=============================================================================
