-------------------------------- MODULE EQueue --------------------------------
(***************************************************************************)
(* EQueue of NfUnit/eventqueue.{h,cpp}: the queue is a doubly linked list  *)
(* threaded through the events themselves (IEvent::_next, _prev), with a   *)
(* counter `used` beside it.  ELQueue and BlockEQueue run every operation  *)
(* under a mutex, so one operation runs at a time; but they let size(),    *)
(* empty() and full() be read without it, so what a reader may see in the  *)
(* middle of an operation matters: pushs and pops link one event per step  *)
(* and correct `used` when they return.                                    *)
(***************************************************************************)
EXTENDS Integers, Sequences, FiniteSets, Functions

CONSTANTS Events,    \* the IEvent objects
          NULL,      \* the null pointer
          MaxItems   \* the largest `items` given to pushs and pops

ASSUME EQueueAssumption ==
    /\ NULL \notin Events
    /\ MaxItems \in Nat \ {0}

Pointers == Events \union {NULL}

VARIABLES
    begin, end,   \* the ends of the list
    next, prev,   \* the links inside the events
    used,         \* the counter behind size() and full()
    op,           \* the operation that holds the mutex
    arg,          \* its array: the events pushs was given or pops has taken
    items,        \* its `items`
    i,            \* how many steps of its loop are done
    queue,        \* history: the events from oldest to newest
    before        \* history: the queue when the operation began

list == <<begin, end, next, prev>>
vars == <<begin, end, next, prev, used, op, arg, items, i, queue, before>>

Ops == {"idle", "pushs", "pops", "pop", "erase"}

Init ==
    /\ begin = NULL
    /\ end = NULL
    /\ next = [e \in Events |-> NULL]
    /\ prev = [e \in Events |-> NULL]
    /\ used = 0
    /\ op = "idle"
    /\ arg = <<>>
    /\ items = 0
    /\ i = 0
    /\ queue = <<>>
    /\ before = <<>>

(* The operation acquires the mutex and starts. *)
Start(name, evs, n) ==
    /\ op = "idle"
    /\ op' = name
    /\ arg' = evs
    /\ items' = n
    /\ i' = 0
    /\ before' = queue

(* Mutant of Finish: the counter always moves by one. *)
FinishByOne(delta) ==
    /\ used' = IF delta > 0 THEN used + 1 ELSE used - 1
    /\ op' = "idle"
    /\ arg' = <<>>
    /\ items' = 0
    /\ i' = 0
    /\ before' = <<>>
    /\ UNCHANGED <<list, queue>>

(* It corrects the counter and returns. *)
Finish(delta) ==
    /\ used' = used + delta
    /\ op' = "idle"
    /\ arg' = <<>>
    /\ items' = 0
    /\ i' = 0
    /\ before' = <<>>
    /\ UNCHANGED <<list, queue>>
-----------------------------------------------------------------------------
(* Mutant of LinkLast: the backward link is forgotten. *)
LinkLastOneWay(e) ==
    \/ /\ end # NULL
       /\ next' = [next EXCEPT ![e] = NULL, ![end] = e]
       /\ end' = e
       /\ UNCHANGED <<prev, begin>>
    \/ /\ end = NULL
       /\ next' = [next EXCEPT ![e] = NULL]
       /\ prev' = [prev EXCEPT ![e] = NULL]
       /\ begin' = e
       /\ end' = e

(* Event e is linked in behind `end`. *)
LinkLast(e) ==
    \/ /\ end # NULL
       /\ next' = [next EXCEPT ![e] = NULL, ![end] = e]
       /\ prev' = [prev EXCEPT ![e] = end]
       /\ end' = e
       /\ UNCHANGED begin
    \/ /\ end = NULL
       /\ next' = [next EXCEPT ![e] = NULL]
       /\ prev' = [prev EXCEPT ![e] = NULL]
       /\ begin' = e
       /\ end' = e

(* The event at `begin` is unlinked, and both of its links are cleared. *)
UnlinkFirst ==
    /\ begin # NULL
    /\ begin' = next[begin]
    /\ next' = [next EXCEPT ![begin] = NULL]
    /\ \/ /\ begin' = NULL
          /\ end' = NULL
          /\ prev' = [prev EXCEPT ![begin] = NULL]
       \/ /\ begin' # NULL
          /\ prev' = [prev EXCEPT ![begin] = NULL, ![begin'] = NULL]
          /\ UNCHANGED end

(* Any event of the list is unlinked: at its front, at its end, inside.    *)
Unlink(e) ==
    \/ /\ e = begin
       /\ UnlinkFirst
    \/ /\ e # begin /\ e = end
       /\ end' = prev[e]
       /\ IF end' = NULL
             THEN begin' = NULL /\ next' = [next EXCEPT ![e] = NULL]
             ELSE UNCHANGED begin /\ next' = [next EXCEPT ![end'] = NULL,
                                                          ![e] = NULL]
       /\ prev' = [prev EXCEPT ![e] = NULL]
    \/ /\ e # begin /\ e # end
       /\ next' = [next EXCEPT ![prev[e]] = next[e], ![e] = NULL]
       /\ prev' = [prev EXCEPT ![next[e]] = prev[e], ![e] = NULL]
       /\ UNCHANGED <<begin, end>>
-----------------------------------------------------------------------------
PushsCall(evs) ==
    /\ Start("pushs", evs, Len(evs))
    /\ UNCHANGED <<list, used, queue>>

(* Mutant of PushsStep: the array is walked from its end. *)
PushsStepBackwards ==
    /\ op = "pushs"
    /\ i < items
    /\ LinkLast(arg[items - i])
    /\ i' = i + 1
    /\ queue' = Append(queue, arg[items - i])
    /\ UNCHANGED <<used, op, arg, items, before>>

PushsStep ==
    /\ op = "pushs"
    /\ i < items
    /\ LinkLast(arg[i + 1])
    /\ i' = i + 1
    /\ queue' = Append(queue, arg[i + 1])
    /\ UNCHANGED <<used, op, arg, items, before>>

PushsReturn ==
    /\ op = "pushs"
    /\ i = items
    /\ Finish(items)

PopsCall(n) ==
    /\ Start("pops", <<>>, n)
    /\ UNCHANGED <<list, used, queue>>

PopsStep ==
    /\ op = "pops"
    /\ i < items
    /\ UnlinkFirst
    /\ arg' = Append(arg, begin)
    /\ i' = i + 1
    /\ queue' = Tail(queue)
    /\ UNCHANGED <<used, op, items, before>>

(* The loop ends when it has `items` events or the list is empty; both     *)
(* ways it subtracts what it took.                                         *)
PopsReturn ==
    /\ op = "pops"
    /\ i = items \/ begin = NULL
    /\ Finish(-i)

(* pop(): as one step of pops (from an empty list it returns NULL at once).*)
Pop ==
    /\ Start("pop", <<begin>>, 1)
    /\ UnlinkFirst
    /\ queue' = Tail(queue)
    /\ UNCHANGED used

(* erase of the k-th event of the list *)
Erase(k) ==
    /\ Start("erase", <<queue[k]>>, 1)
    /\ Unlink(queue[k])
    /\ queue' = [j \in 1..Len(queue) - 1 |->
                    IF j < k THEN queue[j] ELSE queue[j + 1]]
    /\ UNCHANGED used

(* The last statement of pop and of erase: used-- *)
Decrement ==
    /\ op \in {"pop", "erase"}
    /\ Finish(-1)

(* clear() forgets the list; the events keep their links. *)
Clear ==
    /\ op = "idle"
    /\ begin' = NULL
    /\ end' = NULL
    /\ used' = 0
    /\ queue' = <<>>
    /\ UNCHANGED <<next, prev, op, arg, items, i, before>>

(* What callers may pass: distinct events that are in no list, and an event*)
(* to erase that is in this one.                                           *)
Arrays == UNION {[1..n -> Events] : n \in 1..MaxItems}

Distinct(s) == \A j, k \in 1..Len(s) : s[j] = s[k] => j = k

Next ==
    \/ \E evs \in Arrays :
          /\ Range(evs) \intersect Range(queue) = {}
          /\ Distinct(evs)
          /\ PushsCall(evs)
    \/ PushsStep
    \/ PushsReturn
    \/ \E n \in 1..MaxItems : PopsCall(n)
    \/ PopsStep
    \/ PopsReturn
    \/ Pop
    \/ \E k \in 1..Len(queue) : Erase(k)
    \/ Decrement
    \/ Clear

Spec == Init /\ [][Next]_vars
-----------------------------------------------------------------------------
(* Type correctness: pointers point to events, and pops takes no more than *)
(* it was asked for.                                                       *)
TypeOK ==
    /\ begin \in Pointers
    /\ end \in Pointers
    /\ next \in [Events -> Pointers]
    /\ prev \in [Events -> Pointers]
    /\ used \in Nat
    /\ op \in Ops
    /\ arg \in Seq(Events)
    /\ items \in 0..MaxItems
    /\ i \in 0..items
    /\ queue \in Seq(Events)
    /\ before \in Seq(Events)

(* The two chains of links spell the queue, forwards from begin and        *)
(* backwards from end, after every step of every sequence of pushes, pops, *)
(* erasures and clears; in particular no link of an event that was cleared *)
(* away, and still points into the list, is ever followed.                 *)
Represents ==
    /\ begin = IF queue = <<>> THEN NULL ELSE queue[1]
    /\ end = IF queue = <<>> THEN NULL ELSE queue[Len(queue)]
    /\ \A k \in 1..Len(queue) :
          /\ next[queue[k]] = IF k = Len(queue) THEN NULL ELSE queue[k + 1]
          /\ prev[queue[k]] = IF k = 1 THEN NULL ELSE queue[k - 1]

(* What size() and full() answer: exact under the mutex, and without it    *)
(* (EXTReactor::callback's size() > 0) off by what the running operation   *)
(* has done so far: too small during pushs, too large during a pop.        *)
UsedExact ==
    used = CASE op = "idle" -> Len(queue)
             [] op = "pushs" -> Len(queue) - i
             [] op = "pops" -> Len(queue) + i
             [] op \in {"pop", "erase"} -> Len(queue) + 1

(* First in, first out across a whole operation: pushs has appended its    *)
(* first i events in order; pops and pop hold the oldest events in order.  *)
OperationsAreFifo ==
    /\ op = "pushs" => queue = before \o SubSeq(arg, 1, i)
    /\ op \in {"pops", "pop"} => before = arg \o queue
=============================================================================
