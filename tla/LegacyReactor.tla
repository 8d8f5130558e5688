---------------------------- MODULE LegacyReactor ----------------------------
(***************************************************************************)
(* The reactor of reactor.cpp with the worker threads of ThreadPool.cpp.   *)
(* A descriptor has a slot for a read event and one for a write event,     *)
(* registered together in one epoll set.  The flag "active" of an event is *)
(* to keep it to one thread; event_mutex is held only where it is tested   *)
(* and set, and where events are counted up.  What decides what the kernel *)
(* is told is read without it, and events are counted down without it.     *)
(*                                                                         *)
(* Three kinds of thread call the reactor: one of another reactor adds the *)
(* events of its connections, the thread of start dispatches, and workers  *)
(* run events, pause and resume them, and delete one that fails.  Events   *)
(* and tasks are declared in a header that is not in the repository: what  *)
(* a task does to its event follows the comment at the head of reactor.cpp.*)
(*                                                                         *)
(* After a use of a freed event or a failed assertion nothing more is said *)
(* of the program (crashed).                                               *)
(***************************************************************************)
EXTENDS Integers, FiniteSets, Sequences

CONSTANTS
    Fds, Workers,
    Acceptor, Main,   \* the thread that adds events, and that of start
    Losable,          \* descriptors whose EPOLL_CTL_ADD may fail
    Events,           \* bound: the events that are ever added
    NULL

ASSUME LegacyReactorAssumption ==
    /\ Losable \subseteq Fds
    /\ Events \subseteq [fd : Fds, dir : {"read", "write"}, gen : Nat]
    /\ IsFiniteSet(Events)
    /\ Acceptor # Main /\ {Acceptor, Main} \intersect Workers = {}
    /\ IsFiniteSet(Workers)
    /\ NULL \notin Events

Threads == {Acceptor, Main} \union Workers
Dirs == {"read", "write"}
Flags == {"inserted", "active", "registered"}
Ops == [cmd : {"ADD", "MOD", "DEL"}, dirs : SUBSET Dirs]

VARIABLES
    slot,        \* slot[fd][dir]: evread and evwrite of evepoll
    flags,       \* ev_flags
    made,        \* events that add_event has taken
    freed,       \* and those of them that have been deleted
    epoll,       \* what the kernel waits for, {} if fd is not in the set
    count,       \* event_count
    tasks        \* m_task_list of each worker

VARIABLES        \* of thread t
    at, ev,      \* where it is, and the event it works on
    call,        \* the call of the reactor it is in
    op,          \* the epoll_ctl it is about to make
    seen         \* event_count as it has read it

VARIABLES        \* of the dispatcher
    ready,       \* the entry of events it handles
    nextEv       \* the event it deletes next

VARIABLES        \* for the properties
    overlapped,  \* descriptors with two epoll_ctl calls prepared at once
    undone,      \* descriptors with a failed add
    replaced,    \* descriptors with an event that replaced another
    miscounted,  \* an update of event_count has been overwritten
    crashed

shared == <<slot, flags, made, freed, epoll, count, tasks>>
local == <<at, ev, call, op, seen>>
dispatch == <<ready, nextEv>>
history == <<overlapped, undone, replaced, miscounted, crashed>>
vars == <<shared, local, dispatch, history>>

Init ==
    /\ slot = [fd \in Fds |-> [d \in Dirs |-> NULL]]
    /\ flags = [e \in Events |-> {}]
    /\ made = {} /\ freed = {}
    /\ epoll = [fd \in Fds |-> {}]
    /\ count = 0
    /\ tasks = [w \in Workers |-> <<>>]
    /\ at = [t \in Threads |-> "idle"]
    /\ ev = [t \in Threads |-> NULL]
    /\ call = [t \in Threads |-> "none"]
    /\ op = [t \in Threads |-> NULL]
    /\ seen = [t \in Threads |-> 0]
    /\ ready = NULL /\ nextEv = NULL
    /\ overlapped = {} /\ undone = {} /\ replaced = {}
    /\ miscounted = FALSE /\ crashed = FALSE
-----------------------------------------------------------------------------
Other(d) == IF d = "read" THEN "write" ELSE "read"
Has(e, flag) == e # NULL /\ flag \in flags[e]
SlotsOf(fd) == {slot[fd][d] : d \in Dirs} \ {NULL}

(* The events whose flag set_io_event_active and unactive look at. *)
Pair(e) == IF \A d \in Dirs : slot[e.fd][d] # NULL THEN SlotsOf(e.fd) ELSE {e}
MayActivate(e) == \A p \in Pair(e) : ~Has(p, "active")
With(E, flag) == [e \in Events |-> flags[e] \union (IF e \in E THEN {flag} ELSE {})]
Without(E, flag) == [e \in Events |-> flags[e] \ (IF e \in E THEN {flag} ELSE {})]

(* event_queue_insert and event_queue_remove: the list of all events.  No  *)
(* operation reads it, so the flag stands for it.                          *)
EventQueueInsert(F, e) == [F EXCEPT ![e] = @ \union {"inserted"}]
EventQueueRemove(F, e) == [F EXCEPT ![e] = @ \ {"inserted"}]

(* Mutant of UnactiveOp: the other direction goes with it. *)
UnactiveOpBoth(e) == [cmd |-> "DEL", dirs |-> {}]

(* What epoll_active_event and epoll_unactive_event tell the kernel, from *)
(* the flags of the events in the slots.                                  *)
Registered(fd) == {d \in Dirs : Has(slot[fd][d], "registered")}
ActiveOp(e) ==
    [cmd |-> IF Registered(e.fd) = {} THEN "ADD" ELSE "MOD",
     dirs |-> Registered(e.fd) \union {e.dir}]
UnactiveOp(e) ==
    IF Other(e.dir) \in Registered(e.fd)
    THEN [cmd |-> "MOD", dirs |-> {Other(e.dir)}]
    ELSE [cmd |-> "DEL", dirs |-> {}]

(* epoll_ctl: ADD wants the descriptor out of the set, MOD and DEL in it. *)
CtlWorks(fd, o) == (o.cmd = "ADD") = (epoll[fd] = {})

Goto(t, label) == at' = [at EXCEPT ![t] = label]
Enter(t, c, label) == call' = [call EXCEPT ![t] = c] /\ Goto(t, label)

(* The thread returns from the reactor: the dispatcher to the event it is *)
(* still to delete, if there is one.                                      *)
Return(t) ==
    /\ call' = [call EXCEPT ![t] = "none"]
    /\ IF t = Main /\ nextEv # NULL
       THEN /\ Goto(t, "delete") /\ ev' = [ev EXCEPT ![t] = nextEv]
            /\ nextEv' = NULL /\ UNCHANGED ready
       ELSE /\ Goto(t, "idle") /\ ev' = [ev EXCEPT ![t] = NULL]
            /\ ready' = IF t = Main THEN NULL ELSE ready
            /\ UNCHANGED nextEv

(* The thread looks at an event that another has deleted. *)
Dangling(t) == ev[t] \in freed /\ at[t] \notin {"count", "load", "store"}
Works(t, label) == at[t] = label /\ ~Dangling(t)

(* event_mutex is held from step to step only while event_count is         *)
(* incremented; every other section it protects is part of one step.       *)
MutexFree == \A t \in Threads : at[t] # "store"
-----------------------------------------------------------------------------
(* add_event: the event is made active, with the other of its descriptor.  *)
(* While one of them is active the call is refused and changes nothing;    *)
(* the event stays with the caller, who may try again.                     *)
AddEvent(t, e) ==
    /\ t = Acceptor /\ at[t] = "idle" /\ MutexFree
    /\ e \notin made /\ MayActivate(e)
    /\ \A f \in Events : f.fd = e.fd /\ f.dir = e.dir /\ f.gen < e.gen => f \in made
    /\ made' = made \union {e}
    /\ flags' = With(Pair(e), "active")
    /\ Enter(t, "add", "insert") /\ ev' = [ev EXCEPT ![t] = e]
    /\ UNCHANGED <<slot, freed, epoll, count, tasks, op, seen, dispatch, history>>

(* The event goes to the list and to its slot; one that was there is       *)
(* deleted.                                                                *)
Insert(t) ==
    /\ Works(t, "insert")
    /\ LET e == ev[t]
           old == slot[e.fd][e.dir]
       IN  /\ flags' = EventQueueInsert(flags, e)
           /\ slot' = [slot EXCEPT ![e.fd][e.dir] = e]
           /\ freed' = freed \union ({old} \ {NULL})
           /\ replaced' = replaced \union (IF old = NULL THEN {} ELSE {e.fd})
    /\ Goto(t, "load")
    /\ UNCHANGED <<made, epoll, count, tasks, ev, call, op, seen, dispatch,
                   overlapped, undone, miscounted, crashed>>

(* event_count++ under the mutex, which the decrement does not take: the   *)
(* count is loaded ...                                                     *)
IncrementLoads(t) ==
    /\ at[t] = "load" /\ MutexFree
    /\ seen' = [seen EXCEPT ![t] = count]
    /\ Goto(t, "store")
    /\ UNCHANGED <<shared, ev, call, op, dispatch, history>>

(* ... and stored.  actived says whether the event is registered at once.  *)
IncrementStores(t, actived) ==
    /\ at[t] = "store"
    /\ count' = seen[t] + 1
    /\ miscounted' = (miscounted \/ count # seen[t])
    /\ seen' = [seen EXCEPT ![t] = 0]
    /\ Goto(t, IF actived THEN "prepare" ELSE "release")
    /\ UNCHANGED <<slot, flags, made, freed, epoll, tasks, ev, call, op, dispatch,
                   overlapped, undone, replaced, crashed>>

(* set_event_unactive, without the mutex. *)
Release(t) ==
    /\ Works(t, "release")
    /\ flags' = Without({ev[t]}, "active")
    /\ Return(t)
    /\ UNCHANGED <<slot, made, freed, epoll, count, tasks, op, seen, history>>

(* Mutant of Undo: a failed call leaves the flags as they are. *)
UndoKeepsActive(t) ==
    /\ Works(t, "undo") /\ MutexFree
    /\ undone' = undone \union (IF call[t] = "add" THEN {ev[t].fd} ELSE {})
    /\ Return(t)
    /\ UNCHANGED <<slot, flags, made, freed, epoll, count, tasks, op, seen,
                   overlapped, replaced, miscounted, crashed>>

(* add_event and del_event, done: both flags are cleared. *)
Undo(t) ==
    /\ Works(t, "undo") /\ MutexFree
    /\ flags' = Without(Pair(ev[t]), "active")
    /\ undone' = undone \union (IF call[t] = "add" THEN {ev[t].fd} ELSE {})
    /\ Return(t)
    /\ UNCHANGED <<slot, made, freed, epoll, count, tasks, op, seen,
                   overlapped, replaced, miscounted, crashed>>
-----------------------------------------------------------------------------
Activates(t) == call[t] \in {"add", "resume"}
OnSuccess(c) == CASE c = "add" -> "release" [] c = "del" -> "free" [] OTHER -> "run"
OnFailure(c) == IF c \in {"add", "del"} THEN "undo" ELSE "run"

(* epoll_active_event and epoll_unactive_event up to the epoll_ctl. *)
Prepare(t) ==
    /\ Works(t, "prepare")
    /\ LET e == ev[t]
       IN  IF Activates(t) = Has(e, "registered")
           THEN Goto(t, OnSuccess(call[t])) /\ UNCHANGED op
           ELSE /\ op' = [op EXCEPT ![t] =
                             IF Activates(t) THEN ActiveOp(e) ELSE UnactiveOp(e)]
                /\ Goto(t, "ctl")
    /\ overlapped' = IF \E u \in Threads \ {t} :
                           at[u] \in {"ctl", "free"} /\ ev[u].fd = ev[t].fd
                     THEN overlapped \union {ev[t].fd} ELSE overlapped
    /\ UNCHANGED <<shared, ev, call, seen, dispatch, undone, replaced, miscounted,
                   crashed>>

(* The epoll_ctl succeeds and the event notes it. *)
Ctl(t) ==
    /\ Works(t, "ctl") /\ CtlWorks(ev[t].fd, op[t])
    /\ epoll' = [epoll EXCEPT ![ev[t].fd] = op[t].dirs]
    /\ flags' = IF Activates(t) THEN With({ev[t]}, "registered")
                                ELSE Without({ev[t]}, "registered")
    /\ Goto(t, OnSuccess(call[t]))
    /\ op' = [op EXCEPT ![t] = NULL]
    /\ UNCHANGED <<slot, made, freed, count, tasks, ev, call, seen, dispatch,
                   history>>

(* It fails: another thread came first, or the kernel is out of memory. *)
CtlFails(t) ==
    /\ Works(t, "ctl")
    /\ CtlWorks(ev[t].fd, op[t]) => op[t].cmd = "ADD" /\ ev[t].fd \in Losable
    /\ Goto(t, OnFailure(call[t]))
    /\ op' = [op EXCEPT ![t] = NULL]
    /\ UNCHANGED <<shared, ev, call, seen, dispatch, history>>
-----------------------------------------------------------------------------
(* del_event: both events of the descriptor are made active, the event     *)
(* leaves the list.  An active one is refused.                             *)
DelEvent(t) ==
    /\ Works(t, "delete") /\ MutexFree
    /\ MayActivate(ev[t]) /\ Has(ev[t], "inserted")
    /\ flags' = EventQueueRemove(With(Pair(ev[t]), "active"), ev[t])
    /\ Enter(t, "del", "prepare")
    /\ UNCHANGED <<slot, made, freed, epoll, count, tasks, ev, op, seen, dispatch,
                   history>>

DelRefused(t) ==
    /\ Works(t, "delete") /\ MutexFree /\ ~MayActivate(ev[t])
    /\ Return(t)
    /\ UNCHANGED <<shared, op, seen, history>>

(* epoll_del_event: the event is deleted and its slot emptied, and        *)
(* event_count is decremented without the mutex.  The other event of the  *)
(* descriptor stays active.                                               *)
Free(t) ==
    /\ Works(t, "free")
    /\ freed' = freed \union {ev[t]}
    /\ slot' = [slot EXCEPT ![ev[t].fd][ev[t].dir] = NULL]
    /\ seen' = [seen EXCEPT ![t] = count]
    /\ Goto(t, "count")
    /\ UNCHANGED <<flags, made, epoll, count, tasks, ev, call, op, dispatch, history>>

(* Mutant of Count: only the branch for read events counts. *)
CountReads(t) ==
    /\ at[t] = "count"
    /\ count' = IF ev[t].dir = "read" THEN seen[t] - 1 ELSE count
    /\ miscounted' = (miscounted \/ count # seen[t])
    /\ seen' = [seen EXCEPT ![t] = 0]
    /\ Return(t)
    /\ UNCHANGED <<slot, flags, made, freed, epoll, tasks, op,
                   overlapped, undone, replaced, crashed>>

Count(t) ==
    /\ at[t] = "count"
    /\ count' = seen[t] - 1
    /\ miscounted' = (miscounted \/ count # seen[t])
    /\ seen' = [seen EXCEPT ![t] = 0]
    /\ Return(t)
    /\ UNCHANGED <<slot, flags, made, freed, epoll, tasks, op,
                   overlapped, undone, replaced, crashed>>
-----------------------------------------------------------------------------
(* start and epoll_wait: with no events counted the reactor sleeps. *)
Wait ==
    /\ at[Main] = "idle" /\ MutexFree /\ count > 0
    /\ \E fd \in Fds : \E why \in epoll[fd] \union {"error"} :
          epoll[fd] # {} /\ ready' = [fd |-> fd, why |-> why]
    /\ Goto(Main, "entry")
    /\ UNCHANGED <<shared, ev, call, op, seen, nextEv, history>>

(* EPOLLHUP and EPOLLERR: idle events are deleted, one after the other. *)
HangUp ==
    /\ at[Main] = "entry" /\ MutexFree /\ ready.why = "error"
    /\ LET r == slot[ready.fd]["read"]
           w == slot[ready.fd]["write"]
           first == IF r = NULL THEN w ELSE r
       IN  IF first # NULL /\ \A e \in SlotsOf(ready.fd) : ~Has(e, "active")
           THEN /\ ev' = [ev EXCEPT ![Main] = first]
                /\ nextEv' = IF r = NULL THEN NULL ELSE w
                /\ ready' = NULL
                /\ Goto(Main, "delete") /\ UNCHANGED call
           ELSE Return(Main)
    /\ UNCHANGED <<shared, op, seen, history>>

(* EPOLLIN and EPOLLOUT: the slot is read before the mutex is taken. *)
Capture ==
    /\ at[Main] = "entry" /\ ready.why # "error"
    /\ ev' = [ev EXCEPT ![Main] = slot[ready.fd][ready.why]]
    /\ Goto(Main, "hand")
    /\ UNCHANGED <<shared, call, op, seen, dispatch, history>>

NoEvent ==
    /\ at[Main] = "hand"
    /\ \/ slot[ready.fd][ready.why] = NULL
       \/ ~Dangling(Main) /\ MutexFree /\ Has(ev[Main], "active")
    /\ Return(Main)
    /\ UNCHANGED <<shared, op, seen, history>>

(* CThreadPool::AddTask and CWorkerThread::PushTask *)
PushTask(w, e) == tasks' = [tasks EXCEPT ![w] = Append(@, e)]

(* Mutant of AddTask: the event is tested, but not made active. *)
AddTaskIdle(w) ==
    /\ Works(Main, "hand") /\ MutexFree
    /\ slot[ready.fd][ready.why] # NULL /\ ev[Main] # NULL
    /\ ~Has(ev[Main], "active")
    /\ PushTask(w, ev[Main])
    /\ Return(Main)
    /\ UNCHANGED <<slot, flags, made, freed, epoll, count, op, seen, history>>

(* The event becomes active and a task for it goes to any worker. *)
AddTask(w) ==
    /\ Works(Main, "hand") /\ MutexFree
    /\ slot[ready.fd][ready.why] # NULL /\ ev[Main] # NULL
    /\ ~Has(ev[Main], "active")
    /\ flags' = With({ev[Main]}, "active")
    /\ PushTask(w, ev[Main])
    /\ Return(Main)
    /\ UNCHANGED <<slot, made, freed, epoll, count, op, seen, history>>
-----------------------------------------------------------------------------
(* Execute: a worker waits for a task and runs it. *)
Execute(w) ==
    /\ at[w] = "idle" /\ tasks[w] # <<>>
    /\ ev' = [ev EXCEPT ![w] = Head(tasks[w])]
    /\ tasks' = [tasks EXCEPT ![w] = Tail(@)]
    /\ Goto(w, "run")
    /\ UNCHANGED <<slot, flags, made, freed, epoll, count, call, op, seen, dispatch,
                   history>>

(* The task takes its event out of the epoll set, or puts it back. *)
PauseOrResume(w) ==
    /\ Works(w, "run")
    /\ Enter(w, IF Has(ev[w], "registered") THEN "pause" ELSE "resume", "prepare")
    /\ UNCHANGED <<shared, ev, op, seen, dispatch, history>>

(* The task is done: its event is idle again, and is deleted if it failed. *)
TaskEnds(w) ==
    /\ Works(w, "run")
    /\ flags' = Without({ev[w]}, "active")
    /\ \/ Return(w)
       \/ Enter(w, "none", "delete") /\ UNCHANGED <<ev, dispatch>>
    /\ UNCHANGED <<slot, made, freed, epoll, count, tasks, op, seen, history>>
-----------------------------------------------------------------------------
(* A freed event, or no event, is looked at; or one that has left the list *)
(* is deleted again, which an assertion forbids.                           *)
Crash(t) ==
    /\ \/ Dangling(t) /\ (at[t] = "hand" => slot[ready.fd][ready.why] # NULL)
       \/ t = Main /\ at[t] = "hand" /\ ev[t] = NULL
             /\ slot[ready.fd][ready.why] # NULL
       \/ Works(t, "delete") /\ MayActivate(ev[t]) /\ ~Has(ev[t], "inserted")
    /\ crashed' = TRUE
    /\ UNCHANGED <<shared, local, dispatch, overlapped, undone, replaced, miscounted>>

Next ==
    /\ ~crashed
    /\ \/ \E t \in Threads :
             \/ \E e \in Events : AddEvent(t, e)
             \/ Insert(t) \/ IncrementLoads(t)
             \/ \E actived \in BOOLEAN : IncrementStores(t, actived)
             \/ Release(t) \/ Undo(t) \/ Prepare(t) \/ Ctl(t) \/ CtlFails(t)
             \/ DelEvent(t) \/ DelRefused(t) \/ Free(t) \/ Count(t) \/ Crash(t)
       \/ Wait \/ HangUp \/ Capture \/ NoEvent
       \/ \E w \in Workers :
             AddTask(w) \/ Execute(w) \/ PauseOrResume(w) \/ TaskEnds(w)

Spec == Init /\ [][Next]_vars
-----------------------------------------------------------------------------
(* Type correctness of the tables, the flags and the threads. *)
TypeOK ==
    /\ slot \in [Fds -> [Dirs -> Events \union {NULL}]]
    /\ flags \in [Events -> SUBSET Flags]
    /\ freed \subseteq made /\ made \subseteq Events
    /\ epoll \in [Fds -> SUBSET Dirs]
    /\ count \in Int
    /\ tasks \in [Workers -> Seq(Events)]
    /\ at \in [Threads -> {"idle", "insert", "load", "store", "release", "undo",
                           "prepare", "ctl", "delete", "free", "count", "entry",
                           "hand", "run"}]
    /\ ev \in [Threads -> Events \union {NULL}]
    /\ call \in [Threads -> {"none", "add", "del", "pause", "resume"}]
    /\ op \in [Threads -> Ops \union {NULL}]
    /\ seen \in [Threads -> Int]
    /\ ready \in [fd : Fds, why : Dirs \union {"error"}] \union {NULL}
    /\ nextEv \in Events \union {NULL}

(* A task of event e that is queued or runs. *)
RunsTask(w, e) == ev[w] = e /\ at[w] # "delete" /\ call[w] # "del"
TasksOf(e) ==
    {<<w, 0>> : w \in {v \in Workers : RunsTask(v, e)}} \union
    UNION {{<<w, i>> : i \in {j \in 1..Len(tasks[w]) : tasks[w][j] = e}} : w \in Workers}

(* excute event: an event that is being run is not run again ("this read   *)
(* event can not excute again").  The flag gives no more: it is lost when  *)
(* the other event of the descriptor fails to be added or is replaced.     *)
OneTaskEach ==
    \A e \in made \ freed : e.fd \notin undone \union replaced => Cardinality(TasksOf(e)) < 2

(* The kernel waits for the directions whose events believe to be          *)
(* registered, unless a thread is between deciding what to tell it and     *)
(* telling it, or two threads have been there at once, or an event has     *)
(* been replaced.                                                          *)
InterestAgrees ==
    \A fd \in Fds \ (overlapped \union replaced) :
       (~\E t \in Threads : at[t] = "ctl" /\ ev[t].fd = fd)
          => epoll[fd] = Registered(fd)

(* event_count, which decides whether the reactor waits at all, counts the *)
(* events in the slots, those that are being taken out, and not yet one    *)
(* that is being added; it goes wrong only when an increment and a         *)
(* decrement, or two decrements, overwrite each other, or by an event that *)
(* replaced another.                                                       *)
CountMatches ==
    miscounted \/ replaced # {} \/
    count = Cardinality(UNION {SlotsOf(fd) : fd \in Fds})
            + Cardinality({t \in Threads : at[t] = "count"})
            - Cardinality({t \in Threads : at[t] \in {"load", "store"}})

(* An active event is in the hands of a thread that will make it idle      *)
(* again.  The exception is what a delete leaves behind, that of del_event *)
(* or of an event that is replaced: it makes the other event of the        *)
(* descriptor active, which then stays so for ever, and nobody runs it.    *)
ActiveIsHeld ==
    \A e \in made \ freed : Has(e, "active") =>
       \/ TasksOf(e) # {}
       \/ \E t \in Threads : call[t] \in {"add", "del"} /\ ev[t] # NULL
                             /\ (ev[t] = e \/ e \in Pair(ev[t]))
       \/ \E d \in freed : d.fd = e.fd /\ d.dir = Other(e.dir)
=============================================================================
