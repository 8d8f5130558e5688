------------------------------ MODULE EXTReactor ------------------------------
(***************************************************************************)
(* The pool of worker threads (NfUnit/extreactor.cpp) over its blocking    *)
(* queue (BlockEQueue): run, post, cancel, the workers' two loops, stop,   *)
(* stopUntilEmpty, join and the destructor, and IReactor::extEvent, which  *)
(* a worker runs for every event it takes.  _run and _emptystop are plain  *)
(* bools that the threads read and write without a lock, one at a time.    *)
(*                                                                         *)
(* The pool runs CPU events here, which extEvent posts back to the pool    *)
(* itself; NetReactor has the NET events that come from and return to the  *)
(* SyncReactor.                                                            *)
(***************************************************************************)
EXTENDS Integers, Sequences, FiniteSets, Functions

CONSTANTS
    Workers,     \* the threads ThreadManager starts
    Main,        \* the thread that runs, stops, joins and destroys the pool
    Producers,   \* the threads that post from outside; may include Main
    Events,      \* the event objects
    Reusable,    \* those that are isReUsed() or may be left RUNNING, and so
                 \* may be posted again; the others' callbacks set DONE
    Cancelable,  \* those that somebody may cancel
    Capacity,    \* of the queue
    None         \* no event

ASSUME EXTReactorAssumption ==
    /\ IsFiniteSet(Workers) /\ Workers # {}
    /\ IsFiniteSet(Producers) /\ IsFiniteSet(Events)
    /\ Workers \intersect Producers = {}
    /\ Main \notin Workers
    /\ Reusable \subseteq Events /\ None \notin Events
    /\ Cancelable \subseteq Events
    /\ Capacity \in Nat /\ Capacity > 1

VARIABLES
    run,         \* _run
    emptystop,   \* _emptystop
    main,        \* where the main thread is with the pool
    pc,          \* pc[w]: where worker w is
    drains,      \* the workers that are in the second loop, while(size() > 0)
    hand,        \* hand[w]: the event w has popped
    live,        \* the events that exist (posted, and not deleted yet)
    status,      \* status[e]: IEvent::status
    late         \* for the properties: an event came from outside after
                 \* _emptystop was set

VARIABLES queue, cap, waits, asleep, woken, op, batch, items \* BlockEQueue

Q == INSTANCE BlockEQueue WITH
        Pushers <- Workers \union Producers, Poppers <- Workers \union {Main},
        MaxPush <- 1, MaxPop <- 1

control == <<run, emptystop, main>>
worker == <<pc, drains, hand>>
event == <<live, status, late>>
bqueue == <<queue, cap, waits, asleep, woken, op, batch, items>>
vars == <<control, worker, event, bqueue>>

Exited == {"quit", "drained"}

Init ==
    /\ run = FALSE /\ emptystop = FALSE
    /\ main = "init"
    /\ pc = [w \in Workers |-> "unborn"]
    /\ drains = {}
    /\ hand = [w \in Workers |-> None]
    /\ live = {}
    /\ status = [e \in Events |-> "INIT"]
    /\ late = FALSE
    /\ Q!Init
-----------------------------------------------------------------------------
(* post: READY, and into the queue; the call may block there. *)
Post(t, e) ==
    /\ status' = [status EXCEPT ![e] = "READY"]
    /\ Q!PushCall(t, <<e>>)

(* A new event from outside, before, while or after the pool runs.  The    *)
(* main thread posts before run() only, nobody while the destructor runs.  *)
ClientPosts(p, e) ==
    /\ main # "destroying" /\ (p = Main => main = "init")
    /\ e \notin live
    /\ live' = live \union {e}
    /\ Post(p, e)
    /\ UNCHANGED <<control, worker, late>>

ClientPushes(p) ==
    /\ \/ Q!PushBlocked(p) /\ UNCHANGED late
       \/ Q!PushDone(p) /\ late' = (late \/ emptystop)
    /\ UNCHANGED <<control, worker, live, status>>

(* cancel, by whoever knows the event *)
Cancel(e) ==
    /\ e \in live \intersect Cancelable
    /\ status' = [status EXCEPT ![e] = "CANCELED"]
    /\ UNCHANGED <<control, worker, live, late, bqueue>>
-----------------------------------------------------------------------------
(* The main thread. *)
Run ==
    /\ main = "init"
    /\ op[Main] = "none"
    /\ run' = TRUE
    /\ main' = "running"
    /\ pc' = [w \in Workers |-> "while"]
    /\ UNCHANGED <<emptystop, drains, hand, event, bqueue>>

Stop ==
    /\ main = "running"
    /\ run' = FALSE
    /\ main' = "joining"
    /\ UNCHANGED <<emptystop, worker, event, bqueue>>

(* stopUntilEmpty: _run first, _emptystop second. *)
StopUntilEmpty ==
    /\ main = "running"
    /\ run' = FALSE
    /\ main' = "stopping"
    /\ UNCHANGED <<emptystop, worker, event, bqueue>>

SetEmptyStop ==
    /\ main = "stopping"
    /\ emptystop' = TRUE
    /\ main' = "joining"
    /\ UNCHANGED <<run, worker, event, bqueue>>

(* pthread_join of every thread *)
Join ==
    /\ main = "joining"
    /\ \A w \in Workers : pc[w] \in Exited
    /\ main' = "joined"
    /\ UNCHANGED <<run, emptystop, worker, event, bqueue>>

(* ~EXTReactor: pops and releases (here: deletes) what is in the queue.    *)
(* Its caller sees to it that nobody is in a call of the pool.             *)
Destroy ==
    /\ main = "joined"
    /\ \A p \in Producers : op[p] = "none"
    /\ main' = "destroying"
    /\ UNCHANGED <<run, emptystop, worker, event, bqueue>>

DestroyPop ==
    /\ main = "destroying"
    /\ queue # <<>>
    /\ Q!PopCall(Main, 1)
    /\ UNCHANGED <<control, worker, event>>

DestroyRelease ==
    /\ Q!PopDone(Main)
    /\ live' = live \ {Head(queue)}
    /\ status' = [status EXCEPT ![Head(queue)] = "INIT"]
    /\ UNCHANGED <<control, worker, late>>
-----------------------------------------------------------------------------
(* The workers. *)
Goto(w, label) == pc' = [pc EXCEPT ![w] = label]

(* extfun begins with the pop, in either loop *)
Pop(w) ==
    /\ Goto(w, "pop")
    /\ Q!PopCall(w, 1)

(* while(_run) *)
While(w) ==
    /\ pc[w] = "while"
    /\ \/ run /\ Pop(w)
       \/ ~run /\ Goto(w, "if") /\ UNCHANGED bqueue
    /\ UNCHANGED <<control, drains, hand, event>>

(* if(_emptystop) *)
If(w) ==
    /\ pc[w] = "if"
    /\ \/ emptystop /\ Goto(w, "size") /\ drains' = drains \union {w}
       \/ ~emptystop /\ Goto(w, "quit") /\ UNCHANGED drains
    /\ UNCHANGED <<control, hand, event, bqueue>>

(* while(_queue->size() > 0): what is there now may be gone at the pop.    *)
Size(w) ==
    /\ pc[w] = "size"
    /\ \/ queue # <<>> /\ Pop(w)
       \/ queue = <<>> /\ Goto(w, "drained") /\ UNCHANGED bqueue
    /\ UNCHANGED <<control, drains, hand, event>>

(* A pop that returns takes the oldest event, which extEvent sets RUNNING. *)
Popped(w) ==
    /\ Q!PopDone(w)
    /\ hand' = [hand EXCEPT ![w] = Head(queue)]
    /\ status' = [status EXCEPT ![Head(queue)] = "RUNNING"]
    /\ Goto(w, "callback")
    /\ UNCHANGED <<control, drains, live, late>>

PopWaits(w) ==
    /\ Q!PopBlocked(w)
    /\ UNCHANGED <<control, worker, event>>

(* EventCallback: the event is done, cancels itself, or is left as it is,  *)
(* RUNNING or CANCELED by somebody else.                                   *)
Callback(w) ==
    LET e == hand[w] IN
    /\ pc[w] = "callback"
    /\ \E s \in {status[e], "DONE", "CANCELED"} :
          /\ s = "RUNNING" => e \in Reusable
          /\ status' = [status EXCEPT ![e] = s]
    /\ Goto(w, "end")
    /\ UNCHANGED <<control, drains, hand, live, late, bqueue>>

(* Mutant of Again: the second loop is an if. *)
AgainOnce(w) == Goto(w, IF w \in drains THEN "drained" ELSE "while")

(* After extEvent the worker is back in the loop it came from. *)
Again(w) == Goto(w, IF w \in drains THEN "size" ELSE "while")

LetGo(w) == hand' = [hand EXCEPT ![w] = None]

(* Mutant of EndDelete: extEvent does not stop after the delete. *)
EndDeleteAndPost(w) ==
    LET e == hand[w] IN
    /\ pc[w] = "end"
    /\ status[e] = "CANCELED" \/ e \notin Reusable
    /\ live' = live \ {e}
    /\ Post(w, e)
    /\ LetGo(w)
    /\ Goto(w, "repost")
    /\ UNCHANGED <<control, drains, late>>

EndDelete(w) ==
    LET e == hand[w] IN
    /\ pc[w] = "end"
    /\ status[e] = "CANCELED" \/ e \notin Reusable
    /\ live' = live \ {e}
    /\ status' = [status EXCEPT ![e] = "INIT"]
    /\ LetGo(w)
    /\ Again(w)
    /\ UNCHANGED <<control, drains, late, bqueue>>

EndPost(w) ==
    LET e == hand[w] IN
    /\ pc[w] = "end"
    /\ status[e] # "CANCELED" /\ e \in Reusable
    /\ Post(w, e)
    /\ LetGo(w)
    /\ Goto(w, "repost")
    /\ UNCHANGED <<control, drains, live, late>>

RepostWaits(w) ==
    /\ Q!PushBlocked(w)
    /\ UNCHANGED <<control, worker, event>>

Reposted(w) ==
    /\ Q!PushDone(w)
    /\ Again(w)
    /\ UNCHANGED <<control, drains, hand, event>>

Work(w) ==
    \/ While(w) \/ If(w) \/ Size(w)
    \/ PopWaits(w) \/ Popped(w)
    \/ Callback(w)
    \/ EndDelete(w) \/ EndPost(w)
    \/ RepostWaits(w) \/ Reposted(w)

SpuriousWake ==
    /\ \E t \in asleep : Q!SpuriousWake(t)
    /\ UNCHANGED <<control, worker, event>>

Closing == Join \/ Destroy \/ DestroyPop \/ DestroyRelease

Next ==
    \/ \E p \in Producers, e \in Events : ClientPosts(p, e)
    \/ \E p \in Producers : ClientPushes(p)
    \/ \E e \in Events : Cancel(e)
    \/ Run \/ Stop \/ StopUntilEmpty \/ SetEmptyStop
    \/ Closing
    \/ \E w \in Workers : Work(w)
    \/ SpuriousWake

Spec == Init /\ [][Next]_vars

(* The workers run, a blocked post goes on when it can, and a main thread  *)
(* that has begun to stop the pool ends it; whether it begins is open, and *)
(* so is whether anybody posts.                                            *)
FairSpec ==
    /\ Spec
    /\ \A w \in Workers : WF_vars(Work(w))
    /\ \A p \in Producers : WF_vars(ClientPushes(p))
    /\ WF_vars(SetEmptyStop \/ Closing)
-----------------------------------------------------------------------------
(* Type correctness of the pool (its queue's is BlockEQueue's). *)
TypeOK ==
    /\ run \in BOOLEAN /\ emptystop \in BOOLEAN
    /\ main \in {"init", "running", "stopping", "joining", "joined",
                 "destroying"}
    /\ pc \in [Workers -> Exited \union
                 {"unborn", "while", "if", "size", "pop", "callback", "end",
                  "repost"}]
    /\ drains \subseteq Workers
    /\ hand \in [Workers -> Events \union {None}]
    /\ live \subseteq Events
    /\ status \in [Events -> {"INIT", "READY", "RUNNING", "DONE", "CANCELED"}]
    /\ late \in BOOLEAN
    /\ Q!TypeOK

(* The places that can hold an event: a slot of the queue, a thread that   *)
(* posts it, a worker that runs it.                                        *)
Holders(e) ==
    {<<"queue", k>> : k \in {j \in DOMAIN queue : queue[j] = e}}
       \union {<<"post", t>> : t \in {u \in Q!Threads : e \in Range(batch[u])}}
       \union {<<"hand", w>> : w \in {v \in Workers : hand[v] = e}}

(* An event that exists is in exactly one place: no two workers run it at  *)
(* once, nobody runs a deleted one, none is lost, through reposts, stops   *)
(* and the destructor.                                                     *)
EventHeldOnce ==
    \A e \in Events : Cardinality(Holders(e)) = IF e \in live THEN 1 ELSE 0

(* Workers post to the queue they serve.  They can all block there, for    *)
(* ever, but only when there are as many events as the queue and the       *)
(* workers hold together; a pop that fails to signal a pusher does not     *)
(* make it happen any sooner.                                              *)
RepostsBlockOnlyWhenOverfull ==
    (\A w \in Workers : w \in asleep /\ op[w] = "push")
       => Cardinality(live) >= Capacity + Cardinality(Workers)

(* stopUntilEmpty stops with an empty queue, as its name says, but for two *)
(* gaps: events that come from outside after the last worker has looked,   *)
(* and workers that all look between the two flags and quit.               *)
StopsWhenEmpty ==
    main = "joined" /\ emptystop /\ queue # <<>>
       => late \/ \A w \in Workers : pc[w] = "quit"

(* All workers that are left wait in pop for an event.                     *)
Starved ==
    /\ queue = <<>>
    /\ \A w \in Workers : pc[w] \in Exited \union {"pop"}

(* stop wakes nobody, so join may wait for ever; but only for workers that *)
(* wait for an event themselves, or for events that are posted again and   *)
(* again, or keep coming from outside.                                     *)
JoinReturnsOrStarves ==
    main = "joining"
       ~> \/ main \in {"joined", "destroying"}
          \/ Starved
          \/ live \intersect Reusable # {}
          \/ \E p \in Producers : op[p] = "push"

(* An event in the queue of a running pool gets its turn, whatever becomes *)
(* of the others; unless there are so many that all workers may block.     *)
EventsAreRun ==
    \A e \in Events :
       (main = "running" /\ e \in Range(queue))
          ~> \/ e \notin Range(queue)
             \/ main # "running"
             \/ Cardinality(live) >= Capacity + Cardinality(Workers)
=============================================================================
