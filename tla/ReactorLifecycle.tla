--------------------------- MODULE ReactorLifecycle ---------------------------
(***************************************************************************)
(* Starting and stopping a server: NfSvr::run (nf_server.cpp), which posts *)
(* the listening event and then calls SyncReactor::run; the run, create,   *)
(* callback, post, stop, join and destroy of SyncReactor                   *)
(* (NfUnit/syncReactor.cpp); and the threads of its EXTReactor, as far as  *)
(* starting, stopping and joining them goes.  The loop that create and     *)
(* callback lead to is NetReactor: here it is "loop", until it returns.    *)
(*                                                                         *)
(* Meanwhile other threads of the application post events of their own,    *)
(* and one stops the server.  _status is read and written without a lock,  *)
(* and a post reads it in one step and acts on it in another.              *)
(***************************************************************************)
EXTENDS Sequences, Functions

CONSTANTS
    Posted,     \* the events that other threads post, each from its own
    Cpu,        \* those of type IEvent::CPU; the others are of type NET
    Listener,   \* NfSvr's _acc_event
    Workers,    \* the threads of the EXTReactor; none: no _extReactor
    None        \* no event

ASSUME LifecycleAssumption ==
    /\ Cpu \subseteq Posted
    /\ Listener \notin Posted /\ None \notin Posted \union {Listener}

Events == Posted \union {Listener}

VARIABLES
    main,      \* where the thread of NfSvr::run is
    held,      \* the event callback() has popped and is about to post
    listen,    \* _listen_socket: -1, open, or the number of a closed one
    status,    \* SyncReactor::_status
    epfd,      \* whether _epfd is a descriptor (not -1)
    queue,     \* SyncReactor::_queue
    epoll,     \* what was registered in _epfd, whatever became of it then
    refused,   \* history: the events that epoll_ctl did not register in it
    run,       \* EXTReactor::_run
    threads,   \* the worker threads that exist
    pc,        \* pc[e]: how far the post of e by its own thread has come
    stopper,   \* how far the thread that stops and joins the reactor has come
    straddled  \* history: the events some moment of whose post was in start-up

app == <<pc, stopper>>
vars == <<main, held, listen, status, epfd, queue, epoll, refused, run,
          threads, app, straddled>>

Init ==
    /\ main = "new" /\ held = None
    /\ listen = "none"
    /\ status = "INIT"
    /\ epfd = FALSE
    /\ queue = <<>>
    /\ epoll = {} /\ refused = {}
    /\ run = FALSE /\ threads = {}
    /\ pc = [e \in Posted |-> "idle"]
    /\ stopper = "idle"
    /\ straddled = {}

InPost(e) == pc[e] \in {"push", "add"}

(* From _status = RUNNING to the end of the loop that empties _queue. *)
StartUp == {"create", "drain", "repost"}
-----------------------------------------------------------------------------
(* NfSvr::run.  A failure closes the socket and keeps its number, on which *)
(* the next call of run, if there is one, fails again in bind.             *)
Fail(socket) ==
    /\ listen' = socket
    /\ main' = "new"

Bind ==
    /\ main = "new"
    /\ \/ listen = "none" /\ Fail("none")
       \/ Fail("closed")
       \/ listen = "none" /\ listen' = "open" /\ main' = "listen"
    /\ UNCHANGED <<held, status, epfd, queue, epoll, refused, run, threads,
                   app, straddled>>

Listen ==
    /\ main = "listen"
    /\ \/ Fail("closed")
       \/ main' = "post" /\ UNCHANGED listen
    /\ UNCHANGED <<held, status, epfd, queue, epoll, refused, run, threads,
                   app, straddled>>

(* coreAct->post(coreEv), before the reactor runs: into _queue. *)
PostListener ==
    /\ main = "post"
    /\ queue' = Append(queue, Listener)
    /\ main' = "start"
    /\ UNCHANGED <<held, listen, status, epfd, epoll, refused, run, threads,
                   app, straddled>>

(* SyncReactor::run: _extReactor->run() ... *)
StartWorkers ==
    /\ main = "start"
    /\ run' = (Workers # {})
    /\ threads' = Workers
    /\ main' = "run"
    /\ UNCHANGED <<held, listen, status, epfd, queue, epoll, refused, app,
                   straddled>>

(* Mutant of SetRunning: the status is left to somebody else. *)
SetRunningNowhere ==
    /\ main = "run"
    /\ main' = "create"
    /\ straddled' = straddled \union {e \in Posted : InPost(e)}
    /\ UNCHANGED <<held, listen, status, epfd, queue, epoll, refused, run,
                   threads, app>>

(* ... then _status = RUNNING ... *)
SetRunning ==
    /\ main = "run"
    /\ status' = "RUNNING"
    /\ main' = "create"
    /\ straddled' = straddled \union {e \in Posted : InPost(e)}
    /\ UNCHANGED <<held, listen, epfd, queue, epoll, refused, run, threads,
                   app>>

(* ... and create(), whose failure calls destroy(), which stops the        *)
(* EXTReactor and deletes it; its destructor joins the threads.            *)
Create ==
    /\ main = "create"
    /\ \/ /\ epfd' = TRUE
          /\ main' = "drain"
          /\ UNCHANGED run
       \/ /\ main' = "destroy"
          /\ run' = FALSE
          /\ UNCHANGED epfd
    /\ UNCHANGED <<held, listen, status, queue, epoll, refused, threads, app,
                   straddled>>

Destroyed ==
    /\ main = "destroy"
    /\ threads = {}
    /\ main' = "failed"
    /\ UNCHANGED <<held, listen, status, epfd, queue, epoll, refused, run,
                   threads, app, straddled>>

(* Mutant of DrainPop: the last event is taken for the end of the queue. *)
DrainPopButOne ==
    /\ main = "drain"
    /\ IF Len(queue) <= 1
       THEN main' = "loop" /\ UNCHANGED <<held, queue>>
       ELSE /\ main' = "repost"
            /\ held' = Head(queue)
            /\ queue' = Tail(queue)
    /\ UNCHANGED <<listen, status, epfd, epoll, refused, run, threads, app,
                   straddled>>

(* SyncReactor::callback: what was stored is popped and posted, and stored *)
(* again if the reactor is not RUNNING any more.                           *)
DrainPop ==
    /\ main = "drain"
    /\ IF queue = <<>>
       THEN main' = "loop" /\ UNCHANGED <<held, queue>>
       ELSE /\ main' = "repost"
            /\ held' = Head(queue)
            /\ queue' = Tail(queue)
    /\ UNCHANGED <<listen, status, epfd, epoll, refused, run, threads, app,
                   straddled>>

(* What a post does with event e when it has read the status: a CPU event  *)
(* is let go, for IEvent::CPU is 0 and type() & CPU never holds;            *)
(* a NET event is registered, if there is a descriptor to register it in   *)
(* and epoll_ctl does so.  epollAdd logs it if not, and post ignores that. *)
Route(e) ==
    LET added == {x \in {e} \ Cpu : epfd} IN
    \/ epoll' = epoll \union added /\ UNCHANGED refused
    \/ added # {} /\ refused' = refused \union added /\ UNCHANGED epoll

Repost ==
    /\ main = "repost"
    /\ \/ /\ status # "RUNNING"
          /\ queue' = Append(queue, held)
          /\ UNCHANGED <<epoll, refused>>
       \/ status = "RUNNING" /\ Route(held) /\ UNCHANGED queue
    /\ held' = None
    /\ main' = "drain"
    /\ UNCHANGED <<listen, status, epfd, run, threads, app, straddled>>

(* epoll_wait fails, if only because a signal came: epollDispatch returns  *)
(* -1, and so do callback, run and, with 0, NfSvr::run.                    *)
LoopReturns ==
    /\ main = "loop"
    /\ main' = "returned"
    /\ UNCHANGED <<held, listen, status, epfd, queue, epoll, refused, run,
                   threads, app, straddled>>

Main ==
    \/ Bind \/ Listen \/ PostListener \/ StartWorkers \/ SetRunning
    \/ Create \/ Destroyed \/ DrainPop \/ Repost
-----------------------------------------------------------------------------
(* SyncReactor::post by another thread: the status is read ... *)
PostReads(e) ==
    /\ pc[e] = "idle"
    /\ pc' = [pc EXCEPT ![e] = IF status = "RUNNING" THEN "add" ELSE "push"]
    /\ straddled' = IF main \in StartUp THEN straddled \union {e} ELSE straddled
    /\ UNCHANGED <<main, held, listen, status, epfd, queue, epoll, refused,
                   run, threads, stopper>>

(* ... and then the event is stored, under the lock of ELQueue, ... *)
PostStores(e) ==
    /\ pc[e] = "push"
    /\ queue' = Append(queue, e)
    /\ pc' = [pc EXCEPT ![e] = "done"]
    /\ UNCHANGED <<main, held, listen, status, epfd, epoll, refused, run,
                   threads, stopper, straddled>>

(* ... or registered with the descriptor _epfd is by now. *)
PostAdds(e) ==
    /\ pc[e] = "add"
    /\ Route(e)
    /\ pc' = [pc EXCEPT ![e] = "done"]
    /\ UNCHANGED <<main, held, listen, status, epfd, queue, run, threads,
                   stopper, straddled>>

Post(e) == PostReads(e) \/ PostStores(e) \/ PostAdds(e)
-----------------------------------------------------------------------------
(* NfSvr::stop, SyncReactor::stop: only the EXTReactor has a flag that     *)
(* anybody reads.                                                          *)
Stop ==
    /\ stopper = "idle"
    /\ run' = FALSE
    /\ stopper' = "stopped"
    /\ UNCHANGED <<main, held, listen, status, epfd, queue, epoll, refused,
                   threads, pc, straddled>>

(* SyncReactor::join, which waits for the workers there are. *)
Join ==
    /\ stopper = "stopped"
    /\ status' = "STOP"
    /\ stopper' = "joining"
    /\ UNCHANGED <<main, held, listen, epfd, queue, epoll, refused, run,
                   threads, pc, straddled>>

Joined ==
    /\ stopper = "joining"
    /\ threads = {}
    /\ stopper' = "joined"
    /\ UNCHANGED <<main, held, listen, status, epfd, queue, epoll, refused,
                   run, threads, pc, straddled>>

(* A worker that is not asleep in pop sees the flag and leaves. *)
WorkerLeaves(w) ==
    /\ w \in threads
    /\ ~run
    /\ threads' = threads \ {w}
    /\ UNCHANGED <<main, held, listen, status, epfd, queue, epoll, refused,
                   run, app, straddled>>

Next ==
    \/ Main \/ LoopReturns
    \/ \E e \in Posted : Post(e)
    \/ Stop \/ Join \/ Joined
    \/ \E w \in Workers : WorkerLeaves(w)

Spec == Init /\ [][Next]_vars

(* The thread of run() and those that post are not blocked by anything. *)
FairSpec ==
    /\ Spec
    /\ WF_vars(Main)
    /\ \A e \in Posted : WF_vars(Post(e))
-----------------------------------------------------------------------------
(* Type correctness; a call of NfSvr::run that failed leaves no open socket. *)
TypeOK ==
    /\ main \in {"new", "listen", "post", "start", "run", "create", "drain",
                "repost", "loop", "returned", "destroy", "failed"}
    /\ held \in Events \union {None}
    /\ held # None <=> main = "repost"
    /\ listen \in {"none", "open", "closed"}
    /\ listen = "open" <=> main # "new"
    /\ status \in {"INIT", "RUNNING", "STOP"}
    /\ epfd \in BOOLEAN /\ run \in BOOLEAN
    /\ queue \in Seq(Events)
    /\ epoll \subseteq Events /\ refused \subseteq Events
    /\ threads \subseteq Workers
    /\ pc \in [Posted -> {"idle", "push", "add", "done"}]
    /\ stopper \in {"idle", "stopped", "joining", "joined"}
    /\ straddled \subseteq Posted

Joining == stopper \in {"joining", "joined"}
Failed == main \in {"destroy", "failed"}

(* Registered, or where callback() will still find it. *)
Kept(e) ==
    \/ e \in epoll \union {held}
    \/ e \in Range(queue) /\ main \notin {"loop", "returned"}

(* An event of another thread is lost, neither registered nor where it     *)
(* will be, only if some moment of its post fell into the start-up of the  *)
(* reactor (its status was read before, and it was stored after _queue was *)
(* emptied; or it was registered before there was a descriptor), if its    *)
(* type is CPU, if epoll_ctl refused it, if the reactor is being joined,   *)
(* or if create() failed.  Posts that are over before run() or begin after *)
(* its start are kept.  After the loop has returned nobody waits for what  *)
(* is registered.                                                          *)
PostsAreKept ==
    \A e \in Posted :
       pc[e] = "done" =>
          \/ Kept(e)
          \/ e \in Cpu \union straddled \union refused
          \/ Joining \/ Failed

(* Once there is a descriptor, the listening event posted before it is     *)
(* registered, whoever else posts and stops, or epoll_ctl has refused it,  *)
(* once and for all; only a join of the reactor that comes before makes    *)
(* callback() store it again and again.                                    *)
ListenerIsServed ==
    main = "drain" ~> (Listener \in epoll \union refused \/ Joining)
=============================================================================
