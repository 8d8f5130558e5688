------------------------------ MODULE NetReactor ------------------------------
(***************************************************************************)
(* The running network reactor: SyncReactor (NfUnit/syncReactor.cpp), the  *)
(* thread of epoll_wait, with or without an EXTReactor of worker threads   *)
(* behind it; IReactor::extEvent (interface/icore.cpp), which runs an      *)
(* event and decides what becomes of it; and the callbacks of LineEvent    *)
(* (NfUnit/lineEvent.cpp) that read, answer and write.  No lock protects   *)
(* an event: it is owned by whoever holds it, and it is handed from the    *)
(* epoll set to the dispatcher, to the queue, to a worker and back.        *)
(*                                                                         *)
(* Lines are counted, not spelled (their bytes are in Buffer).  The queue  *)
(* of the EXTReactor is the one BoundedQueue promises.  run() and create() *)
(* are over: the reactor is RUNNING and the listening event is registered. *)
(***************************************************************************)
EXTENDS Integers, Sequences, FiniteSets, Functions

CONSTANTS
    Conns,        \* LineEvent objects for connections, one per descriptor
    Cancelable,   \* those the application may cancel
    Losable,      \* those for which fcntl or epoll_ctl may fail
    Listener,     \* the event of the listening socket
    Disp,         \* the thread that called run()
    Workers,      \* the threads of the EXTReactor
    None,         \* no event
    QueueCap,     \* capacity of the EXTReactor's queue
    MaxBacklog, MaxInbox, SndBuf   \* bounds of the network, as in LineServer

ASSUME NetReactorAssumption ==
    /\ Listener \notin Conns /\ None \notin Conns \union {Listener}
    /\ Disp \notin Workers
    /\ Cancelable \subseteq Conns /\ Losable \subseteq Conns
    /\ QueueCap \in Nat \ {0}
    /\ {MaxBacklog, MaxInbox, SndBuf} \subseteq Nat \ {0}

Threads == Workers \union {Disp}
Events == Conns \union {Listener}

VARIABLES
    live,      \* the connections whose event exists (new, not yet delete)
    status,    \* status[c]: IEvent::status
    result,    \* result[c]: IEvent::result
    sock,      \* sock[c]: SockEventBase::_sockType
    epoll,     \* the events registered in _epfd
    interest,  \* interest[e]: what each is registered for
    batch,     \* events of the last epoll_wait not yet dispatched
    fired,     \* fired[e]: what epoll_wait reported of them
    extReactor,   \* whether setExtReactor was called: _extReactor != NULL
    extq,      \* the EXTReactor's queue
    pc,        \* pc[t]: where thread t is
    cur,       \* cur[t]: the event it has in hand
    lost       \* for the properties: the events never posted, or not added

VARIABLES backlog, inbox, out, room, peer   \* the network, see LineServer

event == <<live, status, result, sock>>
kernel == <<epoll, interest, batch, fired>>
threads == <<pc, cur>>
net == <<backlog, inbox, out, room, peer>>
ext == <<extReactor, extq, lost>>
vars == <<event, kernel, ext, threads, net>>

Flags == {"IN", "OUT", "HUP", "ERROR"}

Start(t) == IF t = Disp THEN "wait" ELSE "idle"

Init ==
    /\ live = {}
    /\ status = [c \in Conns |-> "INIT"]
    /\ result = [c \in Conns |-> {}]
    /\ sock = [c \in Conns |-> "READ"]
    /\ epoll = {Listener}
    /\ interest = [e \in Events |-> IF e = Listener THEN {"IN"} ELSE {}]
    /\ batch = {}
    /\ fired = [e \in Events |-> {}]
    /\ extReactor \in BOOLEAN
    /\ extq = <<>>
    /\ lost = {}
    /\ pc = [t \in Threads |-> Start(t)]
    /\ cur = [t \in Threads |-> None]
    /\ backlog = 0
    /\ inbox = [c \in Conns |-> 0]
    /\ out = [c \in Conns |-> 0]
    /\ room = [c \in Conns |-> SndBuf]
    /\ peer = [c \in Conns |-> "open"]
-----------------------------------------------------------------------------
(* The clients: they connect, send lines, read answers, and end.           *)
Promise == INSTANCE LineServer WITH
    open <- live,
    over <- pc[Disp] = "returned",
    doomed <- {c \in live : /\ status[c] = "CANCELED"
                            /\ \E t \in Threads :
                                  /\ cur[t] = c
                                  /\ pc[t] \in {"read", "write", "flush", "end"}}

Clients ==
    /\ UNCHANGED <<status, result, sock, kernel, ext, threads>>
    /\ Promise!Clients

(* SyncReactor::cancel, called by the application on an event it knows.    *)
Cancel(c) ==
    /\ c \in live \ lost
    /\ status' = [status EXCEPT ![c] = "CANCELED"]
    /\ UNCHANGED <<live, result, sock, kernel, ext, threads, net>>
-----------------------------------------------------------------------------
(* What is ready, level-triggered; a reset is reported whether asked for   *)
(* or not.                                                                 *)
ReadyFlags(e) ==
    IF e = Listener
    THEN {f \in {"IN"} : backlog > 0}
    ELSE {f \in interest[e] :
             \/ f = "IN" /\ (inbox[e] > 0 \/ peer[e] # "open")
             \/ f = "OUT" /\ (room[e] > 0 \/ peer[e] = "reset")}
         \union {f \in {"HUP"} : peer[e] = "reset"}

EpollWait ==
    LET ready == {e \in epoll : ReadyFlags(e) # {}} IN
    /\ pc[Disp] = "wait"
    /\ ready # {}
    /\ batch' = ready
    /\ fired' = [e \in Events |-> IF e \in ready THEN ReadyFlags(e) ELSE {}]
    /\ pc' = [pc EXCEPT ![Disp] = "dispatch"]
    /\ UNCHANGED <<event, epoll, interest, ext, cur, net>>

(* epoll_wait fails, for which a signal is enough (EINTR): epollDispatch   *)
(* returns -1, so callback returns, and run after it.  Nobody waits for    *)
(* events any more; the workers go on with what they have.                 *)
EpollWaitFails ==
    /\ pc[Disp] = "wait"
    /\ pc' = [pc EXCEPT ![Disp] = "returned"]
    /\ UNCHANGED <<event, kernel, ext, cur, net>>

(* Event e of the batch is done with; the loop goes on or waits again.     *)
Dispatched(e) ==
    /\ e \in batch
    /\ pc[Disp] = "dispatch"
    /\ batch' = batch \ {e}
    /\ fired' = [fired EXCEPT ![e] = {}]

(* epollDispatch returns how many there were, so the loop comes round.     *)
LoopEnd(rest) == IF rest = {} THEN "wait" ELSE "dispatch"

(* delete ev: the descriptor is closed, which also takes it out of epoll,  *)
(* and may be used for the next connection.                                *)
Delete(c) ==
    /\ live' = live \ {c}
    /\ epoll' = epoll \ {c}
    /\ interest' = [interest EXCEPT ![c] = {}]
    /\ status' = [status EXCEPT ![c] = "INIT"]
    /\ result' = [result EXCEPT ![c] = {}]
    /\ sock' = [sock EXCEPT ![c] = "READ"]
    /\ inbox' = [inbox EXCEPT ![c] = 0]
    /\ out' = [out EXCEPT ![c] = 0]
    /\ room' = [room EXCEPT ![c] = SndBuf]
    /\ peer' = [peer EXCEPT ![c] = "open"]
    /\ UNCHANGED backlog

DispatchClosed(c) ==
    /\ Dispatched(c)
    /\ "HUP" \in fired[c]
    /\ Delete(c)
    /\ pc' = [pc EXCEPT ![Disp] = LoopEnd(batch')]
    /\ UNCHANGED <<ext, cur>>

(* epollAdd.  If epoll_ctl refuses, post does not tell its caller, and the *)
(* event is with nobody any more.                                          *)
Added(c, flags) ==
    \/ /\ epoll' = epoll \union {c}
       /\ interest' = [interest EXCEPT ![c] = flags]
       /\ UNCHANGED lost
    \/ /\ c \in Losable
       /\ lost' = lost \union {c}
       /\ UNCHANGED <<epoll, interest>>

(* The listening event is run at once and never leaves the epoll set:      *)
(* accept_callback accepts one connection, if the process has a descriptor *)
(* left for it, and posts its event, whose registration ends the step; an  *)
(* event whose descriptor it cannot make non-blocking it just leaves.      *)
DispatchAccept ==
    /\ Dispatched(Listener)
    /\ \/ \E c \in Conns \ live :
             /\ live' = live \union {c}
             /\ backlog' = backlog - 1
             /\ \/ /\ status' = [status EXCEPT ![c] = "READY"]
                   /\ result' = [result EXCEPT ![c] = {"IN"}]
                   /\ sock' = [sock EXCEPT ![c] = "READ"]
                   /\ Added(c, {"IN"})
                \/ /\ c \in Losable
                   /\ lost' = lost \union {c}
                   /\ UNCHANGED <<status, result, sock, epoll, interest>>
       \/ live = Conns /\ UNCHANGED <<event, backlog, epoll, interest, lost>>
    /\ pc' = [pc EXCEPT ![Disp] = LoopEnd(batch')]
    /\ UNCHANGED <<extReactor, extq, cur, inbox, out, room, peer>>

(* Mutant of DispatchIO: the event stays registered while it is handled.   *)
DispatchIOKept(c) ==
    /\ Dispatched(c)
    /\ "HUP" \notin fired[c]
    /\ result' = [result EXCEPT ![c] = fired[c]]
    /\ UNCHANGED <<epoll, interest>>
    /\ pc' = [pc EXCEPT ![Disp] = IF extReactor THEN "hand" ELSE "begin"]
    /\ cur' = [cur EXCEPT ![Disp] = c]
    /\ UNCHANGED <<live, status, sock, ext, net>>

(* A readable or writeable connection is taken out of epoll first.         *)
DispatchIO(c) ==
    /\ Dispatched(c)
    /\ "HUP" \notin fired[c]
    /\ result' = [result EXCEPT ![c] = fired[c]]
    /\ epoll' = epoll \ {c}
    /\ interest' = [interest EXCEPT ![c] = {}]
    /\ pc' = [pc EXCEPT ![Disp] = IF extReactor THEN "hand" ELSE "begin"]
    /\ cur' = [cur EXCEPT ![Disp] = c]
    /\ UNCHANGED <<live, status, sock, ext, net>>

(* EXTReactor::post: into the queue, where the dispatcher waits for room.  *)
HandOver ==
    LET c == cur[Disp] IN
    /\ pc[Disp] = "hand"
    /\ Len(extq) < QueueCap
    /\ status' = [status EXCEPT ![c] = "READY"]
    /\ extq' = Append(extq, c)
    /\ pc' = [pc EXCEPT ![Disp] = LoopEnd(batch)]
    /\ cur' = [cur EXCEPT ![Disp] = None]
    /\ UNCHANGED <<extReactor, lost, live, result, sock, kernel, net>>

(* EXTReactor::extfun: a worker takes the oldest event. *)
Take(t) ==
    /\ t \in Workers
    /\ pc[t] = "idle"
    /\ extq # <<>>
    /\ cur' = [cur EXCEPT ![t] = Head(extq)]
    /\ extq' = Tail(extq)
    /\ pc' = [pc EXCEPT ![t] = "begin"]
    /\ UNCHANGED <<extReactor, lost, event, kernel, net>>
-----------------------------------------------------------------------------
(* IReactor::extEvent and the callbacks it runs, in whichever thread.      *)

At(t, label, c) == pc[t] = label /\ cur[t] = c

(* setStatus(RUNNING), whatever it was. *)
Begin(t, c) ==
    /\ At(t, "begin", c)
    /\ status' = [status EXCEPT ![c] = "RUNNING"]
    /\ pc' = [pc EXCEPT ![t] = IF sock[c] = "READ" THEN "read" ELSE "write"]
    /\ UNCHANGED <<live, result, sock, kernel, ext, cur, net>>

(* A callback that failed: CANCELED, for extEvent to delete.               *)
Fail(t, c, res) ==
    /\ status' = [status EXCEPT ![c] = "CANCELED"]
    /\ result' = [result EXCEPT ![c] = res]
    /\ pc' = [pc EXCEPT ![t] = "end"]

(* Mutant of Read: the end of the stream is no error, just nothing to read. *)
ReadIgnoresEnd(t, c) ==
    /\ At(t, "read", c)
    /\ \/ /\ peer[c] # "reset"
          /\ \E n \in 0..inbox[c] :
                /\ n = 0 => inbox[c] = 0
                /\ inbox' = [inbox EXCEPT ![c] = @ - n]
                /\ out' = [out EXCEPT ![c] = @ + n]
          /\ pc' = [pc EXCEPT ![t] = IF out'[c] > 0 THEN "flush" ELSE "end"]
          /\ UNCHANGED <<status, result>>
       \/ /\ peer[c] = "reset"
          /\ Fail(t, c, {"ERROR"})
          /\ UNCHANGED <<inbox, out>>
    /\ UNCHANGED <<live, sock, kernel, ext, cur, backlog, room, peer>>

(* read_callback up to its check for output: readn takes what is there, or *)
(* as much of it as the buffer holds, and every complete line is answered. *)
(* readn fails at the end of the stream even if it has read lines before   *)
(* it, and they are lost with the connection.                              *)
Read(t, c) ==
    /\ At(t, "read", c)
    /\ \/ /\ peer[c] # "reset"
          /\ \E n \in 0..inbox[c] :
                /\ n = 0 => inbox[c] = 0 /\ peer[c] = "open"
                /\ inbox' = [inbox EXCEPT ![c] = @ - n]
                /\ out' = [out EXCEPT ![c] = @ + n]
          /\ pc' = [pc EXCEPT ![t] = IF out'[c] > 0 THEN "flush" ELSE "end"]
          /\ UNCHANGED <<status, result>>
       \/ /\ peer[c] # "open"
          /\ Fail(t, c, {"ERROR"})
          /\ UNCHANGED <<inbox, out>>
    /\ UNCHANGED <<live, sock, kernel, ext, cur, backlog, room, peer>>

(* Mutant of Write: the buffer counts as sent whatever sendn sent. *)
WriteRestForgotten(t, c, from) ==
    LET n == IF out[c] <= room[c] THEN out[c] ELSE room[c] IN
    /\ At(t, from, c)
    /\ \/ /\ peer[c] # "reset" /\ n > 0
          /\ out' = [out EXCEPT ![c] = 0]
          /\ room' = [room EXCEPT ![c] = @ - n]
          /\ \/ n = out[c] /\ result' = [result EXCEPT ![c] = {"IN"}]
                           /\ sock' = [sock EXCEPT ![c] = "READ"]
             \/ n < out[c] /\ result' = [result EXCEPT ![c] = {"OUT"}]
                           /\ sock' = [sock EXCEPT ![c] = "WRITE"]
          /\ pc' = [pc EXCEPT ![t] = "end"]
          /\ UNCHANGED status
       \/ /\ peer[c] = "reset" \/ n = 0
          /\ Fail(t, c, IF from = "flush" THEN {"OUT"} ELSE {"ERROR"})
          /\ sock' = [sock EXCEPT ![c] = IF from = "flush" THEN "WRITE" ELSE @]
          /\ UNCHANGED <<out, room>>
    /\ UNCHANGED <<live, kernel, ext, cur, backlog, inbox, peer>>

(* write_callback, from extEvent ("write") or from read_callback ("flush").*)
(* sendn writes what fits; if nothing does it returns 0, which is treated  *)
(* like an error.  What is left over is registered for writing: by         *)
(* read_callback, or because write_callback leaves the event as it was.    *)
Write(t, c, from) ==
    LET n == IF out[c] <= room[c] THEN out[c] ELSE room[c] IN
    /\ At(t, from, c)
    /\ \/ /\ peer[c] # "reset" /\ n > 0
          /\ out' = [out EXCEPT ![c] = @ - n]
          /\ room' = [room EXCEPT ![c] = @ - n]
          /\ \/ n = out[c] /\ result' = [result EXCEPT ![c] = {"IN"}]
                           /\ sock' = [sock EXCEPT ![c] = "READ"]
             \/ n < out[c] /\ result' = [result EXCEPT ![c] = {"OUT"}]
                           /\ sock' = [sock EXCEPT ![c] = "WRITE"]
          /\ pc' = [pc EXCEPT ![t] = "end"]
          /\ UNCHANGED status
       \/ /\ peer[c] = "reset" \/ n = 0
          /\ Fail(t, c, IF from = "flush" THEN {"OUT"} ELSE {"ERROR"})
          /\ sock' = [sock EXCEPT ![c] = IF from = "flush" THEN "WRITE" ELSE @]
          /\ UNCHANGED <<out, room>>
    /\ UNCHANGED <<live, kernel, ext, cur, backlog, inbox, peer>>

(* Mutant of EndDelete: a cancelled event is left to itself. *)
EndDropped(t, c) ==
    /\ At(t, "end", c)
    /\ status[c] = "CANCELED"
    /\ pc' = [pc EXCEPT ![t] = IF t = Disp THEN LoopEnd(batch) ELSE "idle"]
    /\ cur' = [cur EXCEPT ![t] = None]
    /\ UNCHANGED <<event, kernel, ext, net>>

(* extEvent after the callback: delete what was cancelled, post the rest.  *)
EndDelete(t, c) ==
    /\ At(t, "end", c)
    /\ status[c] = "CANCELED"
    /\ Delete(c)
    /\ pc' = [pc EXCEPT ![t] = IF t = Disp THEN LoopEnd(batch) ELSE "idle"]
    /\ cur' = [cur EXCEPT ![t] = None]
    /\ UNCHANGED <<batch, fired, ext>>

(* SyncReactor::post from its setStatus(READY) ... *)
EndPost(t, c) ==
    /\ At(t, "end", c)
    /\ status[c] # "CANCELED"
    /\ status' = [status EXCEPT ![c] = "READY"]
    /\ pc' = [pc EXCEPT ![t] = "add"]
    /\ UNCHANGED <<live, result, sock, kernel, ext, cur, net>>

(* Mutant of EpollAdd: registered for reading whatever is left to do. *)
EpollAddReadOnly(t, c) ==
    /\ At(t, "add", c)
    /\ epoll' = epoll \union {c}
    /\ interest' = [interest EXCEPT ![c] = {"IN"}]
    /\ pc' = [pc EXCEPT ![t] = IF t = Disp THEN LoopEnd(batch) ELSE "idle"]
    /\ cur' = [cur EXCEPT ![t] = None]
    /\ UNCHANGED <<event, batch, fired, ext, net>>

(* ... to epollAdd, after which the dispatcher may already have it. *)
EpollAdd(t, c) ==
    /\ At(t, "add", c)
    /\ Added(c, result[c] \intersect {"IN", "OUT"})
    /\ pc' = [pc EXCEPT ![t] = IF t = Disp THEN LoopEnd(batch) ELSE "idle"]
    /\ cur' = [cur EXCEPT ![t] = None]
    /\ UNCHANGED <<event, batch, fired, extReactor, extq, net>>

Dispatch ==
    \/ EpollWait
    \/ \E c \in Conns : DispatchClosed(c)
    \/ DispatchAccept
    \/ \E c \in Conns : DispatchIO(c)
    \/ HandOver

Run(t) ==
    \E c \in Conns :
       \/ Begin(t, c)
       \/ Read(t, c)
       \/ Write(t, c, "flush")
       \/ Write(t, c, "write")
       \/ EndDelete(t, c)
       \/ EndPost(t, c)
       \/ EpollAdd(t, c)

Next ==
    \/ Clients
    \/ \E c \in Cancelable : Cancel(c)
    \/ Dispatch
    \/ EpollWaitFails
    \/ \E t \in Workers : Take(t)
    \/ \E t \in Threads : Run(t)

Spec == Init /\ [][Next]_vars

(* Every thread that can run does run: the dispatcher in its loop, which   *)
(* goes on until epoll_wait fails, the workers in theirs.  Nothing is      *)
(* assumed of the clients, nor that epoll_wait ever fails or never does.   *)
FairSpec ==
    /\ Spec
    /\ WF_vars(Dispatch \/ Run(Disp))
    /\ \A t \in Workers : WF_vars(Take(t) \/ Run(t))
-----------------------------------------------------------------------------
(* Type correctness of the events, the epoll set and the threads. *)
TypeOK ==
    /\ live \subseteq Conns
    /\ status \in [Conns -> {"INIT", "READY", "RUNNING", "CANCELED"}]
    /\ result \in [Conns -> SUBSET Flags]
    /\ sock \in [Conns -> {"READ", "WRITE"}]
    /\ epoll \subseteq Events /\ batch \subseteq Events
    /\ interest \in [Events -> SUBSET {"IN", "OUT"}]
    /\ fired \in [Events -> SUBSET {"IN", "OUT", "HUP"}]
    /\ extReactor \in BOOLEAN
    /\ extq \in Seq(Conns)
    /\ pc \in [Threads -> {"wait", "returned", "dispatch", "hand", "idle",
                           "begin", "read", "flush", "write", "end", "add"}]
    /\ cur \in [Threads -> Conns \union {None}]
    /\ lost \subseteq live
    /\ backlog \in 0..MaxBacklog
    /\ inbox \in [Conns -> 0..MaxInbox]
    /\ out \in [Conns -> 0..MaxInbox]
    /\ room \in [Conns -> 0..SndBuf]
    /\ peer \in [Conns -> {"open", "fin", "reset"}]

(* The places that can hold an event c: the epoll set, each slot of the    *)
(* queue, each thread.                                                     *)
Holders(c) ==
    {<<"epoll", 0>> : x \in {c} \intersect epoll}
       \union {<<"queue", k>> : k \in {j \in DOMAIN extq : extq[j] = c}}
       \union {<<"thread", t>> : t \in {u \in Threads : cur[u] = c}}

(* An event that exists is held in exactly one place, so no two threads    *)
(* ever run or delete it at once, and it is never lost unless fcntl or     *)
(* epoll_ctl fails; a deleted event is held nowhere, so nobody follows a   *)
(* dangling pointer.                                                       *)
ExclusiveOwnership ==
    \A c \in Conns : Cardinality(Holders(c)) = IF c \in live \ lost THEN 1 ELSE 0

(* The pointers that epoll_wait wrote into _epev stay good until the loop  *)
(* gets to them: while earlier ones of the batch are handled, accepted or  *)
(* deleted, and workers run, the later ones neither leave epoll nor change *)
(* what they wait for.                                                     *)
BatchStaysArmed ==
    \A e \in batch : e \in epoll /\ fired[e] \ {"HUP"} \subseteq interest[e]

(* A registered connection waits for the right thing: with answers to send *)
(* for room, and only for room; otherwise for lines, and only for those.   *)
(* _sockType, which picks the callback, agrees.                            *)
InterestFollowsBacklog ==
    \A c \in Conns \intersect epoll :
       IF out[c] > 0 THEN interest[c] = {"OUT"} /\ sock[c] = "WRITE"
                     ELSE interest[c] = {"IN"} /\ sock[c] = "READ"

(* Whatever the threads and the application do to events, clients see the  *)
(* server that LineServer describes: each line answered once, nothing sent *)
(* that was not answered, no connection closed without one of its reasons. *)
ServesLikeLineServer == Promise!Spec

(* And it makes the progress LineServer promises: nobody is forgotten on   *)
(* the way round epoll, queue and worker, and ended connections do not     *)
(* pile up, until a failing epoll_wait ends it; even then a connection     *)
(* that a worker is to close is closed.                                    *)
ImplementsLineServer == Promise!FairSpec
=============================================================================
