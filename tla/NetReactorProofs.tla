--------------------------- MODULE NetReactorProofs ---------------------------
(***************************************************************************)
(* Proofs about the running network reactor, for any connections, any      *)
(* workers (none included), any capacity of the queue, and any of the      *)
(* events cancelled or refused by epoll_ctl: who holds an event, that the  *)
(* batch of epoll_wait stays true, what an event is registered for, and    *)
(* that the clients see the abstract line server.                          *)
(***************************************************************************)
EXTENDS NetReactor, FiniteSetTheorems, SequenceTheorems, TLAPS

(* ExclusiveOwnership without counting: an event is served if and only if  *)
(* somebody holds it, and two never do.                                    *)
InQueue(c) == \E k \in DOMAIN extq : extq[k] = c
InHand(c) == \E t \in Threads : cur[t] = c

OneHolder ==
    /\ \A c \in Conns : c \in live \ lost <=> c \in epoll \/ InQueue(c) \/ InHand(c)
    /\ \A c \in Conns : ~(c \in epoll /\ InQueue(c)) /\ ~(c \in epoll /\ InHand(c))
                      /\ ~(InQueue(c) /\ InHand(c))
    /\ \A j, k \in DOMAIN extq : extq[j] = extq[k] => j = k
    /\ \A t, u \in Threads : cur[t] = cur[u] /\ cur[t] # None => t = u

(* Where the threads can be, and that they then have an event in hand. *)
ThreadsInPlace ==
    /\ \A t \in Threads : cur[t] = None <=> pc[t] \in {"wait", "returned", "dispatch", "idle"}
    /\ \A t \in Workers : pc[t] \notin {"wait", "returned", "dispatch", "hand"}

(* The descriptor of the next connection has nothing left of the last one. *)
ClosedAreEmpty == \A c \in Conns \ live : out[c] = 0

(* What the dispatcher relies on when it comes to an event of the batch:   *)
(* there is something to do, and what was reported is still true.          *)
BatchIsTrue ==
    /\ BatchStaysArmed
    /\ \A e \in batch : fired[e] # {}
    /\ \A c \in batch \intersect Conns : "HUP" \in fired[c] => peer[c] = "reset"
    /\ Listener \in batch => backlog > 0
    /\ interest[Listener] = {"IN"}

(* InterestFollowsBacklog on the way round: what an event will be          *)
(* registered for agrees with what it has to do wherever it is, but for    *)
(* the moments in which a callback is at work on it, or has failed.        *)
Agrees(c, what) ==
    IF out[c] > 0 THEN what = {"OUT"} /\ sock[c] = "WRITE"
                  ELSE what = {"IN"} /\ sock[c] = "READ"

HeldAgrees(t) ==
    LET c == cur[t] IN
    /\ pc[t] \in {"hand", "begin", "read", "write", "add"} => Agrees(c, result[c])
    /\ pc[t] = "read" => out[c] = 0
    /\ pc[t] \in {"write", "flush"} => out[c] > 0
    /\ pc[t] = "end" => status[c] = "CANCELED" \/ Agrees(c, result[c])

ResultFollowsBacklog ==
    /\ InterestFollowsBacklog
    /\ \A c \in Conns : InQueue(c) => Agrees(c, result[c])
    /\ \A t \in Threads : cur[t] # None => HeldAgrees(t)

IInv ==
    /\ TypeOK
    /\ OneHolder
    /\ ThreadsInPlace
    /\ ClosedAreEmpty
    /\ BatchIsTrue
    /\ ResultFollowsBacklog

LEMMA InitIInv == Init => IInv
<1>. SUFFICES ASSUME Init PROVE IInv
  OBVIOUS
<1>. USE NetReactorAssumption DEF Init, Threads, Events
<1>1. DOMAIN extq = {} /\ extq \in Seq(Conns)
  BY EmptySeq, LenProperties
<1>2. TypeOK
  BY <1>1 DEF TypeOK, Flags, Start
<1>3. OneHolder
  BY <1>1 DEF OneHolder, InQueue, InHand
<1>4. ThreadsInPlace /\ ClosedAreEmpty
  BY DEF ThreadsInPlace, Start, ClosedAreEmpty
<1>5. BatchIsTrue
  BY DEF BatchIsTrue, BatchStaysArmed
<1>6. ResultFollowsBacklog
  BY <1>1 DEF ResultFollowsBacklog, InterestFollowsBacklog, InQueue
<1>. QED
  BY <1>2, <1>3, <1>4, <1>5, <1>6 DEF IInv
-----------------------------------------------------------------------------
(* A step that does something to event c has to look at c only: what the   *)
(* others are registered for stays right.                                  *)
LEMMA OthersKeepResults ==
    ASSUME ResultFollowsBacklog, NEW c \in Conns,
           \A d \in Conns \ {c} :
              /\ UNCHANGED <<out[d], sock[d], result[d], status[d], interest[d]>>
              /\ d \in epoll' => d \in epoll
              /\ InQueue(d)' => InQueue(d),
           \A t \in Threads : cur'[t] \notin {c, None}
                                => UNCHANGED <<cur[t], pc[t]>> /\ cur[t] \in Conns,
           c \in epoll' => Agrees(c, interest[c])',
           InQueue(c)' => Agrees(c, result[c])',
           \A t \in Threads : cur'[t] = c => HeldAgrees(t)'
    PROVE  ResultFollowsBacklog'
<1>1. InterestFollowsBacklog'
  <2>. SUFFICES ASSUME NEW d \in Conns, d \in epoll' PROVE Agrees(d, interest[d])'
    BY DEF InterestFollowsBacklog, Agrees
  <2>. QED
    BY DEF ResultFollowsBacklog, InterestFollowsBacklog, Agrees
<1>2. ASSUME NEW d \in Conns, InQueue(d)' PROVE Agrees(d, result[d])'
  BY <1>2 DEF ResultFollowsBacklog, Agrees
<1>3. ASSUME NEW t \in Threads, cur'[t] \notin {c, None} PROVE HeldAgrees(t)'
  <2>1. cur[t] = cur'[t] /\ pc'[t] = pc[t] /\ cur[t] \in Conns \ {c} /\ HeldAgrees(t)
    BY <1>3 DEF ResultFollowsBacklog
  <2>. QED
    BY <2>1 DEF HeldAgrees, Agrees
<1>. QED
  BY <1>1, <1>2, <1>3 DEF ResultFollowsBacklog

(* A step that registers or unregisters event c, which is not in what is   *)
(* left of the batch, leaves the batch true.                               *)
LEMMA OthersKeepBatch ==
    ASSUME TypeOK, BatchIsTrue, NEW c \in Conns,
           c \notin batch', batch' \subseteq batch,
           \A e \in Events \ {c} :
              /\ e \in epoll => e \in epoll'
              /\ interest'[e] = interest[e]
              /\ e \in batch' => fired'[e] = fired[e],
           \A d \in Conns \ {c} : peer'[d] = peer[d],
           backlog' = backlog \/ Listener \notin batch'
    PROVE  BatchIsTrue'
<1>1. Listener \in Events \ {c} /\ \A d \in Conns : d \in Events
  BY NetReactorAssumption DEF Events
<1>2. \A e \in batch' : e \in Events \ {c} /\ e \in batch
  BY DEF TypeOK
<1>. QED
  BY <1>1, <1>2 DEF BatchIsTrue, BatchStaysArmed

(* The clients change nothing but the network. *)
LEMMA ClientsStep ==
    ASSUME IInv, Clients
    PROVE  IInv'
<1>. USE DEF IInv
<1>1. UNCHANGED <<event, kernel, ext, threads, out>>
  BY DEF Clients, event, Promise!Clients, Promise!Connect, Promise!ClientSends,
         Promise!ClientReads, Promise!ClientEnds
<1>2. /\ backlog' \in 0..MaxBacklog /\ backlog' >= backlog
      /\ inbox' \in [Conns -> 0..MaxInbox]
      /\ room' \in [Conns -> 0..SndBuf]
      /\ peer' \in [Conns -> {"open", "fin", "reset"}]
      /\ \A c \in Conns : peer[c] = "reset" => peer'[c] = "reset"
  <2>. USE NetReactorAssumption DEF TypeOK
  <2>1. CASE Promise!Connect
    BY <2>1 DEF Promise!Connect
  <2>2. ASSUME NEW c \in Conns, Promise!ClientSends(c) PROVE <1>2
    BY <2>2 DEF Promise!ClientSends
  <2>3. ASSUME NEW c \in Conns, Promise!ClientReads(c) PROVE <1>2
    BY <2>3 DEF Promise!ClientReads
  <2>4. ASSUME NEW c \in Conns, Promise!ClientEnds(c) PROVE <1>2
    <3>1. PICK end \in {"fin", "reset"} :
             /\ peer' = [peer EXCEPT ![c] = end]
             /\ peer[c] = "reset" => end = "reset"
      BY <2>4 DEF Promise!ClientEnds
    <3>2. peer' \in [Conns -> {"open", "fin", "reset"}]
      BY <3>1
    <3>3. \A d \in Conns : peer[d] = "reset" => peer'[d] = "reset"
      BY <3>1
    <3>4. UNCHANGED <<backlog, inbox, room>>
      BY <2>4 DEF Promise!ClientEnds
    <3>. QED
      BY <3>2, <3>3, <3>4
  <2>. QED
    BY <2>1, <2>2, <2>3, <2>4 DEF Clients, Promise!Clients
<1>. USE <1>1 DEF event, kernel, ext, threads
<1>3. TypeOK'
  BY <1>2 DEF TypeOK
<1>4. OneHolder' /\ ThreadsInPlace' /\ ClosedAreEmpty'
  BY DEF OneHolder, ThreadsInPlace, ClosedAreEmpty, InQueue, InHand
<1>5. BatchIsTrue'
  BY <1>2, NetReactorAssumption DEF BatchIsTrue, BatchStaysArmed, TypeOK
<1>6. ResultFollowsBacklog'
  BY DEF ResultFollowsBacklog, InterestFollowsBacklog, InQueue, Agrees, HeldAgrees
<1>. QED
  BY <1>3, <1>4, <1>5, <1>6

LEMMA CancelStep ==
    ASSUME IInv, NEW c \in Conns, Cancel(c)
    PROVE  IInv'
<1>. USE DEF IInv, Cancel, kernel, ext, threads, net
<1>1. TypeOK'
  BY DEF TypeOK
<1>2. OneHolder' /\ ThreadsInPlace' /\ ClosedAreEmpty'
  BY DEF OneHolder, ThreadsInPlace, ClosedAreEmpty, InQueue, InHand
<1>3. BatchIsTrue'
  BY DEF BatchIsTrue, BatchStaysArmed
<1>4. ResultFollowsBacklog'
  BY DEF ResultFollowsBacklog, InterestFollowsBacklog, InQueue, Agrees,
         HeldAgrees, TypeOK
<1>. QED
  BY <1>1, <1>2, <1>3, <1>4
-----------------------------------------------------------------------------
(* The dispatcher. *)
LEMMA EpollWaitStep ==
    ASSUME IInv, EpollWait
    PROVE  IInv'
<1>. USE DEF IInv, EpollWait, event, ext, net
<1>1. TypeOK'
  BY DEF TypeOK, ReadyFlags
<1>2. OneHolder'
  BY DEF OneHolder, InQueue, InHand
<1>3. ThreadsInPlace' /\ ClosedAreEmpty'
  BY NetReactorAssumption DEF ThreadsInPlace, ClosedAreEmpty, TypeOK, Threads
<1>4. BatchIsTrue'
  BY NetReactorAssumption DEF BatchIsTrue, BatchStaysArmed, ReadyFlags, TypeOK, Events
<1>5. ResultFollowsBacklog'
  BY DEF ResultFollowsBacklog, InterestFollowsBacklog, InQueue, Agrees,
         HeldAgrees, TypeOK, ThreadsInPlace
<1>. QED
  BY <1>1, <1>2, <1>3, <1>4, <1>5

LEMMA EpollWaitFailsStep ==
    ASSUME IInv, EpollWaitFails
    PROVE  IInv'
<1>. USE DEF IInv, EpollWaitFails, event, kernel, ext, net
<1>1. TypeOK'
  BY DEF TypeOK
<1>2. OneHolder'
  BY DEF OneHolder, InQueue, InHand
<1>3. ThreadsInPlace' /\ ClosedAreEmpty'
  BY NetReactorAssumption DEF ThreadsInPlace, ClosedAreEmpty, TypeOK, Threads
<1>4. BatchIsTrue'
  BY DEF BatchIsTrue, BatchStaysArmed
<1>5. ResultFollowsBacklog'
  BY DEF ResultFollowsBacklog, InterestFollowsBacklog, InQueue, Agrees,
         HeldAgrees, TypeOK, ThreadsInPlace
<1>. QED
  BY <1>1, <1>2, <1>3, <1>4, <1>5

(* delete: nobody else has the event, so nobody notices. *)
LEMMA DeleteKeepsTypes ==
    ASSUME TypeOK, NEW c \in Conns \ lost, Delete(c)
    PROVE  /\ live' \subseteq Conns /\ lost \subseteq live'
           /\ status' \in [Conns -> {"INIT", "READY", "RUNNING", "CANCELED"}]
           /\ result' \in [Conns -> SUBSET Flags]
           /\ sock' \in [Conns -> {"READ", "WRITE"}]
           /\ epoll' \subseteq Events
           /\ interest' \in [Events -> SUBSET {"IN", "OUT"}]
           /\ backlog' \in 0..MaxBacklog
           /\ inbox' \in [Conns -> 0..MaxInbox]
           /\ out' \in [Conns -> 0..MaxInbox]
           /\ room' \in [Conns -> 0..SndBuf]
           /\ peer' \in [Conns -> {"open", "fin", "reset"}]
<1>1. 0 \in 0..MaxInbox /\ SndBuf \in 0..SndBuf
  BY NetReactorAssumption
<1>2. /\ live' \subseteq Conns /\ lost \subseteq live' /\ epoll' \subseteq Events
      /\ backlog' \in 0..MaxBacklog
  BY DEF TypeOK, Delete
<1>3. /\ status' \in [Conns -> {"INIT", "READY", "RUNNING", "CANCELED"}]
      /\ result' \in [Conns -> SUBSET Flags]
      /\ sock' \in [Conns -> {"READ", "WRITE"}]
      /\ interest' \in [Events -> SUBSET {"IN", "OUT"}]
      /\ peer' \in [Conns -> {"open", "fin", "reset"}]
  BY DEF TypeOK, Delete
<1>4. /\ inbox' \in [Conns -> 0..MaxInbox]
      /\ out' \in [Conns -> 0..MaxInbox]
      /\ room' \in [Conns -> 0..SndBuf]
  BY <1>1 DEF TypeOK, Delete
<1>. QED
  BY <1>2, <1>3, <1>4

LEMMA DispatchClosedStep ==
    ASSUME IInv, NEW c \in Conns, DispatchClosed(c)
    PROVE  IInv'
<1>. USE DEF IInv, DispatchClosed, Dispatched, LoopEnd, ext
<1>1. c \in epoll /\ c \in live \ lost /\ ~InQueue(c) /\ ~InHand(c) /\ c # Listener
  BY NetReactorAssumption DEF BatchIsTrue, BatchStaysArmed, OneHolder
<1>2. TypeOK'
  BY <1>1, DeleteKeepsTypes, NetReactorAssumption DEF TypeOK, Threads
<1>3. OneHolder'
  BY <1>1 DEF OneHolder, InQueue, InHand, Delete
<1>4. ThreadsInPlace' /\ ClosedAreEmpty'
  BY NetReactorAssumption DEF ThreadsInPlace, ClosedAreEmpty, TypeOK, Threads, Delete
<1>5. BatchIsTrue'
  <2>1. \A e \in Events \ {c} : e \in epoll => e \in epoll'
    BY DEF Delete
  <2>2. \A e \in Events \ {c} : interest'[e] = interest[e] /\ fired'[e] = fired[e]
    BY DEF Delete, TypeOK
  <2>3. (\A d \in Conns \ {c} : peer'[d] = peer[d]) /\ backlog' = backlog
    BY DEF Delete, TypeOK
  <2>. QED
    BY <2>1, <2>2, <2>3, OthersKeepBatch
<1>6. ResultFollowsBacklog'
  <2>1. cur' = cur /\ extq' = extq /\ \A t \in Threads \ {Disp} : pc'[t] = pc[t]
    BY DEF TypeOK
  <2>2. \A t \in Threads : cur'[t] \notin {c, None} => t # Disp /\ cur[t] \in Conns
    BY <2>1 DEF ThreadsInPlace, TypeOK
  <2>3. \A d \in Conns \ {c} :
           UNCHANGED <<out[d], sock[d], result[d], status[d], interest[d]>>
    BY DEF Delete, TypeOK, Events
  <2>4. epoll' = epoll \ {c}
    BY DEF Delete
  <2>5. \A t \in Threads : cur'[t] # c
    BY <1>1, <2>1 DEF InHand
  <2>. QED
    BY <1>1, <2>1, <2>2, <2>3, <2>4, <2>5, OthersKeepResults DEF InQueue
<1>. QED
  BY <1>2, <1>3, <1>4, <1>5, <1>6

LEMMA DispatchAcceptStep ==
    ASSUME IInv, DispatchAccept
    PROVE  IInv'
<1>. USE DEF IInv, Dispatched, LoopEnd
<1>1. Listener \in batch /\ backlog \in 1..MaxBacklog
  BY NetReactorAssumption DEF DispatchAccept, BatchIsTrue, TypeOK
<1>2. /\ batch' = batch \ {Listener} /\ fired' = [fired EXCEPT ![Listener] = {}]
      /\ pc' = [pc EXCEPT ![Disp] = LoopEnd(batch')] /\ pc[Disp] = "dispatch"
      /\ UNCHANGED <<extReactor, extq, cur, inbox, out, room, peer>>
  BY DEF DispatchAccept
<1>3. ThreadsInPlace'
  BY <1>2, NetReactorAssumption DEF ThreadsInPlace, TypeOK, Threads
<1>4. ASSUME NEW c \in Conns \ live,
             /\ live' = live \union {c}
             /\ backlog' = backlog - 1
             /\ status' \in [Conns -> {"INIT", "READY", "RUNNING", "CANCELED"}]
             /\ result' \in [Conns -> SUBSET Flags]
             /\ sock' \in [Conns -> {"READ", "WRITE"}]
             /\ \A d \in Conns \ {c} : UNCHANGED <<status[d], result[d], sock[d]>>
             /\ interest' \in [Events -> SUBSET {"IN", "OUT"}]
             /\ \A e \in Events \ {c} : interest'[e] = interest[e]
             /\ \/ /\ epoll' = epoll \union {c} /\ lost' = lost
                   /\ interest'[c] = {"IN"} /\ sock'[c] = "READ"
                \/ epoll' = epoll /\ lost' = lost \union {c}
      PROVE  IInv'
  <2>. USE <1>2, <1>4
  <2>1. c \notin epoll /\ ~InQueue(c) /\ ~InHand(c) /\ c # Listener /\ c \notin batch
        /\ c \notin lost
    BY NetReactorAssumption DEF OneHolder, BatchIsTrue, BatchStaysArmed, TypeOK
  <2>2. out[c] = 0 /\ ClosedAreEmpty'
    BY DEF ClosedAreEmpty
  <2>3. \/ epoll' = epoll \union {c} /\ lost' = lost
        \/ epoll' = epoll /\ lost' = lost \union {c}
    OBVIOUS
  <2>4. c \in epoll' => interest'[c] = {"IN"} /\ sock'[c] = "READ"
    BY <2>1
  <2>5. TypeOK'
    <3>1. backlog' \in 0..MaxBacklog
      BY <1>1, NetReactorAssumption
    <3>2. live' \subseteq Conns /\ lost' \subseteq live' /\ epoll' \subseteq Events
      BY <2>3 DEF TypeOK, Events
    <3>4. /\ batch' \subseteq Events
          /\ fired' \in [Events -> SUBSET {"IN", "OUT", "HUP"}]
          /\ pc' \in [Threads -> {"wait", "returned", "dispatch", "hand", "idle", "begin",
                                  "read", "flush", "write", "end", "add"}]
      BY DEF TypeOK
    <3>. QED
      BY <3>1, <3>2, <3>4 DEF TypeOK
  <2>6. OneHolder'
    BY <2>1, <2>3 DEF OneHolder, InQueue, InHand
  <2>7. BatchIsTrue'
    <3>1. \A e \in Events \ {c} : e \in batch' => fired'[e] = fired[e]
      BY DEF TypeOK
    <3>. QED
      BY <2>1, <2>3, <2>4, <3>1, OthersKeepBatch
  <2>8. ResultFollowsBacklog'
    <3>1. \A t \in Threads : cur'[t] \notin {c, None} => t # Disp /\ cur[t] \in Conns
      BY DEF ThreadsInPlace, TypeOK
    <3>2. \A d \in Conns \ {c} :
             UNCHANGED <<out[d], sock[d], result[d], status[d], interest[d]>>
      BY DEF Events
    <3>3. c \in epoll' => Agrees(c, interest[c])'
      BY <2>2, <2>4 DEF TypeOK, Agrees
    <3>4. \A t \in Threads : cur'[t] # c /\ (t # Disp => pc'[t] = pc[t])
      BY <2>1 DEF InHand, TypeOK
    <3>. QED
      BY <2>1, <2>3, <3>1, <3>2, <3>3, <3>4, OthersKeepResults DEF InQueue
  <2>. QED
    BY <1>3, <2>2, <2>5, <2>6, <2>7, <2>8
<1>5. CASE live = Conns /\ UNCHANGED <<event, backlog, epoll, interest, lost>>
  <2>. USE <1>2, <1>5 DEF event
  <2>1. TypeOK'
    BY NetReactorAssumption DEF TypeOK, Threads, Events
  <2>2. OneHolder' /\ ClosedAreEmpty'
    BY DEF OneHolder, ClosedAreEmpty, InQueue, InHand
  <2>3. BatchIsTrue'
    BY DEF BatchIsTrue, BatchStaysArmed, TypeOK
  <2>4. ResultFollowsBacklog'
    BY DEF ResultFollowsBacklog, InterestFollowsBacklog,
       InQueue, Agrees, HeldAgrees, TypeOK, ThreadsInPlace
  <2>. QED
    BY <1>3, <2>1, <2>2, <2>3, <2>4
<1>6. ASSUME NEW c \in Conns \ live,
             live' = live \union {c}, backlog' = backlog - 1,
             status' = [status EXCEPT ![c] = "READY"],
             result' = [result EXCEPT ![c] = {"IN"}],
             sock' = [sock EXCEPT ![c] = "READ"],
             Added(c, {"IN"})
      PROVE  IInv'
  <2>1. /\ status' \in [Conns -> {"INIT", "READY", "RUNNING", "CANCELED"}]
        /\ result' \in [Conns -> SUBSET Flags]
        /\ sock' \in [Conns -> {"READ", "WRITE"}] /\ sock'[c] = "READ"
        /\ \A d \in Conns \ {c} : UNCHANGED <<status[d], result[d], sock[d]>>
    BY <1>6 DEF TypeOK, Flags
  <2>2. c \in Events /\ interest \in [Events -> SUBSET {"IN", "OUT"}]
    BY DEF TypeOK, Events
  <2>3. CASE /\ epoll' = epoll \union {c}
             /\ interest' = [interest EXCEPT ![c] = {"IN"}] /\ lost' = lost
    <3>1. /\ interest' \in [Events -> SUBSET {"IN", "OUT"}] /\ interest'[c] = {"IN"}
          /\ \A e \in Events \ {c} : interest'[e] = interest[e]
      BY <2>2, <2>3
    <3>. QED
      BY <1>4, <1>6, <2>1, <2>3, <3>1
  <2>4. CASE lost' = lost \union {c} /\ UNCHANGED <<epoll, interest>>
    BY <1>4, <1>6, <2>1, <2>2, <2>4
  <2>. QED
    BY <1>6, <2>3, <2>4 DEF Added
<1>7. ASSUME NEW c \in Conns \ live,
             live' = live \union {c}, backlog' = backlog - 1,
             lost' = lost \union {c},
             UNCHANGED <<status, result, sock, epoll, interest>>
      PROVE  IInv'
  BY <1>4, <1>7 DEF TypeOK
<1>. QED
  BY <1>5, <1>6, <1>7 DEF DispatchAccept

(* A connection of the batch is registered, and therefore nobody has it;   *)
(* what was reported of it is what it waits for, if it was not reset.      *)
LEMMA InBatch ==
    ASSUME IInv, NEW c \in Conns, c \in batch
    PROVE  /\ c \in epoll /\ c \in live \ lost /\ ~InQueue(c) /\ ~InHand(c)
           /\ c \in Events /\ c # Listener
           /\ "HUP" \notin fired[c] => Agrees(c, fired[c])
<1>1. c \in epoll /\ c \in live \ lost /\ ~InQueue(c) /\ ~InHand(c) /\ c # Listener
      /\ c \in Events
  BY NetReactorAssumption DEF IInv, BatchIsTrue, BatchStaysArmed, OneHolder, Events
<1>2. ASSUME "HUP" \notin fired[c] PROVE fired[c] = interest[c]
  <2>1. fired[c] \subseteq interest[c] /\ fired[c] # {}
    BY <1>2 DEF IInv, BatchIsTrue, BatchStaysArmed
  <2>2. \E f \in Flags : interest[c] = {f}
    BY <1>1 DEF IInv, ResultFollowsBacklog, InterestFollowsBacklog, Flags
  <2>. QED
    BY <2>1, <2>2
<1>3. Agrees(c, interest[c])
  BY <1>1 DEF IInv, ResultFollowsBacklog, InterestFollowsBacklog, Agrees
<1>. QED
  BY <1>1, <1>2, <1>3

LEMMA DispatchIOStep ==
    ASSUME IInv, NEW c \in Conns, DispatchIO(c)
    PROVE  IInv'
<1>. USE DEF IInv, DispatchIO, Dispatched, ext, net
<1>1. c \in epoll /\ c \in live \ lost /\ ~InQueue(c) /\ ~InHand(c)
      /\ c \in Events /\ c # Listener /\ Agrees(c, fired[c])
  BY InBatch
<1>2. cur[Disp] = None /\ Disp \in Threads /\ c # None /\ Disp \notin Workers
  BY NetReactorAssumption DEF ThreadsInPlace, Threads
<1>3. TypeOK'
  <2>1. result' \in [Conns -> SUBSET Flags]
    BY <1>1 DEF TypeOK, Flags
  <2>2. pc' \in [Threads -> {"wait", "returned", "dispatch", "hand", "idle", "begin",
                             "read", "flush", "write", "end", "add"}]
    BY DEF TypeOK
  <2>3. cur' \in [Threads -> Conns \union {None}]
    BY DEF TypeOK
  <2>4. /\ epoll' \subseteq Events /\ batch' \subseteq Events
        /\ interest' \in [Events -> SUBSET {"IN", "OUT"}]
        /\ fired' \in [Events -> SUBSET {"IN", "OUT", "HUP"}]
    BY DEF TypeOK
  <2>. QED
    BY <2>1, <2>2, <2>3, <2>4 DEF TypeOK
<1>4. /\ cur'[Disp] = c /\ pc'[Disp] \in {"hand", "begin"}
      /\ \A t \in Threads \ {Disp} : cur'[t] = cur[t] /\ pc'[t] = pc[t]
  BY <1>2 DEF TypeOK
<1>5. OneHolder'
  <2>1. \A d \in Conns : InHand(d)' <=> InHand(d) \/ d = c
    BY <1>2, <1>4, NetReactorAssumption DEF InHand
  <2>2. \A d \in Conns : (InQueue(d)' <=> InQueue(d))
                         /\ (d \in epoll' <=> d \in epoll /\ d # c)
    BY DEF InQueue
  <2>3. \A t, u \in Threads : cur'[t] = cur'[u] /\ cur'[t] # None => t = u
    BY <1>1, <1>4 DEF OneHolder, InHand
  <2>4. \A d \in Conns : d \in live \ lost <=> d \in epoll' \/ InQueue(d)' \/ InHand(d)'
    BY <1>1, <2>1, <2>2 DEF OneHolder
  <2>5. \A d \in Conns : /\ ~(d \in epoll' /\ InQueue(d)') /\ ~(d \in epoll' /\ InHand(d)')
                         /\ ~(InQueue(d)' /\ InHand(d)')
    BY <1>1, <2>1, <2>2 DEF OneHolder
  <2>. QED
    BY <2>3, <2>4, <2>5 DEF OneHolder
<1>6. ThreadsInPlace' /\ ClosedAreEmpty'
  BY <1>2, <1>4 DEF ThreadsInPlace, ClosedAreEmpty, Threads
<1>7. BatchIsTrue'
  <2>1. \A e \in Events \ {c} :
           interest'[e] = interest[e] /\ fired'[e] = fired[e]
    BY DEF TypeOK
  <2>. QED
    BY <2>1, OthersKeepBatch
<1>8. result'[c] = fired[c] /\ \A d \in Conns \ {c} :
         UNCHANGED <<out[d], sock[d], result[d], status[d], interest[d]>>
  BY DEF TypeOK, Events
<1>9. Agrees(c, result[c])'
  BY <1>1, <1>8 DEF Agrees
<1>10. ResultFollowsBacklog'
  <2>1. \A t \in Threads : cur'[t] = c => HeldAgrees(t)'
    BY <1>1, <1>4, <1>9 DEF HeldAgrees, InHand
  <2>2. \A t \in Threads : cur'[t] \notin {c, None} =>
           UNCHANGED <<cur[t], pc[t]>> /\ cur[t] \in Conns
    BY <1>2, <1>4 DEF TypeOK
  <2>3. c \notin epoll' /\ ~InQueue(c)' /\ \A d \in Conns \ {c} :
           (d \in epoll' => d \in epoll) /\ (InQueue(d)' => InQueue(d))
    BY <1>1 DEF InQueue
  <2>. QED
    BY <1>8, <2>1, <2>2, <2>3, OthersKeepResults
<1>. QED
  BY <1>3, <1>5, <1>6, <1>7, <1>10

(* The new event at the end of the queue. *)
LEMMA Queued ==
    ASSUME NEW q \in Seq(Conns), NEW c \in Conns
    PROVE  /\ Append(q, c) \in Seq(Conns)
           /\ DOMAIN q = 1..Len(q) /\ DOMAIN Append(q, c) = 1..(Len(q) + 1)
           /\ Len(q) \in Nat
           /\ \A k \in DOMAIN q : Append(q, c)[k] = q[k]
           /\ Append(q, c)[Len(q) + 1] = c
<1>. QED
  BY AppendProperties, LenProperties

LEMMA HandOverStep ==
    ASSUME IInv, HandOver
    PROVE  IInv'
<1>. USE DEF IInv
<1>0. PICK c \in Conns : c = cur[Disp]
  BY NetReactorAssumption DEF HandOver, ThreadsInPlace, Threads, TypeOK
<1>1. c # None /\ Disp \in Threads /\ Disp \notin Workers
  BY NetReactorAssumption DEF Threads
<1>2. /\ status' = [status EXCEPT ![c] = "READY"]
      /\ extq' = Append(extq, c)
      /\ pc' = [pc EXCEPT ![Disp] = LoopEnd(batch)]
      /\ cur' = [cur EXCEPT ![Disp] = None]
      /\ UNCHANGED <<extReactor, lost, live, result, sock, kernel, net>>
      /\ pc[Disp] = "hand"
  BY <1>0 DEF HandOver
<1>. USE DEF kernel, net
<1>3. c \in live \ lost /\ c \notin epoll /\ ~InQueue(c) /\ c = cur[Disp]
      /\ \A t \in Threads \ {Disp} : cur[t] # c
  BY <1>0, <1>1 DEF OneHolder, InHand
<1>4. /\ cur'[Disp] = None /\ pc'[Disp] \in {"wait", "dispatch"}
      /\ \A t \in Threads \ {Disp} : cur'[t] = cur[t] /\ pc'[t] = pc[t]
  BY <1>1, <1>2 DEF TypeOK, LoopEnd
<1>6. /\ extq' \in Seq(Conns) /\ Len(extq) \in Nat
      /\ DOMAIN extq = 1..Len(extq) /\ DOMAIN extq' = 1..(Len(extq) + 1)
      /\ extq'[Len(extq) + 1] = c
      /\ \A k \in DOMAIN extq : extq'[k] = extq[k]
  BY <1>2, Queued DEF TypeOK
<1>5. \A d \in Conns : /\ InQueue(d)' <=> InQueue(d) \/ d = c
                       /\ InHand(d)' <=> InHand(d) /\ d # c
  <2>1. \A d \in Conns : InQueue(d)' <=> InQueue(d) \/ d = c
    <3>1. /\ DOMAIN extq' = (DOMAIN extq) \union {Len(extq) + 1}
          /\ extq'[Len(extq) + 1] = c
          /\ \A k \in DOMAIN extq : extq'[k] = extq[k]
      BY <1>2, <1>6
    <3>. QED
      BY <3>1 DEF InQueue
  <2>2. \A d \in Conns : InHand(d)' <=> InHand(d) /\ d # c
    BY <1>1, <1>3, <1>4, NetReactorAssumption DEF InHand
  <2>. QED
    BY <2>1, <2>2
<1>7. TypeOK'
  BY <1>2, <1>6 DEF TypeOK, LoopEnd
<1>8. OneHolder'
  <2>1. \A j, k \in DOMAIN extq' : extq'[j] = extq'[k] => j = k
    <3>1. \A k \in DOMAIN extq : extq'[k] # c
      BY <1>3, <1>6 DEF InQueue
    <3>2. \A k \in DOMAIN extq' : k \in DOMAIN extq \/ k = Len(extq) + 1
      BY <1>6
    <3>3. \A j, k \in DOMAIN extq : extq'[j] = extq'[k] => j = k
      BY <1>6 DEF OneHolder
    <3>. QED
      BY <1>6, <3>1, <3>2, <3>3
  <2>2. \A t, u \in Threads : cur'[t] = cur'[u] /\ cur'[t] # None => t = u
    BY <1>4 DEF OneHolder
  <2>3. \A d \in Conns : d \in live \ lost <=> d \in epoll \/ InQueue(d)' \/ InHand(d)'
    BY <1>3, <1>5 DEF OneHolder
  <2>4. \A d \in Conns : /\ ~(d \in epoll /\ InQueue(d)') /\ ~(d \in epoll /\ InHand(d)')
                         /\ ~(InQueue(d)' /\ InHand(d)')
    BY <1>3, <1>5 DEF OneHolder
  <2>. QED
    BY <1>2, <2>1, <2>2, <2>3, <2>4 DEF OneHolder
<1>9. ThreadsInPlace' /\ ClosedAreEmpty'
  BY <1>1, <1>2, <1>4 DEF ThreadsInPlace, ClosedAreEmpty, Threads
<1>10. BatchIsTrue'
  BY <1>2 DEF BatchIsTrue, BatchStaysArmed
<1>11. ResultFollowsBacklog'
  <2>1. Agrees(c, result[c])
    BY <1>0, <1>1, <1>2, <1>3 DEF ResultFollowsBacklog, HeldAgrees
  <2>2. Agrees(c, result[c])' /\ c \notin epoll'
    BY <1>2, <1>3, <2>1 DEF Agrees
  <2>3. \A t \in Threads : /\ cur'[t] # c
                           /\ cur'[t] # None => UNCHANGED <<cur[t], pc[t]>> /\ cur[t] \in Conns
    BY <1>1, <1>3, <1>4 DEF TypeOK
  <2>4. \A d \in Conns \ {c} :
           /\ UNCHANGED <<out[d], sock[d], result[d], status[d], interest[d]>>
           /\ d \in epoll' => d \in epoll
           /\ InQueue(d)' => InQueue(d)
    BY <1>2, <1>5 DEF TypeOK
  <2>. QED
    BY <1>1, <2>2, <2>3, <2>4, OthersKeepResults
<1>. QED
  BY <1>7, <1>8, <1>9, <1>10, <1>11

(* What is left of the queue without its oldest event. *)
LEMMA Dequeued ==
    ASSUME NEW q \in Seq(Conns), q # <<>>
    PROVE  /\ Head(q) \in Conns /\ Head(q) = q[1]
           /\ Tail(q) \in Seq(Conns)
           /\ Len(q) \in Nat \ {0}
           /\ DOMAIN q = 1..Len(q) /\ DOMAIN Tail(q) = 1..(Len(q) - 1)
           /\ \A k \in DOMAIN Tail(q) : Tail(q)[k] = q[k + 1]
<1>. QED
  BY HeadTailProperties, LenProperties, EmptySeq

LEMMA TakeStep ==
    ASSUME IInv, NEW t \in Threads, Take(t)
    PROVE  IInv'
<1>. USE DEF IInv
<1>0. PICK c \in Conns : c = Head(extq)
  BY Dequeued DEF Take, TypeOK
<1>1. /\ cur' = [cur EXCEPT ![t] = c]
      /\ extq' = Tail(extq)
      /\ pc' = [pc EXCEPT ![t] = "begin"]
      /\ UNCHANGED <<extReactor, lost, event, kernel, net>>
      /\ extq # <<>> /\ t \in Workers /\ t # Disp /\ c # None /\ cur[t] = None
  BY <1>0, NetReactorAssumption DEF Take, ThreadsInPlace
<1>. USE DEF event, kernel, net
<1>2. /\ extq' \in Seq(Conns) /\ Len(extq) \in Nat \ {0} /\ extq[1] = c
      /\ DOMAIN extq = 1..Len(extq) /\ DOMAIN extq' = 1..(Len(extq) - 1)
      /\ \A k \in DOMAIN extq' : extq'[k] = extq[k + 1] /\ k + 1 \in DOMAIN extq
  BY <1>0, <1>1, Dequeued DEF TypeOK
<1>3. \A j, k \in DOMAIN extq : extq[j] = extq[k] => j = k
  BY DEF OneHolder
<1>4. InQueue(c) /\ c \in live \ lost /\ c \notin epoll /\ ~InHand(c)
  BY <1>2 DEF InQueue, OneHolder
<1>5. \A d \in Conns : InQueue(d)' <=> InQueue(d) /\ d # c
  <2>1. \A k \in DOMAIN extq' : extq'[k] # c
    BY <1>2, <1>3
  <2>2. \A k \in DOMAIN extq : k = 1 \/ (k - 1 \in DOMAIN extq' /\ extq'[k - 1] = extq[k])
    BY <1>2
  <2>. QED
    BY <1>2, <2>1, <2>2 DEF InQueue
<1>6. /\ cur'[t] = c /\ pc'[t] = "begin"
      /\ \A u \in Threads \ {t} : cur'[u] = cur[u] /\ pc'[u] = pc[u]
  BY <1>1 DEF TypeOK
<1>7. \A d \in Conns : InHand(d)' <=> InHand(d) \/ d = c
  BY <1>1, <1>6, NetReactorAssumption DEF InHand
<1>8. TypeOK'
  BY <1>1, <1>2 DEF TypeOK
<1>9. OneHolder'
  <2>1. \A j, k \in DOMAIN extq' : extq'[j] = extq'[k] => j = k
    <3>1. ASSUME NEW j \in DOMAIN extq', NEW k \in DOMAIN extq', extq'[j] = extq'[k]
          PROVE  j = k
      <4>1. j + 1 = k + 1
        BY <1>2, <1>3, <3>1
      <4>. QED
        BY <1>2, <4>1
    <3>. QED
      BY <3>1
  <2>2. \A u, v \in Threads : cur'[u] = cur'[v] /\ cur'[u] # None => u = v
    BY <1>4, <1>6 DEF OneHolder, InHand
  <2>3. \A d \in Conns : d \in live \ lost <=> d \in epoll \/ InQueue(d)' \/ InHand(d)'
    BY <1>4, <1>5, <1>7 DEF OneHolder
  <2>4. \A d \in Conns : /\ ~(d \in epoll /\ InQueue(d)') /\ ~(d \in epoll /\ InHand(d)')
                         /\ ~(InQueue(d)' /\ InHand(d)')
    BY <1>4, <1>5, <1>7 DEF OneHolder
  <2>. QED
    BY <1>1, <2>1, <2>2, <2>3, <2>4 DEF OneHolder
<1>10. ThreadsInPlace' /\ ClosedAreEmpty'
  BY <1>1, <1>6 DEF ThreadsInPlace, ClosedAreEmpty, Threads
<1>11. BatchIsTrue'
  BY <1>1 DEF BatchIsTrue, BatchStaysArmed
<1>12. ResultFollowsBacklog'
  <2>1. Agrees(c, result[c])
    BY <1>4 DEF ResultFollowsBacklog
  <2>2. HeldAgrees(t)'
    BY <1>1, <1>6, <2>1 DEF HeldAgrees, Agrees
  <2>3. \A u \in Threads : /\ cur'[u] = c => u = t
                           /\ cur'[u] \notin {c, None}
                                => UNCHANGED <<cur[u], pc[u]>> /\ cur[u] \in Conns
    BY <1>4, <1>6 DEF TypeOK, InHand
  <2>4. \A d \in Conns \ {c} :
           /\ UNCHANGED <<out[d], sock[d], result[d], status[d], interest[d]>>
           /\ d \in epoll' => d \in epoll
           /\ InQueue(d)' => InQueue(d)
    BY <1>1, <1>5
  <2>5. c \notin epoll' /\ ~InQueue(c)'
    BY <1>1, <1>4, <1>5
  <2>. QED
    BY <2>2, <2>3, <2>4, <2>5, OthersKeepResults
<1>. QED
  BY <1>8, <1>9, <1>10, <1>11, <1>12
-----------------------------------------------------------------------------
(* extEvent and the callbacks. *)

(* The event that a thread has in hand is nowhere else. *)
LEMMA HeldOnlyHere ==
    ASSUME IInv, NEW t \in Threads, NEW c \in Conns, cur[t] = c
    PROVE  /\ c \in live \ lost /\ c \notin epoll /\ c \notin batch /\ ~InQueue(c)
           /\ \A u \in Threads \ {t} : cur[u] # c
           /\ c # None /\ c # Listener /\ c \in Events /\ HeldAgrees(t)
<1>1. InHand(c) /\ c # None /\ c # Listener /\ c \in Events
  BY NetReactorAssumption DEF InHand, Events
<1>. QED
  BY <1>1 DEF IInv, OneHolder, BatchIsTrue, BatchStaysArmed, ResultFollowsBacklog

(* A step of a thread on the event it keeps in hand: it has to leave the   *)
(* event as HeldAgrees says, and nobody else is concerned.                 *)
LEMMA HeldStep ==
    ASSUME IInv, NEW t \in Threads, NEW c \in Conns, cur[t] = c,
           UNCHANGED <<live, kernel, ext, cur, backlog, peer>>,
           NEW l \in {"read", "flush", "write", "end", "add"},
           pc' = [pc EXCEPT ![t] = l],
           status' \in [Conns -> {"INIT", "READY", "RUNNING", "CANCELED"}],
           result' \in [Conns -> SUBSET Flags],
           sock' \in [Conns -> {"READ", "WRITE"}],
           inbox' \in [Conns -> 0..MaxInbox],
           out' \in [Conns -> 0..MaxInbox],
           room' \in [Conns -> 0..SndBuf],
           \A d \in Conns \ {c} : UNCHANGED <<out[d], sock[d], result[d], status[d]>>,
           HeldAgrees(t)'
    PROVE  IInv'
<1>. USE DEF IInv, kernel, ext
<1>1. /\ c \in live \ lost /\ c \notin epoll /\ c \notin batch /\ ~InQueue(c)
      /\ \A u \in Threads \ {t} : cur[u] # c
      /\ c # None
  BY HeldOnlyHere
<1>2. pc'[t] = l /\ \A u \in Threads \ {t} : pc'[u] = pc[u]
  BY DEF TypeOK
<1>3. TypeOK'
  BY DEF TypeOK
<1>4. OneHolder'
  BY DEF OneHolder, InQueue, InHand
<1>5. ThreadsInPlace'
  <2>1. pc[t] \notin {"wait", "returned", "dispatch", "idle"}
    BY <1>1 DEF ThreadsInPlace
  <2>. QED
    BY <1>1, <1>2 DEF ThreadsInPlace
<1>6. ClosedAreEmpty'
  BY <1>1 DEF ClosedAreEmpty
<1>7. BatchIsTrue'
  BY DEF BatchIsTrue, BatchStaysArmed
<1>8. ResultFollowsBacklog'
  <2>1. \A u \in Threads : /\ cur'[u] = c => u = t
                           /\ cur'[u] \notin {c, None}
                                => UNCHANGED <<cur[u], pc[u]>> /\ cur[u] \in Conns
    BY <1>1, <1>2 DEF TypeOK
  <2>2. \A d \in Conns : InQueue(d)' <=> InQueue(d)
    BY DEF InQueue
  <2>. QED
    BY <1>1, <2>1, <2>2, OthersKeepResults
<1>. QED
  BY <1>3, <1>4, <1>5, <1>6, <1>7, <1>8

LEMMA BeginStep ==
    ASSUME IInv, NEW t \in Threads, NEW c \in Conns, Begin(t, c)
    PROVE  IInv'
<1>. USE DEF IInv, Begin, At, net
<1>1. Agrees(c, result[c])
  BY HeldOnlyHere DEF HeldAgrees
<1>2. PICK l \in {"read", "write"} :
         /\ pc' = [pc EXCEPT ![t] = l]
         /\ l = IF sock[c] = "READ" THEN "read" ELSE "write"
  OBVIOUS
<1>3. pc'[t] = l /\ status' \in [Conns -> {"INIT", "READY", "RUNNING", "CANCELED"}]
      /\ \A d \in Conns \ {c} : status'[d] = status[d]
  BY <1>2 DEF TypeOK
<1>4. HeldAgrees(t)'
  BY <1>1, <1>2, <1>3 DEF HeldAgrees, Agrees, ext, TypeOK
<1>. QED
  BY <1>2, <1>3, <1>4, HeldStep DEF TypeOK

LEMMA ReadStep ==
    ASSUME IInv, NEW t \in Threads, NEW c \in Conns, Read(t, c)
    PROVE  IInv'
<1>. USE DEF IInv
<1>1. /\ pc[t] = "read" /\ cur[t] = c
      /\ UNCHANGED <<live, sock, kernel, ext, cur, backlog, room, peer>>
  BY DEF Read, At
<1>2. out[c] = 0 /\ Agrees(c, result[c]) /\ sock[c] = "READ"
  BY <1>1, HeldOnlyHere DEF HeldAgrees, Agrees
<1>3. ASSUME NEW n \in 0..inbox[c],
             inbox' = [inbox EXCEPT ![c] = @ - n],
             out' = [out EXCEPT ![c] = @ + n],
             pc' = [pc EXCEPT ![t] = IF out'[c] > 0 THEN "flush" ELSE "end"],
             UNCHANGED <<status, result>>
      PROVE  IInv'
  <2>. USE <1>1, <1>2, <1>3
  <2>1. inbox[c] \in 0..MaxInbox /\ n \in 0..MaxInbox /\ inbox[c] - n \in 0..MaxInbox
    BY NetReactorAssumption DEF TypeOK
  <2>2. out'[c] = n /\ \A d \in Conns \ {c} : out'[d] = out[d]
    BY <2>1 DEF TypeOK
  <2>3. inbox' \in [Conns -> 0..MaxInbox] /\ out' \in [Conns -> 0..MaxInbox]
    <3>1. out[c] + n \in 0..MaxInbox
      BY <2>1
    <3>. QED
      BY <2>1, <3>1 DEF TypeOK
  <2>4. PICK l \in {"flush", "end"} :
           pc' = [pc EXCEPT ![t] = l] /\ l = IF out'[c] > 0 THEN "flush" ELSE "end"
    OBVIOUS
  <2>5. pc'[t] = l
    BY <2>4 DEF TypeOK
  <2>6. HeldAgrees(t)'
    BY <2>1, <2>2, <2>4, <2>5 DEF HeldAgrees, Agrees, ext
  <2>. QED
    BY <2>2, <2>3, <2>4, <2>6, HeldStep DEF TypeOK
<1>4. ASSUME Fail(t, c, {"ERROR"}), UNCHANGED <<inbox, out>>
      PROVE  IInv'
  <2>. USE <1>1, <1>4 DEF Fail
  <2>1. /\ status' \in [Conns -> {"INIT", "READY", "RUNNING", "CANCELED"}]
        /\ result' \in [Conns -> SUBSET Flags]
        /\ status'[c] = "CANCELED" /\ pc'[t] = "end"
        /\ \A d \in Conns \ {c} : UNCHANGED <<status[d], result[d]>>
    BY DEF TypeOK, Flags
  <2>2. HeldAgrees(t)'
    BY <2>1 DEF HeldAgrees
  <2>. QED
    BY <2>1, <2>2, HeldStep DEF TypeOK
<1>. QED
  BY <1>3, <1>4 DEF Read

LEMMA WriteStep ==
    ASSUME IInv, NEW t \in Threads, NEW c \in Conns, NEW from \in {"flush", "write"},
           Write(t, c, from)
    PROVE  IInv'
<1>. USE DEF IInv
<1>. DEFINE n == IF out[c] <= room[c] THEN out[c] ELSE room[c]
<1>1. /\ pc[t] = from /\ cur[t] = c
      /\ UNCHANGED <<live, kernel, ext, cur, backlog, inbox, peer>>
  BY DEF Write, At
<1>2. out[c] \in 0..MaxInbox /\ out[c] > 0
      /\ room[c] \in 0..SndBuf /\ MaxInbox \in Nat /\ SndBuf \in Nat
  BY <1>1, HeldOnlyHere, NetReactorAssumption DEF HeldAgrees, TypeOK
<1>3. ASSUME n > 0,
             out' = [out EXCEPT ![c] = @ - n],
             room' = [room EXCEPT ![c] = @ - n],
             NEW f \in {"IN", "OUT"},
             result' = [result EXCEPT ![c] = {f}],
             sock' = [sock EXCEPT ![c] = IF f = "IN" THEN "READ" ELSE "WRITE"],
             f = IF n = out[c] THEN "IN" ELSE "OUT",
             pc' = [pc EXCEPT ![t] = "end"],
             UNCHANGED status
      PROVE  IInv'
  <2>1. n \in 0..MaxInbox /\ out[c] - n \in 0..MaxInbox /\ room[c] - n \in 0..SndBuf
        /\ (n = out[c] <=> out[c] - n = 0)
    BY <1>2
  <2>. HIDE DEF n
  <2>. USE <1>1, <1>3
  <2>2. out' \in [Conns -> 0..MaxInbox] /\ room' \in [Conns -> 0..SndBuf]
    BY <2>1 DEF TypeOK
  <2>3. result' \in [Conns -> SUBSET Flags] /\ sock' \in [Conns -> {"READ", "WRITE"}]
    BY DEF TypeOK, Flags
  <2>4. /\ out'[c] = out[c] - n /\ result'[c] = {f} /\ pc'[t] = "end"
        /\ sock'[c] = IF f = "IN" THEN "READ" ELSE "WRITE"
        /\ \A d \in Conns \ {c} : UNCHANGED <<out[d], result[d], sock[d]>>
    BY DEF TypeOK
  <2>5. HeldAgrees(t)'
    BY <2>1, <2>4 DEF HeldAgrees, Agrees, ext
  <2>. QED
    BY <2>2, <2>3, <2>4, <2>5, HeldStep DEF TypeOK
<1>4. ASSUME NEW res \in {{"OUT"}, {"ERROR"}}, Fail(t, c, res),
             sock' = [sock EXCEPT ![c] = IF from = "flush" THEN "WRITE" ELSE @],
             UNCHANGED <<out, room>>
      PROVE  IInv'
  <2>. USE <1>1, <1>4 DEF Fail
  <2>1. /\ status' \in [Conns -> {"INIT", "READY", "RUNNING", "CANCELED"}]
        /\ result' \in [Conns -> SUBSET Flags]
        /\ status'[c] = "CANCELED" /\ pc'[t] = "end"
        /\ \A d \in Conns \ {c} : UNCHANGED <<status[d], result[d]>>
    BY DEF TypeOK, Flags
  <2>2. sock' \in [Conns -> {"READ", "WRITE"}] /\ \A d \in Conns \ {c} : sock'[d] = sock[d]
    BY DEF TypeOK
  <2>3. HeldAgrees(t)'
    BY <2>1 DEF HeldAgrees
  <2>. QED
    BY <2>1, <2>2, <2>3, HeldStep DEF TypeOK
<1>5. CASE peer[c] # "reset" /\ n > 0 /\ UNCHANGED status
           /\ out' = [out EXCEPT ![c] = @ - n] /\ room' = [room EXCEPT ![c] = @ - n]
           /\ pc' = [pc EXCEPT ![t] = "end"]
           /\ \/ n = out[c] /\ result' = [result EXCEPT ![c] = {"IN"}]
                            /\ sock' = [sock EXCEPT ![c] = "READ"]
              \/ n < out[c] /\ result' = [result EXCEPT ![c] = {"OUT"}]
                            /\ sock' = [sock EXCEPT ![c] = "WRITE"]
  <2>1. CASE n = out[c] /\ result' = [result EXCEPT ![c] = {"IN"}]
                        /\ sock' = [sock EXCEPT ![c] = "READ"]
    BY <1>3, <1>5, <2>1
  <2>2. CASE n < out[c] /\ result' = [result EXCEPT ![c] = {"OUT"}]
                        /\ sock' = [sock EXCEPT ![c] = "WRITE"]
    <3>1. n # out[c]
      BY <1>2, <2>2
    <3>. QED
      BY <1>3, <1>5, <2>2, <3>1
  <2>. QED
    BY <1>5, <2>1, <2>2
<1>6. CASE Fail(t, c, IF from = "flush" THEN {"OUT"} ELSE {"ERROR"})
           /\ sock' = [sock EXCEPT ![c] = IF from = "flush" THEN "WRITE" ELSE @]
           /\ UNCHANGED <<out, room>>
  BY <1>4, <1>6
<1>. QED
  BY <1>5, <1>6 DEF Write

(* A thread is done with its event. *)
LEMMA HandsBack ==
    ASSUME TypeOK, OneHolder, ThreadsInPlace,
           NEW t \in Threads, NEW c \in Conns, cur[t] = c,
           pc' = [pc EXCEPT ![t] = IF t = Disp THEN LoopEnd(batch) ELSE "idle"],
           cur' = [cur EXCEPT ![t] = None]
    PROVE  /\ pc' \in [Threads -> {"wait", "returned", "dispatch", "hand", "idle", "begin",
                                   "read", "flush", "write", "end", "add"}]
           /\ cur' \in [Threads -> Conns \union {None}]
           /\ cur'[t] = None
           /\ \A u \in Threads \ {t} : cur'[u] = cur[u] /\ pc'[u] = pc[u]
           /\ \A d \in Conns : InHand(d)' <=> InHand(d) /\ d # c
           /\ ThreadsInPlace'
           /\ \A u, v \in Threads : cur'[u] = cur'[v] /\ cur'[u] # None => u = v
<1>. USE NetReactorAssumption
<1>1. /\ pc' \in [Threads -> {"wait", "returned", "dispatch", "hand", "idle", "begin",
                              "read", "flush", "write", "end", "add"}]
      /\ cur' \in [Threads -> Conns \union {None}]
  BY DEF TypeOK, LoopEnd
<1>2. /\ cur'[t] = None /\ pc'[t] \in {"wait", "returned", "dispatch", "idle"}
      /\ t # Disp => pc'[t] = "idle"
      /\ \A u \in Threads \ {t} : cur'[u] = cur[u] /\ pc'[u] = pc[u]
  BY DEF TypeOK, LoopEnd
<1>3. ThreadsInPlace'
  BY <1>2 DEF ThreadsInPlace, Threads
<1>4. \A u \in Threads \ {t} : cur[u] # c
  BY DEF OneHolder
<1>5. \A d \in Conns : InHand(d)' <=> InHand(d) /\ d # c
  BY <1>2, <1>4 DEF InHand
<1>6. \A u, v \in Threads : cur'[u] = cur'[v] /\ cur'[u] # None => u = v
  BY <1>2 DEF OneHolder
<1>. QED
  BY <1>1, <1>2, <1>3, <1>5, <1>6

LEMMA EndDeleteStep ==
    ASSUME IInv, NEW t \in Threads, NEW c \in Conns, EndDelete(t, c)
    PROVE  IInv'
<1>. USE DEF IInv, ext
<1>1. /\ cur[t] = c /\ Delete(c)
      /\ pc' = [pc EXCEPT ![t] = IF t = Disp THEN LoopEnd(batch) ELSE "idle"]
      /\ cur' = [cur EXCEPT ![t] = None]
      /\ UNCHANGED <<batch, fired, ext>>
  BY DEF EndDelete, At
<1>. USE <1>1
<1>2. /\ c \in live \ lost /\ c \notin epoll /\ c \notin batch /\ ~InQueue(c)
      /\ \A u \in Threads \ {t} : cur[u] # c
      /\ c # None /\ c # Listener
  BY HeldOnlyHere
<1>3. /\ pc' \in [Threads -> {"wait", "returned", "dispatch", "hand", "idle", "begin",
                              "read", "flush", "write", "end", "add"}]
      /\ cur' \in [Threads -> Conns \union {None}]
      /\ cur'[t] = None
      /\ \A u \in Threads \ {t} : cur'[u] = cur[u] /\ pc'[u] = pc[u]
      /\ \A d \in Conns : InHand(d)' <=> InHand(d) /\ d # c
      /\ ThreadsInPlace'
      /\ \A u, v \in Threads : cur'[u] = cur'[v] /\ cur'[u] # None => u = v
  BY HandsBack
<1>4. TypeOK'
  BY <1>2, <1>3, DeleteKeepsTypes DEF TypeOK
<1>5. live' = live \ {c} /\ epoll' = epoll \ {c} /\ backlog' = backlog
  BY DEF Delete
<1>6. /\ \A d \in Conns \ {c} :
            UNCHANGED <<out[d], sock[d], result[d], status[d], peer[d]>>
      /\ \A e \in Events \ {c} : interest'[e] = interest[e]
  BY DEF Delete, TypeOK
<1>7. OneHolder'
  <2>1. \A d \in Conns : InQueue(d)' <=> InQueue(d)
    BY DEF InQueue
  <2>. QED
    BY <1>2, <1>3, <1>5, <2>1 DEF OneHolder
<1>8. ClosedAreEmpty'
  BY DEF ClosedAreEmpty, Delete, TypeOK
<1>9. BatchIsTrue'
  BY <1>2, <1>5, <1>6, OthersKeepBatch
<1>10. ResultFollowsBacklog'
  <2>1. \A d \in Conns : (InQueue(d)' <=> InQueue(d)) /\ (d # c => interest'[d] = interest[d])
    BY <1>6 DEF InQueue, Events
  <2>2. \A u \in Threads : /\ cur'[u] # c
                           /\ cur'[u] # None => UNCHANGED <<cur[u], pc[u]>> /\ cur[u] \in Conns
    BY <1>2, <1>3 DEF TypeOK
  <2>. QED
    BY <1>2, <1>5, <1>6, <2>1, <2>2, OthersKeepResults
<1>. QED
  BY <1>3, <1>4, <1>7, <1>8, <1>9, <1>10

LEMMA EndPostStep ==
    ASSUME IInv, NEW t \in Threads, NEW c \in Conns, EndPost(t, c)
    PROVE  IInv'
<1>. USE DEF IInv, EndPost, At, net
<1>1. Agrees(c, result[c])
  BY HeldOnlyHere DEF HeldAgrees
<1>2. /\ status' \in [Conns -> {"INIT", "READY", "RUNNING", "CANCELED"}]
      /\ pc'[t] = "add" /\ \A d \in Conns \ {c} : status'[d] = status[d]
  BY DEF TypeOK
<1>3. HeldAgrees(t)'
  BY <1>1, <1>2 DEF HeldAgrees, Agrees, ext
<1>. QED
  BY <1>2, <1>3, HeldStep DEF TypeOK

LEMMA EpollAddStep ==
    ASSUME IInv, NEW t \in Threads, NEW c \in Conns, EpollAdd(t, c)
    PROVE  IInv'
<1>. USE DEF IInv
<1>1. /\ cur[t] = c /\ pc[t] = "add" /\ Added(c, result[c] \intersect {"IN", "OUT"})
      /\ pc' = [pc EXCEPT ![t] = IF t = Disp THEN LoopEnd(batch) ELSE "idle"]
      /\ cur' = [cur EXCEPT ![t] = None]
      /\ UNCHANGED <<event, batch, fired, extReactor, extq, net>>
  BY DEF EpollAdd, At
<1>. USE <1>1 DEF event, net
<1>2. /\ c \in live \ lost /\ c \notin epoll /\ c \notin batch /\ ~InQueue(c)
      /\ \A u \in Threads \ {t} : cur[u] # c
      /\ c # None /\ c # Listener /\ c \in Events /\ Agrees(c, result[c])
  BY HeldOnlyHere DEF HeldAgrees
<1>3. /\ pc' \in [Threads -> {"wait", "returned", "dispatch", "hand", "idle", "begin",
                              "read", "flush", "write", "end", "add"}]
      /\ cur' \in [Threads -> Conns \union {None}]
      /\ cur'[t] = None
      /\ \A u \in Threads \ {t} : cur'[u] = cur[u] /\ pc'[u] = pc[u]
      /\ \A d \in Conns : InHand(d)' <=> InHand(d) /\ d # c
      /\ ThreadsInPlace'
      /\ \A u, v \in Threads : cur'[u] = cur'[v] /\ cur'[u] # None => u = v
  BY HandsBack
<1>4. \/ epoll' = epoll \union {c} /\ lost' = lost
      \/ epoll' = epoll /\ lost' = lost \union {c}
  BY DEF Added
<1>5. /\ interest' \in [Events -> SUBSET {"IN", "OUT"}]
      /\ c \in epoll' => interest'[c] = result[c] \intersect {"IN", "OUT"}
      /\ \A e \in Events \ {c} : interest'[e] = interest[e]
  <2>1. CASE epoll' = epoll \union {c}
             /\ interest' = [interest EXCEPT ![c] = result[c] \intersect {"IN", "OUT"}]
    BY <1>2, <2>1 DEF TypeOK
  <2>2. CASE UNCHANGED <<epoll, interest>>
    BY <1>2, <2>2 DEF TypeOK
  <2>. QED
    BY <2>1, <2>2 DEF Added
<1>6. TypeOK'
  <2>1. epoll' \subseteq Events /\ lost' \subseteq live'
    BY <1>2, <1>4 DEF TypeOK
  <2>. QED
    BY <1>3, <1>5, <2>1 DEF TypeOK
<1>7. OneHolder'
  <2>1. \A d \in Conns : InQueue(d)' <=> InQueue(d)
    BY DEF InQueue
  <2>2. InHand(c)
    BY DEF InHand
  <2>. QED
    BY <1>2, <1>3, <1>4, <2>1, <2>2 DEF OneHolder
<1>8. ClosedAreEmpty'
  BY DEF ClosedAreEmpty
<1>9. BatchIsTrue'
  BY <1>2, <1>4, <1>5, OthersKeepBatch
<1>10. ResultFollowsBacklog'
  <2>1. \A d \in Conns : (InQueue(d)' <=> InQueue(d)) /\ (d # c => interest'[d] = interest[d])
    BY <1>5 DEF InQueue, Events
  <2>2. \A u \in Threads : /\ cur'[u] # c
                           /\ cur'[u] # None => UNCHANGED <<cur[u], pc[u]>> /\ cur[u] \in Conns
    BY <1>2, <1>3 DEF TypeOK
  <2>3. c \in epoll' => Agrees(c, interest[c])'
    BY <1>2, <1>5 DEF Agrees
  <2>. QED
    BY <1>2, <1>4, <2>1, <2>2, <2>3, OthersKeepResults
<1>. QED
  BY <1>3, <1>6, <1>7, <1>8, <1>9, <1>10
-----------------------------------------------------------------------------
LEMMA NextIInv == IInv /\ [Next]_vars => IInv'
<1>. SUFFICES ASSUME IInv, [Next]_vars PROVE IInv'
  OBVIOUS
<1>1. CASE Clients
  BY <1>1, ClientsStep
<1>2. ASSUME NEW c \in Cancelable, Cancel(c) PROVE IInv'
  BY <1>2, CancelStep, NetReactorAssumption
<1>3. CASE Dispatch
  BY <1>3, EpollWaitStep, DispatchClosedStep, DispatchAcceptStep,
     DispatchIOStep, HandOverStep DEF Dispatch
<1>7. CASE EpollWaitFails
  BY <1>7, EpollWaitFailsStep
<1>4. ASSUME NEW t \in Workers, Take(t) PROVE IInv'
  BY <1>4, TakeStep DEF Threads
<1>5. ASSUME NEW t \in Threads, Run(t) PROVE IInv'
  BY <1>5, BeginStep, ReadStep, WriteStep, EndDeleteStep, EndPostStep, EpollAddStep
  DEF Run
<1>6. CASE UNCHANGED vars
  <2>. USE <1>6 DEF vars, event, kernel, ext, threads, net
  <2>1. TypeOK' /\ OneHolder' /\ ThreadsInPlace' /\ ClosedAreEmpty'
    BY DEF IInv, TypeOK, OneHolder, ThreadsInPlace, ClosedAreEmpty, InQueue, InHand
  <2>2. BatchIsTrue'
    BY DEF IInv, BatchIsTrue, BatchStaysArmed
  <2>3. ResultFollowsBacklog'
    BY DEF IInv, ResultFollowsBacklog, InterestFollowsBacklog, InQueue,
           Agrees, HeldAgrees
  <2>. QED
    BY <2>1, <2>2, <2>3 DEF IInv
<1>. QED
  BY <1>1, <1>2, <1>3, <1>4, <1>5, <1>6, <1>7 DEF Next

(* The inductive invariant: each event has one holder, what the holder     *)
(* knows about it agrees with what is left to send, and the batch is true. *)
THEOREM Invariance == Spec => []IInv
<1>. QED
  BY InitIInv, NextIInv, PTL DEF Spec

(* The variables keep their types: the queue holds connections only, the   *)
(* counters of the network stay in their bounds, every thread is at a      *)
(* place the code knows. *)
THEOREM TypeCorrect == Spec => []TypeOK
<1>1. IInv => TypeOK
  BY DEF IInv
<1>. QED
  BY <1>1, Invariance, PTL

(* Every event that exists, unless fcntl or epoll_ctl failed, is held in   *)
(* exactly one place, and a deleted event in none: no two threads run or   *)
(* delete an event at once, none is lost on the way round epoll, queue and *)
(* worker, and no pointer to a deleted event is left anywhere.             *)
THEOREM Ownership == Spec => []ExclusiveOwnership
<1>1. IInv => ExclusiveOwnership
  <2>. SUFFICES ASSUME IInv, NEW c \in Conns
                PROVE  Cardinality(Holders(c)) = IF c \in live \ lost THEN 1 ELSE 0
    BY DEF ExclusiveOwnership
  <2>. USE DEF IInv, OneHolder
  <2>. DEFINE E == {<<"epoll", 0>> : x \in {c} \intersect epoll}
              Q == {<<"queue", k>> : k \in {j \in DOMAIN extq : extq[j] = c}}
              T == {<<"thread", t>> : t \in {u \in Threads : cur[u] = c}}
  <2>1. Holders(c) = E \union Q \union T
    BY DEF Holders
  <2>2. (c \notin epoll => E = {}) /\ (~InQueue(c) => Q = {}) /\ (~InHand(c) => T = {})
    BY DEF InQueue, InHand
  <2>3. c \in epoll => E = {<<"epoll", 0>>}
    OBVIOUS
  <2>4. ASSUME InQueue(c) PROVE \E x : Q = {x}
    <3>1. PICK k \in DOMAIN extq : extq[k] = c
      BY <2>4 DEF InQueue
    <3>2. {j \in DOMAIN extq : extq[j] = c} = {k}
      BY <3>1
    <3>3. Q = {<<"queue", k>>}
      BY <3>2
    <3>. QED
      BY <3>3
  <2>5. ASSUME InHand(c) PROVE \E x : T = {x}
    <3>1. PICK t \in Threads : cur[t] = c
      BY <2>5 DEF InHand
    <3>2. {u \in Threads : cur[u] = c} = {t}
      BY <3>1, NetReactorAssumption
    <3>3. T = {<<"thread", t>>}
      BY <3>2
    <3>. QED
      BY <3>3
  <2>. HIDE DEF E, Q, T
  <2>6. CASE c \in live \ lost
    <3>1. \E x : E \union Q \union T = {x}
      BY <2>2, <2>3, <2>4, <2>5, <2>6
    <3>. QED
      BY <2>1, <2>6, <3>1, FS_Singleton
  <2>7. CASE c \notin live \ lost
    BY <2>1, <2>2, <2>7, FS_EmptySet
  <2>. QED
    BY <2>6, <2>7
<1>. QED
  BY <1>1, Invariance, PTL

(* The events of the batch that the dispatcher has not come to yet are     *)
(* still registered, for what epoll_wait reported: what is done to the     *)
(* earlier ones, by the dispatcher or by a worker, disarms none of them.   *)
THEOREM BatchArmed == Spec => []BatchStaysArmed
<1>1. IInv => BatchStaysArmed
  BY DEF IInv, BatchIsTrue
<1>. QED
  BY <1>1, Invariance, PTL

(* A registered connection waits for room to send if answers are left, for *)
(* lines if none are, and the callback it will get is the right one.       *)
THEOREM InterestRight == Spec => []InterestFollowsBacklog
<1>1. IInv => InterestFollowsBacklog
  BY DEF IInv, ResultFollowsBacklog
<1>. QED
  BY <1>1, Invariance, PTL
-----------------------------------------------------------------------------
(* The refinement.  A connection is doomed while a callback or extEvent    *)
(* has it in hand and it is CANCELED; before the callback the status is    *)
(* overwritten, and after extEvent it is deleted.  The server is over when *)
(* the dispatcher has returned.                                            *)
AtWork(c) == \E t \in Threads : cur[t] = c /\ pc[t] \in {"read", "write", "flush", "end"}
Doomed == {c \in live : status[c] = "CANCELED" /\ AtWork(c)}
Over == pc[Disp] = "returned"

(* What is in no thread's hand is not doomed; what a thread has in hand is *)
(* if it is CANCELED and the thread is past the beginning.                 *)
LEMMA DoomedInHand ==
    ASSUME IInv
    PROVE  /\ \A c \in Conns : ~InHand(c) => c \notin Doomed
           /\ \A t \in Threads : \A c \in Conns : cur[t] = c =>
                 (c \in Doomed <=> /\ status[c] = "CANCELED"
                                   /\ pc[t] \in {"read", "write", "flush", "end"})
<1>1. \A c \in Conns : ~InHand(c) => c \notin Doomed
  BY DEF Doomed, AtWork, InHand
<1>2. ASSUME NEW t \in Threads, NEW c \in Conns, cur[t] = c
      PROVE  c \in Doomed <=> /\ status[c] = "CANCELED"
                              /\ pc[t] \in {"read", "write", "flush", "end"}
  BY <1>2, HeldOnlyHere DEF Doomed, AtWork
<1>. QED
  BY <1>1, <1>2

(* A step of one thread with one event concerns no other. *)
LEMMA OthersDoomed ==
    ASSUME NEW t \in Threads, NEW c \in Conns,
           cur[t] \in {c, None}, cur'[t] \in {c, None},
           \A u \in Threads \ {t} : cur'[u] = cur[u] /\ pc'[u] = pc[u],
           \A d \in Conns \ {c} : status'[d] = status[d] /\ (d \in live' <=> d \in live)
    PROVE  \A d \in Conns \ {c} : d \in Doomed' <=> d \in Doomed
<1>. QED
  BY NetReactorAssumption DEF Doomed, AtWork

(* Only a failing epoll_wait lets the dispatcher return, and nothing       *)
(* brings it back.                                                         *)
LEMMA SameOver ==
    ASSUME IInv,
           \/ Dispatch
           \/ \E t \in Workers : Take(t)
           \/ \E t \in Threads : Run(t)
    PROVE  Over' = Over
<1>. USE NetReactorAssumption DEF Over, Threads
<1>1. Disp \in DOMAIN pc /\ pc[Disp] \in {"wait", "returned", "dispatch", "hand", "idle",
                              "begin", "read", "flush", "write", "end", "add"}
  BY DEF IInv, TypeOK
<1>2. CASE Dispatch
  BY <1>1, <1>2
  DEF Dispatch, EpollWait, DispatchClosed, DispatchAccept, DispatchIO, HandOver,
      Dispatched, LoopEnd, threads
<1>3. ASSUME NEW t \in Workers, Take(t) PROVE Over' = Over
  BY <1>1, <1>3 DEF Take
<1>4. ASSUME NEW t \in Threads, Run(t) PROVE Over' = Over
  <2>1. /\ pc[t] \notin {"wait", "returned", "dispatch", "idle"}
        /\ \E l : pc' = [pc EXCEPT ![t] = l] /\ l # "returned"
    BY <1>4 DEF Run, At, Begin, Read, Write, Fail, EndDelete, EndPost, EpollAdd, LoopEnd
  <2>. QED
    BY <1>1, <2>1
<1>. QED
  BY <1>2, <1>3, <1>4

LEMMA InitRefines == Init => Promise!Init
<1>. QED
  BY NetReactorAssumption DEF Init, Promise!Init, Threads, Start

LEMMA EpollWaitFailsRefines ==
    ASSUME IInv, EpollWaitFails
    PROVE  Promise!Next
<1>. USE DEF EpollWaitFails, event, ext, net, IInv, TypeOK
<1>1. Disp \in Threads /\ ~Over /\ Over'
  BY DEF Threads, Over
<1>2. \A d \in Conns : AtWork(d)' <=> AtWork(d)
  BY <1>1 DEF AtWork
<1>3. Doomed' = Doomed
  BY <1>2 DEF Doomed
<1>4. Promise!End
  BY <1>1, <1>3 DEF Promise!End, Promise!sockets, Doomed, AtWork, Over
<1>. QED
  BY <1>4 DEF Promise!Next, Promise!Server

LEMMA CancelRefines ==
    ASSUME IInv, NEW c \in Cancelable, Cancel(c)
    PROVE  Promise!Next \/ UNCHANGED Promise!vars
<1>. USE DEF Cancel, kernel, ext, threads, net
<1>0. c \in Conns /\ c \in live \ lost /\ status' = [status EXCEPT ![c] = "CANCELED"]
      /\ status'[c] = "CANCELED" /\ \A d \in Conns \ {c} : status'[d] = status[d]
  BY NetReactorAssumption DEF IInv, TypeOK
<1>1. \A d \in Conns : AtWork(d)' <=> AtWork(d)
  BY DEF AtWork
<1>2. CASE AtWork(c) /\ c \notin Doomed
  <2>1. Doomed' = Doomed \union {c}
    BY <1>0, <1>1, <1>2 DEF Doomed, IInv, TypeOK
  <2>2. Promise!Doom(c)
    BY <1>0, <1>2, <2>1 DEF Promise!Doom, Promise!Watched, Doomed, AtWork
  <2>. QED
    BY <1>0, <2>2 DEF Promise!Next, Promise!Server
<1>3. CASE ~(AtWork(c) /\ c \notin Doomed)
  <2>1. Doomed' = Doomed
    BY <1>0, <1>1, <1>3 DEF Doomed, IInv, TypeOK
  <2>. QED
    BY <2>1 DEF Promise!vars, Doomed, AtWork
<1>. QED
  BY <1>2, <1>3

(* What the clients cannot see. *)
LEMMA Unseen ==
    ASSUME UNCHANGED <<live, lost, net>>, Doomed' = Doomed, Over' = Over
    PROVE  UNCHANGED Promise!vars
<1>. QED
  BY DEF Promise!vars, Doomed, AtWork, Over, net

(* A step after which the same events are at work changes no doom. *)
LEMMA SameDoomed ==
    ASSUME live' = live, NEW c \in Conns, c \in Doomed' <=> c \in Doomed,
           \A d \in Conns \ {c} : d \in Doomed' <=> d \in Doomed,
           live \subseteq Conns
    PROVE  Doomed' = Doomed
<1>. QED
  BY DEF Doomed

LEMMA DispatchRefines ==
    ASSUME IInv, IInv', Dispatch
    PROVE  Promise!Next \/ UNCHANGED Promise!vars
<1>. USE DEF ext
<1>0. Disp \in Threads /\ None \notin Conns /\ live \subseteq Conns
  BY NetReactorAssumption DEF Threads, IInv, TypeOK
<1>6. Over' = Over
  BY SameOver
<1>1. CASE EpollWait
  <2>1. \A d \in Conns : AtWork(d)' <=> AtWork(d)
    BY <1>0, <1>1 DEF AtWork, EpollWait, IInv, TypeOK
  <2>2. Doomed' = Doomed
    BY <1>0, <1>1, <2>1 DEF Doomed, EpollWait, event
  <2>. QED
    BY <1>1, <1>6, <2>2, Unseen DEF EpollWait, event, net
<1>2. ASSUME NEW c \in Conns, DispatchClosed(c)
      PROVE  Promise!Next
  <2>1. /\ c \in live \ lost /\ ~InHand(c) /\ peer[c] = "reset"
        /\ pc[Disp] = "dispatch" /\ cur[Disp] = None
    BY <1>0, <1>2, InBatch
    DEF DispatchClosed, Dispatched, IInv, BatchIsTrue, ThreadsInPlace
  <2>2. /\ Delete(c) /\ cur' = cur /\ lost' = lost
        /\ \A t \in Threads \ {Disp} : pc'[t] = pc[t]
    BY <1>2 DEF DispatchClosed, IInv, TypeOK
  <2>3. live' = live \ {c} /\ \A d \in Conns \ {c} : status'[d] = status[d]
    BY <2>2 DEF Delete, IInv, TypeOK
  <2>4. \A d \in Conns \ {c} : d \in Doomed' <=> d \in Doomed
    BY <1>0, <2>1, <2>2, <2>3, OthersDoomed
  <2>5. Doomed' = Doomed \ {c}
    BY <1>0, <2>3, <2>4 DEF Doomed
  <2>6. Promise!Close(c)
    BY <1>6, <2>1, <2>2, <2>5
    DEF Promise!Close, Promise!Watched, Delete, Doomed, AtWork, Over
  <2>. QED
    BY <2>6 DEF Promise!Next, Promise!Server
<1>3. CASE DispatchAccept
  <2>1. /\ UNCHANGED <<extReactor, extq, cur, inbox, out, room, peer>>
        /\ cur[Disp] = None /\ backlog > 0 /\ pc[Disp] = "dispatch"
        /\ \A t \in Threads \ {Disp} : pc'[t] = pc[t]
    BY <1>0, <1>3
       DEF DispatchAccept, Dispatched, IInv, TypeOK, ThreadsInPlace,
           BatchIsTrue
  <2>2. \A d \in Conns : AtWork(d)' <=> AtWork(d)
    BY <1>0, <2>1 DEF AtWork
  <2>3. ASSUME NEW c \in Conns \ live,
               live' = live \union {c}, backlog' = backlog - 1,
               \/ status' = [status EXCEPT ![c] = "READY"] /\ Added(c, {"IN"})
               \/ /\ c \in Losable /\ lost' = lost \union {c}
                  /\ UNCHANGED <<status, result, sock, epoll, interest>>
        PROVE  Promise!Next
    <3>0. ~InHand(c) /\ \A t \in Threads : cur'[t] = cur[t]
      BY <2>1, <2>3 DEF IInv, OneHolder
    <3>1. c \notin Doomed' /\ \A d \in Conns \ {c} :
             status'[d] = status[d] /\ (d \in live' <=> d \in live)
      <4>1. c \notin Doomed'
        BY <3>0 DEF Doomed, AtWork, InHand
      <4>2. \A d \in Conns \ {c} : d \in live' <=> d \in live
        BY <2>3
      <4>3. \A d \in Conns \ {c} : status'[d] = status[d]
        <5>1. \/ status' = [status EXCEPT ![c] = "READY"]
              \/ status' = status
          BY <2>3
        <5>. QED
          BY <5>1 DEF IInv, TypeOK
      <4>. QED
        BY <4>1, <4>2, <4>3
    <3>2. Doomed' = Doomed
      <4>1. c \notin Doomed /\ c \in Conns /\ live' = live \union {c}
        BY <2>3 DEF Doomed
      <4>. QED
        BY <1>0, <2>2, <3>1, <4>1 DEF Doomed
    <3>3. lost' \in {lost, lost \union ({c} \intersect Losable)}
      <4>1. c \in Losable => {c} \intersect Losable = {c}
        OBVIOUS
      <4>. QED
        BY <2>3, <4>1 DEF Added
    <3>4. Promise!Accept(c)
      BY <1>6, <2>1, <2>3, <3>2, <3>3 DEF Promise!Accept, Doomed, AtWork, Over
    <3>. QED
      BY <3>4 DEF Promise!Next, Promise!Server
  <2>4. CASE UNCHANGED <<event, backlog, epoll, interest, lost>>
    <3>1. Doomed' = Doomed
      BY <1>0, <2>2, <2>4 DEF Doomed, event
    <3>. QED
      BY <1>6, <2>1, <2>4, <3>1, Unseen DEF event, net
  <2>. QED
    BY <1>3, <2>3, <2>4 DEF DispatchAccept
<1>4. ASSUME NEW c \in Conns, DispatchIO(c)
      PROVE  UNCHANGED Promise!vars
  <2>1. ~InHand(c) /\ cur[Disp] = None
    BY <1>0, <1>4, InBatch DEF DispatchIO, Dispatched, IInv, ThreadsInPlace
  <2>2. /\ cur'[Disp] = c /\ pc'[Disp] \in {"hand", "begin"}
        /\ \A t \in Threads \ {Disp} : cur'[t] = cur[t] /\ pc'[t] = pc[t]
        /\ UNCHANGED <<live, status, sock, ext, net>>
    BY <1>0, <1>4 DEF DispatchIO, IInv, TypeOK
  <2>3. c \notin Doomed /\ c \notin Doomed'
    <3>1. ~AtWork(c)'
      BY <2>1, <2>2 DEF AtWork, InHand
    <3>. QED
      BY <2>1, <3>1, DoomedInHand DEF Doomed
  <2>4. \A d \in Conns \ {c} : d \in Doomed' <=> d \in Doomed
    BY <1>0, <2>1, <2>2, OthersDoomed
  <2>. QED
    BY <1>0, <1>6, <2>2, <2>3, <2>4, SameDoomed, Unseen
<1>5. CASE HandOver
  <2>1. PICK c \in Conns : c = cur[Disp]
    BY <1>0, <1>5 DEF HandOver, IInv, TypeOK, ThreadsInPlace
  <2>2. /\ cur'[Disp] = None /\ pc[Disp] = "hand"
        /\ \A t \in Threads \ {Disp} : cur'[t] = cur[t] /\ pc'[t] = pc[t] /\ cur[t] # c
        /\ UNCHANGED <<live, lost, net>>
        /\ \A d \in Conns \ {c} : status'[d] = status[d]
    <3>1. \A t \in Threads \ {Disp} : cur[t] # c
      BY <1>0, <2>1, HeldOnlyHere
    <3>2. /\ cur'[Disp] = None /\ pc[Disp] = "hand"
          /\ \A t \in Threads \ {Disp} : cur'[t] = cur[t] /\ pc'[t] = pc[t]
      BY <1>0, <1>5 DEF HandOver, IInv, TypeOK
    <3>3. UNCHANGED <<live, lost, net>> /\ status' = [status EXCEPT ![c] = "READY"]
      BY <1>5, <2>1 DEF HandOver
    <3>. QED
      BY <3>1, <3>2, <3>3 DEF IInv, TypeOK
  <2>3. c \notin Doomed /\ c \notin Doomed'
    <3>1. ~AtWork(c) /\ ~AtWork(c)'
      BY <1>0, <2>1, <2>2 DEF AtWork
    <3>. QED
      BY <3>1 DEF Doomed
  <2>4. \A d \in Conns \ {c} : d \in Doomed' <=> d \in Doomed
    BY <1>0, <2>1, <2>2, OthersDoomed
  <2>. QED
    BY <1>0, <1>6, <2>2, <2>3, <2>4, SameDoomed, Unseen
<1>. QED
  BY <1>1, <1>2, <1>3, <1>4, <1>5 DEF Dispatch

LEMMA TakeRefines ==
    ASSUME IInv, NEW t \in Workers, Take(t)
    PROVE  UNCHANGED Promise!vars
<1>1. /\ t \in Threads /\ pc[t] = "idle"
      /\ pc'[t] = "begin" /\ UNCHANGED <<live, status, lost, net>>
      /\ \A u \in Threads \ {t} : cur'[u] = cur[u] /\ pc'[u] = pc[u]
  BY DEF Take, Threads, event, IInv, TypeOK
<1>2. \A d \in Conns : AtWork(d)' <=> AtWork(d)
  BY <1>1 DEF AtWork
<1>3. Doomed' = Doomed
  BY <1>1, <1>2 DEF Doomed, IInv, TypeOK
<1>4. Over' = Over
  BY SameOver
<1>. QED
  BY <1>1, <1>3, <1>4, Unseen

(* The steps of extEvent and its callbacks, of thread t on event c: what   *)
(* becomes of c is all there is to say. *)
LEMMA RunDoomed ==
    ASSUME IInv, NEW t \in Threads, NEW c \in Conns, cur[t] = c,
           NEW l, pc' = [pc EXCEPT ![t] = l],
           cur' \in {cur, [cur EXCEPT ![t] = None]},
           \A d \in Conns \ {c} : status'[d] = status[d] /\ (d \in live' <=> d \in live)
    PROVE  /\ \A d \in Conns \ {c} : d \in Doomed' <=> d \in Doomed
           /\ c \in Doomed <=> /\ status[c] = "CANCELED"
                               /\ pc[t] \in {"read", "write", "flush", "end"}
           /\ c \in Doomed' <=> /\ c \in live' /\ status'[c] = "CANCELED" /\ cur'[t] = c
                                /\ l \in {"read", "write", "flush", "end"}
<1>1. /\ cur'[t] \in {c, None} /\ pc'[t] = l
      /\ \A u \in Threads \ {t} : cur'[u] = cur[u] /\ pc'[u] = pc[u] /\ cur[u] # c
  BY HeldOnlyHere DEF IInv, TypeOK
<1>2. AtWork(c)' <=> cur'[t] = c /\ l \in {"read", "write", "flush", "end"}
  BY <1>1 DEF AtWork
<1>. QED
  BY <1>1, <1>2, OthersDoomed, DoomedInHand DEF Doomed

LEMMA QuietRunRefines ==
    ASSUME IInv, NEW t \in Threads, NEW c \in Conns, Begin(t, c) \/ EndPost(t, c)
    PROVE  UNCHANGED Promise!vars
<1>1. PICK l \in {"read", "write", "add"}, s \in {"RUNNING", "READY"} :
         /\ pc' = [pc EXCEPT ![t] = l]
         /\ status' = [status EXCEPT ![c] = s]
         /\ cur[t] = c /\ UNCHANGED <<live, lost, cur, net>>
         /\ pc[t] = "begin" \/ (status[c] # "CANCELED" /\ l = "add")
  <2>1. CASE Begin(t, c)
    BY <2>1 DEF Begin, At, ext
  <2>2. CASE EndPost(t, c)
    BY <2>2 DEF EndPost, At, ext
  <2>. QED
    BY <2>1, <2>2
<1>2. status'[c] # "CANCELED" /\ \A d \in Conns \ {c} : status'[d] = status[d]
  BY <1>1 DEF IInv, TypeOK
<1>3. /\ c \notin Doomed /\ c \notin Doomed'
      /\ \A d \in Conns \ {c} : d \in Doomed' <=> d \in Doomed
  BY <1>1, <1>2, RunDoomed
<1>4. Over' = Over
  BY SameOver DEF Run
<1>. QED
  BY <1>1, <1>3, <1>4, SameDoomed, Unseen DEF IInv, TypeOK

(* A callback that fails dooms the event, unless it was cancelled already. *)
LEMMA FailRefines ==
    ASSUME IInv, NEW t \in Threads, NEW c \in Conns, NEW res,
           cur[t] = c, pc[t] \in {"read", "write", "flush"}, Fail(t, c, res),
           UNCHANGED <<live, lost, cur, net>>, Over' = Over,
           peer[c] # "open" \/ (out[c] > 0 /\ room[c] = 0)
    PROVE  Promise!Next \/ UNCHANGED Promise!vars
<1>1. status'[c] = "CANCELED" /\ \A d \in Conns \ {c} : status'[d] = status[d]
  BY DEF Fail, IInv, TypeOK
<1>2. c \in live \ lost /\ live \subseteq Conns
  BY HeldOnlyHere DEF IInv, TypeOK
<1>3. /\ \A d \in Conns \ {c} : d \in Doomed' <=> d \in Doomed
      /\ c \in Doomed'
  BY <1>1, <1>2, RunDoomed DEF Fail
<1>4. CASE c \in Doomed
  BY <1>2, <1>3, <1>4, SameDoomed, Unseen
<1>5. CASE c \notin Doomed
  <2>1. Doomed' = Doomed \union {c}
    BY <1>2, <1>3 DEF Doomed
  <2>2. Promise!Doom(c)
    BY <1>2, <1>5, <2>1 DEF Promise!Doom, Promise!Watched, Doomed, AtWork, Over, net
  <2>. QED
    BY <2>2 DEF Promise!Next, Promise!Server
<1>. QED
  BY <1>4, <1>5

LEMMA ReadRefines ==
    ASSUME IInv, NEW t \in Threads, NEW c \in Conns, Read(t, c)
    PROVE  Promise!Next \/ UNCHANGED Promise!vars
<1>1. /\ pc[t] = "read" /\ cur[t] = c
      /\ UNCHANGED <<live, lost, cur, backlog, room, peer>>
  BY DEF Read, At, ext
<1>2. out[c] = 0 /\ c \in live \ lost /\ live \subseteq Conns
  BY <1>1, HeldOnlyHere DEF HeldAgrees, IInv, TypeOK
<1>5. Over' = Over
  BY SameOver DEF Run
<1>3. ASSUME NEW n \in 0..inbox[c],
             inbox' = [inbox EXCEPT ![c] = @ - n],
             out' = [out EXCEPT ![c] = @ + n],
             pc' = [pc EXCEPT ![t] = IF out'[c] > 0 THEN "flush" ELSE "end"],
             UNCHANGED <<status, result>>
      PROVE  Promise!Next \/ UNCHANGED Promise!vars
  <2>1. PICK l \in {"flush", "end"} : pc' = [pc EXCEPT ![t] = l]
    BY <1>3
  <2>2. Doomed' = Doomed
    <3>1. /\ \A d \in Conns \ {c} : d \in Doomed' <=> d \in Doomed
          /\ c \in Doomed' <=> c \in Doomed
      <4>1. pc'[t] = l /\ cur'[t] = c /\ status' = status /\ live' = live
        BY <1>1, <1>3, <2>1 DEF IInv, TypeOK
      <4>. QED
        BY <1>1, <1>2, <2>1, <4>1, RunDoomed
    <3>. QED
      BY <1>1, <1>2, <3>1, SameDoomed
  <2>3. inbox[c] \in 0..MaxInbox /\ MaxInbox \in Nat
    BY NetReactorAssumption DEF IInv, TypeOK
  <2>4. CASE n = 0
    <3>1. inbox' = inbox /\ out' = out
      BY <1>2, <1>3, <2>3, <2>4 DEF IInv, TypeOK
    <3>. QED
      BY <1>1, <1>5, <2>2, <3>1, Unseen DEF net
  <2>5. CASE n > 0
    <3>0. n \in 1..inbox[c] /\ out[c] + n = n
      BY <1>2, <2>3, <2>5
    <3>1. n \in 1..inbox[c] /\ out' = [out EXCEPT ![c] = n]
      BY <1>3, <3>0
    <3>2. Promise!Serve(c)
      BY <1>1, <1>2, <1>3, <1>5, <2>2, <3>1
      DEF Promise!Serve, Promise!Watched, Doomed, AtWork, Over
    <3>. QED
      BY <3>2 DEF Promise!Next, Promise!Server
  <2>. QED
    BY <2>3, <2>4, <2>5
<1>4. ASSUME peer[c] # "open", Fail(t, c, {"ERROR"}), UNCHANGED <<inbox, out>>
      PROVE  Promise!Next \/ UNCHANGED Promise!vars
  BY <1>1, <1>4, <1>5, FailRefines DEF net
<1>. QED
  BY <1>3, <1>4 DEF Read

LEMMA WriteRefines ==
    ASSUME IInv, NEW t \in Threads, NEW c \in Conns, NEW from \in {"flush", "write"},
           Write(t, c, from)
    PROVE  Promise!Next \/ UNCHANGED Promise!vars
<1>. DEFINE n == IF out[c] <= room[c] THEN out[c] ELSE room[c]
<1>1. /\ pc[t] = from /\ cur[t] = c
      /\ UNCHANGED <<live, lost, cur, backlog, inbox, peer>>
  BY DEF Write, At, ext
<1>2. /\ c \in live \ lost /\ live \subseteq Conns
      /\ out[c] \in Nat /\ out[c] > 0 /\ room[c] \in Nat
  BY <1>1, HeldOnlyHere, NetReactorAssumption DEF HeldAgrees, IInv, TypeOK
<1>5. Over' = Over
  BY SameOver DEF Run
<1>3. CASE /\ n > 0 /\ UNCHANGED status
           /\ out' = [out EXCEPT ![c] = @ - n] /\ room' = [room EXCEPT ![c] = @ - n]
           /\ pc' = [pc EXCEPT ![t] = "end"]
  <2>1. Doomed' = Doomed
    BY <1>1, <1>2, <1>3, RunDoomed, SameDoomed
  <2>2. n \in 1..out[c] /\ n <= room[c]
    BY <1>2, <1>3
  <2>3. Promise!Send(c)
    BY <1>1, <1>2, <1>3, <1>5, <2>1, <2>2
    DEF Promise!Send, Promise!Watched, Doomed, AtWork, Over
  <2>. QED
    BY <2>3 DEF Promise!Next, Promise!Server
<1>4. ASSUME peer[c] = "reset" \/ n = 0, NEW res, Fail(t, c, res),
             UNCHANGED <<out, room>>
      PROVE  Promise!Next \/ UNCHANGED Promise!vars
  <2>1. peer[c] # "open" \/ (out[c] > 0 /\ room[c] = 0)
    BY <1>2, <1>4
  <2>. QED
    BY <1>1, <1>4, <1>5, <2>1, FailRefines DEF net
<1>. QED
  BY <1>3, <1>4 DEF Write

LEMMA EndDeleteRefines ==
    ASSUME IInv, NEW t \in Threads, NEW c \in Conns, EndDelete(t, c)
    PROVE  Promise!Next
<1>1. /\ cur[t] = c /\ pc[t] = "end" /\ status[c] = "CANCELED" /\ Delete(c)
      /\ cur' = [cur EXCEPT ![t] = None] /\ lost' = lost
      /\ pc' = [pc EXCEPT ![t] = IF t = Disp THEN LoopEnd(batch) ELSE "idle"]
  BY DEF EndDelete, At, ext
<1>2. c \in live \ lost /\ live \subseteq Conns
  BY <1>1, HeldOnlyHere DEF IInv, TypeOK
<1>3. live' = live \ {c} /\ \A d \in Conns \ {c} : status'[d] = status[d]
  BY <1>1 DEF Delete, IInv, TypeOK
<1>4. Doomed' = Doomed \ {c} /\ c \in Doomed
  <2>1. (\A d \in Conns \ {c} : d \in Doomed' <=> d \in Doomed) /\ c \in Doomed
    <3>1. \A d \in Conns \ {c} : status'[d] = status[d] /\ (d \in live' <=> d \in live)
      BY <1>3
    <3>2. PICK l : pc' = [pc EXCEPT ![t] = l]
      BY <1>1
    <3>. QED
      BY <1>1, <3>1, <3>2, RunDoomed
  <2>. QED
    BY <1>2, <1>3, <2>1 DEF Doomed
<1>6. Over' = Over
  BY SameOver DEF Run
<1>5. Promise!Close(c)
  BY <1>1, <1>2, <1>4, <1>6
  DEF Promise!Close, Promise!Watched, Delete, Doomed, AtWork, Over
<1>. QED
  BY <1>5 DEF Promise!Next, Promise!Server

LEMMA EpollAddRefines ==
    ASSUME IInv, NEW t \in Threads, NEW c \in Conns, EpollAdd(t, c)
    PROVE  Promise!Next \/ UNCHANGED Promise!vars
<1>1. /\ cur[t] = c /\ pc[t] = "add" /\ UNCHANGED <<live, status, net>>
      /\ cur' = [cur EXCEPT ![t] = None]
      /\ \E l : pc' = [pc EXCEPT ![t] = l]
      /\ lost' = lost \/ (c \in Losable /\ lost' = lost \union {c})
  BY DEF EpollAdd, At, event, Added
<1>2. c \in live \ lost /\ live \subseteq Conns /\ c # None
  BY <1>1, HeldOnlyHere DEF IInv, TypeOK
<1>3. cur'[t] = None
  BY <1>1 DEF IInv, TypeOK
<1>4. c \notin Doomed /\ Doomed' = Doomed
  BY <1>1, <1>2, <1>3, RunDoomed, SameDoomed
<1>7. Over' = Over
  BY SameOver DEF Run
<1>5. CASE lost' = lost
  BY <1>1, <1>4, <1>5, <1>7, Unseen
<1>6. CASE c \in Losable /\ lost' = lost \union {c}
  <2>1. Promise!Lose(c)
    BY <1>1, <1>2, <1>4, <1>6, <1>7
    DEF Promise!Lose, Promise!Watched, Doomed, AtWork, Over, net
  <2>. QED
    BY <2>1 DEF Promise!Next, Promise!Server
<1>. QED
  BY <1>1, <1>5, <1>6

LEMMA NextRefines ==
    ASSUME IInv, IInv', [Next]_vars
    PROVE  [Promise!Next]_(Promise!vars)
<1>1. CASE Clients
  BY <1>1 DEF Clients, Promise!Next
<1>2. ASSUME NEW c \in Cancelable, Cancel(c) PROVE Promise!Next \/ UNCHANGED Promise!vars
  BY <1>2, CancelRefines
<1>3. CASE Dispatch
  BY <1>3, DispatchRefines
<1>7. CASE EpollWaitFails
  BY <1>7, EpollWaitFailsRefines
<1>4. ASSUME NEW t \in Workers, Take(t) PROVE UNCHANGED Promise!vars
  BY <1>4, TakeRefines
<1>5. ASSUME NEW t \in Threads, Run(t) PROVE Promise!Next \/ UNCHANGED Promise!vars
  BY <1>5, QuietRunRefines, ReadRefines, WriteRefines, EndDeleteRefines, EpollAddRefines
  DEF Run
<1>6. CASE UNCHANGED vars
  BY <1>6 DEF vars, event, threads, ext, net, Promise!vars
<1>. QED
  BY <1>1, <1>2, <1>3, <1>4, <1>5, <1>6, <1>7 DEF Next

(* What the reactor, its queue, its workers and extEvent do to the         *)
(* connections is, seen from the clients, the abstract line server: each   *)
(* line read once and answered once, no line read while answers wait,      *)
(* nothing sent that was not answered, and a connection closed only after  *)
(* its client ended it, the application cancelled it, or an answer met a   *)
(* full send buffer. *)
THEOREM Refinement == Spec => ServesLikeLineServer
<1>1. Init => Promise!Init
  BY InitRefines
<1>2. IInv /\ IInv' /\ [Next]_vars => [Promise!Next]_(Promise!vars)
  BY NextRefines
<1>. QED
  BY <1>1, <1>2, Invariance, PTL DEF Spec, ServesLikeLineServer, Promise!Spec
=============================================================================
