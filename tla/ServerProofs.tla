----------------------------- MODULE ServerProofs -----------------------------
(***************************************************************************)
(* Proofs about the server that applications see: how NfSvr and its        *)
(* reactor start and stop (ReactorLifecycle), for any events, of either    *)
(* type, and any worker threads, and what becomes of the bytes of one      *)
(* connection (LineEcho), for any block sizes, bytes and socket.           *)
(***************************************************************************)
EXTENDS ReactorLifecycle, LineEcho, SequenceTheorems, WellFoundedInduction, TLAPS

(* The inductive invariant behind PostsAreKept.  _status follows the thread *)
(* of run(), except that a join has the last word.                          *)
BeforeRun == {"new", "listen", "post", "start", "run"}

StatusFollowsRun ==
    /\ status = "STOP" => Joining
    /\ status = "RUNNING" => main \notin BeforeRun
    /\ status = "INIT" => main \in BeforeRun

DescriptorIsOpen == main \in {"drain", "repost", "loop", "returned"} => epfd

(* A post under way that did not meet the start-up will find what it        *)
(* expects: _queue before it is emptied, or the descriptor.                 *)
PostsUnderWay ==
    \A e \in Posted \ straddled :
       /\ pc[e] = "push" => main \in BeforeRun \/ Joining \/ Failed
       /\ pc[e] = "add" => main \in {"loop", "returned"} \/ Failed

IInv ==
    /\ TypeOK
    /\ StatusFollowsRun
    /\ DescriptorIsOpen
    /\ PostsUnderWay
    /\ PostsAreKept

(* What _queue holds after a push ... *)
LEMMA StoredIsInQueue ==
    ASSUME NEW q \in Seq(Events), NEW e \in Events
    PROVE  /\ Append(q, e) \in Seq(Events)
           /\ Range(Append(q, e)) = Range(q) \union {e}
<1>1. /\ Append(q, e) \in Seq(Events)
      /\ Len(Append(q, e)) = Len(q) + 1
      /\ \A i \in 1..Len(q) : Append(q, e)[i] = q[i]
      /\ Append(q, e)[Len(q) + 1] = e
  OBVIOUS
<1>2. DOMAIN q = 1..Len(q) /\ DOMAIN Append(q, e) = 1..(Len(q) + 1)
  BY <1>1
<1>3. Len(q) \in Nat
  OBVIOUS
<1>. QED
  BY <1>1, <1>2, <1>3 DEF Range

(* ... and after a pop. *)
LEMMA PoppedIsHead ==
    ASSUME NEW q \in Seq(Events), q # <<>>
    PROVE  /\ Head(q) \in Events /\ Tail(q) \in Seq(Events)
           /\ Range(q) = {Head(q)} \union Range(Tail(q))
<1>1. /\ Head(q) \in Events /\ Tail(q) \in Seq(Events)
      /\ Head(q) = q[1] /\ Len(q) \in Nat \ {0}
      /\ Len(Tail(q)) = Len(q) - 1
      /\ \A i \in 1..(Len(q) - 1) : Tail(q)[i] = q[i + 1]
  OBVIOUS
<1>2. DOMAIN q = 1..Len(q) /\ DOMAIN Tail(q) = 1..(Len(q) - 1)
  BY <1>1
<1>3. \A i \in 2..Len(q) : i - 1 \in 1..(Len(q) - 1) /\ (i - 1) + 1 = i
  BY <1>1
<1>4. Range(q) \subseteq {Head(q)} \union Range(Tail(q))
  <2>. SUFFICES ASSUME NEW i \in 1..Len(q), i # 1 PROVE q[i] \in Range(Tail(q))
    BY <1>1, <1>2 DEF Range
  <2>1. i - 1 \in DOMAIN Tail(q) /\ Tail(q)[i - 1] = q[i]
    BY <1>1, <1>2, <1>3
  <2>. QED
    BY <2>1 DEF Range
<1>5. {Head(q)} \union Range(Tail(q)) \subseteq Range(q)
  <2>. SUFFICES ASSUME NEW i \in 1..(Len(q) - 1) PROVE Tail(q)[i] \in Range(q)
    BY <1>1, <1>2 DEF Range
  <2>. QED
    BY <1>1, <1>2 DEF Range
<1>. QED
  BY <1>1, <1>4, <1>5

LEMMA InitIInv == Init => IInv
<1>. SUFFICES ASSUME Init PROVE IInv
  OBVIOUS
<1>1. epfd \in BOOLEAN /\ run \in BOOLEAN
  BY Zenon DEF Init
<1>2. TypeOK
  BY <1>1 DEF Init, TypeOK, Events
<1>3. StatusFollowsRun /\ DescriptorIsOpen /\ PostsUnderWay /\ PostsAreKept
  BY DEF Init, StatusFollowsRun, DescriptorIsOpen, PostsUnderWay, PostsAreKept,
     BeforeRun
<1>. QED
  BY <1>2, <1>3 DEF IInv

(* The loop returns: what is registered stays so. *)
LEMMA LoopReturnsStep == ASSUME IInv, LoopReturns PROVE IInv'
<1>. USE DEF IInv, TypeOK, Joining, Failed, BeforeRun, LoopReturns, app
<1>1. TypeOK' /\ StatusFollowsRun' /\ DescriptorIsOpen' /\ PostsUnderWay'
  BY DEF StatusFollowsRun, DescriptorIsOpen, PostsUnderWay
<1>2. PostsAreKept'
  BY DEF PostsAreKept, Kept
<1>. QED
  BY <1>1, <1>2

(* Steps of run() that leave _queue, the epoll set and the posts alone. *)
LEMMA RunStep ==
    ASSUME IInv, Bind \/ Listen \/ StartWorkers \/ SetRunning \/ Create \/ Destroyed
    PROVE  IInv'
<1>. USE DEF IInv, TypeOK, Joining, Failed, BeforeRun
<1>1. UNCHANGED <<held, queue, epoll, refused, pc, stopper>>
  BY DEF Bind, Listen, StartWorkers, SetRunning, Create, Destroyed, app
<1>2. TypeOK'
  BY <1>1 DEF Bind, Listen, StartWorkers, SetRunning, Create, Destroyed, Fail, app
<1>3. StatusFollowsRun' /\ DescriptorIsOpen'
  BY <1>1 DEF Bind, Listen, StartWorkers, SetRunning, Create, Destroyed, Fail,
     StatusFollowsRun, DescriptorIsOpen
<1>4. PostsUnderWay'
  BY <1>1 DEF Bind, Listen, StartWorkers, SetRunning, Create, Destroyed, Fail,
     PostsUnderWay, InPost
<1>5. /\ straddled \subseteq straddled' /\ main' \notin {"loop", "returned"}
      /\ Failed => Failed'
  BY DEF Bind, Listen, StartWorkers, SetRunning, Create, Destroyed, Fail
<1>6. PostsAreKept'
  BY <1>1, <1>5 DEF PostsAreKept, Kept
<1>. QED
  BY <1>2, <1>3, <1>4, <1>6

(* NfSvr::run stores the listening event. *)
LEMMA PostListenerStep == ASSUME IInv, PostListener PROVE IInv'
<1>. USE DEF IInv, TypeOK, Joining, Failed, BeforeRun, PostListener, app
<1>1. /\ queue' \in Seq(Events)
      /\ Range(queue) \subseteq Range(queue')
  BY StoredIsInQueue DEF Events
<1>2. TypeOK'
  BY <1>1
<1>3. StatusFollowsRun' /\ DescriptorIsOpen' /\ PostsUnderWay'
  BY DEF StatusFollowsRun, DescriptorIsOpen, PostsUnderWay
<1>4. PostsAreKept'
  BY <1>1 DEF PostsAreKept, Kept
<1>. QED
  BY <1>2, <1>3, <1>4

(* callback(): an event in hand counts as kept ... *)
LEMMA DrainPopStep == ASSUME IInv, DrainPop PROVE IInv'
<1>. USE DEF IInv, TypeOK, Joining, Failed, BeforeRun, DrainPop, app
<1>1. CASE queue = <<>>
  <2>1. Range(queue) = {}
    BY <1>1 DEF Range
  <2>2. TypeOK' /\ StatusFollowsRun' /\ DescriptorIsOpen' /\ PostsUnderWay'
    BY <1>1 DEF StatusFollowsRun, DescriptorIsOpen, PostsUnderWay
  <2>3. PostsAreKept'
    BY <1>1, <2>1 DEF PostsAreKept, Kept
  <2>. QED
    BY <2>2, <2>3
<1>2. CASE queue # <<>>
  <2>1. /\ held' \in Events /\ queue' \in Seq(Events)
        /\ Range(queue) = {held'} \union Range(queue')
    BY <1>2, PoppedIsHead
  <2>2. held' # None
    BY <2>1, LifecycleAssumption DEF Events
  <2>3. TypeOK' /\ StatusFollowsRun' /\ DescriptorIsOpen' /\ PostsUnderWay'
    BY <1>2, <2>1, <2>2 DEF StatusFollowsRun, DescriptorIsOpen, PostsUnderWay
  <2>4. held = None
    OBVIOUS
  <2>5. PostsAreKept'
    BY <1>2, <2>1, <2>4, LifecycleAssumption DEF PostsAreKept, Kept
  <2>. QED
    BY <2>3, <2>5
<1>. QED
  BY <1>1, <1>2

(* ... and is then stored again or, there being a descriptor, registered. *)
LEMMA RepostStep == ASSUME IInv, Repost PROVE IInv'
<1>. USE DEF IInv, TypeOK, Joining, Failed, BeforeRun, Repost, app
<1>1. held \in Events /\ epfd
  BY DEF DescriptorIsOpen
<1>2. /\ queue' \in Seq(Events)
      /\ Range(queue) \subseteq Range(queue')
      /\ epoll \subseteq epoll' /\ epoll' \subseteq Events
      /\ refused \subseteq refused' /\ refused' \subseteq Events
      /\ held \in epoll' \union Range(queue') \union Cpu \union refused'
  <2>1. CASE /\ status # "RUNNING" /\ queue' = Append(queue, held)
             /\ UNCHANGED <<epoll, refused>>
    BY <1>1, <2>1, StoredIsInQueue
  <2>2. CASE status = "RUNNING" /\ Route(held) /\ queue' = queue
    BY <1>1, <2>2 DEF Route
  <2>. QED
    BY <2>1, <2>2
<1>3. TypeOK'
  BY <1>2
<1>4. StatusFollowsRun' /\ DescriptorIsOpen' /\ PostsUnderWay'
  BY DEF StatusFollowsRun, DescriptorIsOpen, PostsUnderWay
<1>5. PostsAreKept'
  BY <1>2 DEF PostsAreKept, Kept
<1>. QED
  BY <1>3, <1>4, <1>5

(* A post that reads the status outside the start-up: RUNNING means that   *)
(* the descriptor is open, anything else that _queue is yet to be emptied. *)
LEMMA PostReadsStep == ASSUME IInv, NEW e \in Posted, PostReads(e) PROVE IInv'
<1>. USE DEF IInv, TypeOK, Joining, Failed, BeforeRun, PostReads
<1>1. TypeOK' /\ StatusFollowsRun' /\ DescriptorIsOpen'
  BY DEF StatusFollowsRun, DescriptorIsOpen
<1>2. PostsUnderWay'
  BY DEF PostsUnderWay, StatusFollowsRun, StartUp
<1>3. PostsAreKept'
  BY DEF PostsAreKept, Kept
<1>. QED
  BY <1>1, <1>2, <1>3

LEMMA PostStoresStep == ASSUME IInv, NEW e \in Posted, PostStores(e) PROVE IInv'
<1>. USE DEF IInv, TypeOK, Joining, Failed, BeforeRun, PostStores
<1>1. /\ queue' \in Seq(Events)
      /\ Range(queue') = Range(queue) \union {e}
  BY StoredIsInQueue DEF Events
<1>2. TypeOK' /\ StatusFollowsRun' /\ DescriptorIsOpen' /\ PostsUnderWay'
  BY <1>1 DEF StatusFollowsRun, DescriptorIsOpen, PostsUnderWay
<1>3. PostsAreKept'
  BY <1>1 DEF PostsAreKept, Kept, PostsUnderWay
<1>. QED
  BY <1>2, <1>3

LEMMA PostAddsStep == ASSUME IInv, NEW e \in Posted, PostAdds(e) PROVE IInv'
<1>. USE DEF IInv, TypeOK, Joining, Failed, BeforeRun, PostAdds
<1>1. /\ epoll \subseteq epoll' /\ epoll' \subseteq Events
      /\ refused \subseteq refused' /\ refused' \subseteq Events
      /\ epfd => e \in epoll' \union Cpu \union refused'
  BY DEF Route, Events
<1>2. TypeOK' /\ StatusFollowsRun' /\ DescriptorIsOpen' /\ PostsUnderWay'
  BY <1>1 DEF StatusFollowsRun, DescriptorIsOpen, PostsUnderWay
<1>3. PostsAreKept'
  BY <1>1 DEF PostsAreKept, Kept, PostsUnderWay, DescriptorIsOpen
<1>. QED
  BY <1>2, <1>3

(* Stopping and joining. *)
LEMMA StopStep ==
    ASSUME IInv, Stop \/ Join \/ Joined \/ \E w \in Workers : WorkerLeaves(w)
    PROVE  IInv'
<1>. USE DEF IInv, TypeOK, Joining, Failed, BeforeRun, Stop, Join, Joined,
             WorkerLeaves, app
<1>1. TypeOK' /\ StatusFollowsRun' /\ DescriptorIsOpen'
  BY DEF StatusFollowsRun, DescriptorIsOpen
<1>2. PostsUnderWay' /\ PostsAreKept'
  BY DEF PostsUnderWay, PostsAreKept, Kept
<1>. QED
  BY <1>1, <1>2

LEMMA NextIInv == IInv /\ [Next]_vars => IInv'
<1>. SUFFICES ASSUME IInv, [Next]_vars PROVE IInv'
  OBVIOUS
<1>1. CASE Main
  BY <1>1, RunStep, PostListenerStep, DrainPopStep, RepostStep DEF Main
<1>2. CASE \E e \in Posted : Post(e)
  BY <1>2, PostReadsStep, PostStoresStep, PostAddsStep DEF Post
<1>3. CASE Stop \/ Join \/ Joined \/ \E w \in Workers : WorkerLeaves(w)
  BY <1>3, StopStep
<1>4. CASE UNCHANGED vars
  BY <1>4 DEF vars, app, IInv, TypeOK, StatusFollowsRun, DescriptorIsOpen,
     PostsUnderWay, PostsAreKept, Kept, Joining, Failed
<1>5. CASE LoopReturns
  BY <1>5, LoopReturnsStep
<1>. QED
  BY <1>1, <1>2, <1>3, <1>4, <1>5 DEF Next

(* The inductive invariant holds in every state. *)
THEOREM Invariance == Spec => []IInv
<1>. QED
  BY InitIInv, NextIInv, PTL DEF Spec

(* The states of run, the posts and the stop fit together; a call of       *)
(* NfSvr::run that failed leaves no socket open.                           *)
THEOREM TypeCorrect == Spec => []TypeOK
<1>1. IInv => TypeOK
  BY DEF IInv
<1>. QED
  BY <1>1, Invariance, PTL

(* SyncReactor::post: an event is lost only by a post that met the         *)
(* start-up of the reactor, by its type, by an epoll_ctl that failed, by a *)
(* join, or with create().                                                 *)
THEOREM OnlyStraddlingPostsAreLost == Spec => []PostsAreKept
<1>1. IInv => PostsAreKept
  BY DEF IInv
<1>. QED
  BY <1>1, Invariance, PTL
-----------------------------------------------------------------------------
(* The bytes of a connection.  First, sequences: the parts of a sequence,  *)
(* and concatenations. *)
(* SubSeqProperties, for a part of a sequence *)
LEMMA PartOf ==
    ASSUME NEW S, NEW s \in Seq(S), NEW m \in Nat \ {0}, NEW n \in Int,
           n <= Len(s)
    PROVE  /\ SubSeq(s, m, n) \in Seq(S)
           /\ Len(SubSeq(s, m, n)) = IF m <= n THEN n - m + 1 ELSE 0
           /\ \A k \in 1 .. n - m + 1 : SubSeq(s, m, n)[k] = s[m + k - 1]
<1>1. \A i \in m .. n : s[i] \in S
  BY ElementOfSeq, LenProperties
<1>. QED
  BY <1>1, SubSeqProperties

LEMMA Between ==
    ASSUME NEW S, NEW s \in Seq(S), NEW i \in Nat, NEW j \in Int,
           i <= j, j <= Len(s)
    PROVE  /\ SubSeq(s, i + 1, j) \in Seq(S)
           /\ Len(SubSeq(s, i + 1, j)) = j - i
           /\ \A k \in 1 .. j - i : SubSeq(s, i + 1, j)[k] = s[i + k]
<1>1. i + 1 \in Nat \ {0}
  OBVIOUS
<1>. SUFFICES ASSUME NEW m \in Nat \ {0}, m = i + 1
              PROVE  /\ SubSeq(s, m, j) \in Seq(S)
                     /\ Len(SubSeq(s, m, j)) = j - i
                     /\ \A k \in 1 .. j - i : SubSeq(s, m, j)[k] = s[i + k]
  BY <1>1
<1>2. /\ SubSeq(s, m, j) \in Seq(S)
      /\ Len(SubSeq(s, m, j)) = IF m <= j THEN j - m + 1 ELSE 0
      /\ \A k \in 1 .. j - m + 1 : SubSeq(s, m, j)[k] = s[m + k - 1]
  BY PartOf
<1>. QED
  BY <1>2

(* ConcatProperties, for a sequence that is such a concatenation *)
LEMMA Concatenated ==
    ASSUME NEW S, NEW p \in Seq(S), NEW q \in Seq(S), NEW s, s = p \o q
    PROVE  /\ s \in Seq(S) /\ Len(s) = Len(p) + Len(q)
           /\ \A i \in 1 .. Len(p) + Len(q) :
                 s[i] = IF i <= Len(p) THEN p[i] ELSE q[i - Len(p)]
BY ConcatProperties

(* Sequences that agree up to j have the same parts up to j. *)
LEMMA SamePart ==
    ASSUME NEW S, NEW s \in Seq(S), NEW t \in Seq(S),
           NEW m \in Nat \ {0}, NEW j \in Nat, j <= Len(s), j <= Len(t),
           \A k \in 1 .. j : s[k] = t[k]
    PROVE  SubSeq(s, m, j) = SubSeq(t, m, j)
<1>. DEFINE p == SubSeq(s, m, j)
            q == SubSeq(t, m, j)
<1>1. /\ p \in Seq(S) /\ Len(p) = IF m <= j THEN j - m + 1 ELSE 0
      /\ \A k \in 1 .. j - m + 1 : p[k] = s[m + k - 1]
  BY PartOf
<1>2. /\ q \in Seq(S) /\ Len(q) = IF m <= j THEN j - m + 1 ELSE 0
      /\ \A k \in 1 .. j - m + 1 : q[k] = t[m + k - 1]
  BY PartOf
<1>. HIDE DEF p, q
<1>3. \A k \in 1 .. Len(p) : k \in 1 .. j - m + 1 /\ m + k - 1 \in 1 .. j
  BY <1>1
<1>4. \A k \in 1 .. Len(p) : p[k] = q[k]
  BY <1>1, <1>2, <1>3
<1>5. p = q
  BY <1>1, <1>2, <1>4, SeqEqual
<1>. QED
  BY <1>5 DEF p, q

(* A part of p \o q that begins in p, or just behind it, and ends in q. *)
LEMMA PartOfBoth ==
    ASSUME NEW S, NEW p \in Seq(S), NEW q \in Seq(S),
           NEW m \in 1 .. Len(p) + 1, NEW n \in 0 .. Len(q)
    PROVE  SubSeq(p \o q, m, Len(p) + n)
             = SubSeq(p, m, Len(p)) \o SubSeq(q, 1, n)
<1>1. /\ Len(p) \in Nat /\ Len(q) \in Nat /\ p \o q \in Seq(S)
      /\ Len(p \o q) = Len(p) + Len(q)
      /\ \A i \in 1 .. Len(p) + Len(q) :
            (p \o q)[i] = IF i <= Len(p) THEN p[i] ELSE q[i - Len(p)]
  BY ConcatProperties, LenProperties
<1>. DEFINE l == SubSeq(p \o q, m, Len(p) + n)
            a == SubSeq(p, m, Len(p))
            c == SubSeq(q, 1, n)
<1>2. /\ l \in Seq(S) /\ Len(l) = Len(p) + n - m + 1
      /\ \A k \in 1 .. Len(p) + n - m + 1 : l[k] = (p \o q)[m + k - 1]
  BY <1>1, PartOf
<1>3. /\ a \in Seq(S) /\ Len(a) = Len(p) - m + 1
      /\ \A k \in 1 .. Len(p) - m + 1 : a[k] = p[m + k - 1]
  BY <1>1, PartOf
<1>4. /\ c \in Seq(S) /\ Len(c) = n
      /\ \A k \in 1 .. n : c[k] = q[k]
  BY <1>1, PartOf
<1>. HIDE DEF l, a, c
<1>5. /\ a \o c \in Seq(S) /\ Len(a \o c) = Len(a) + Len(c)
      /\ \A i \in 1 .. Len(a) + Len(c) :
            (a \o c)[i] = IF i <= Len(a) THEN a[i] ELSE c[i - Len(a)]
  BY <1>3, <1>4, ConcatProperties
<1>6. ASSUME NEW k \in 1 .. Len(l) PROVE l[k] = (a \o c)[k]
  <2>1. l[k] = (p \o q)[m + k - 1]
    BY <1>2, <1>1
  <2>2. CASE k <= Len(a)
    <3>1. l[k] = p[m + k - 1]
      BY <1>1, <1>2, <1>3, <2>1, <2>2
    <3>2. (a \o c)[k] = p[m + k - 1]
      BY <1>1, <1>2, <1>3, <1>4, <1>5, <2>2
    <3>. QED
      BY <3>1, <3>2
  <2>3. CASE k > Len(a)
    <3>1. k - Len(a) \in 1 .. n /\ (m + k - 1) - Len(p) = k - Len(a)
      BY <1>1, <1>2, <1>3, <2>3
    <3>2. l[k] = q[k - Len(a)]
      BY <1>1, <1>2, <1>3, <2>1, <2>3, <3>1
    <3>3. (a \o c)[k] = q[k - Len(a)]
      <4>1. k \in 1 .. Len(a) + Len(c) /\ ~(k <= Len(a))
        BY <1>1, <1>2, <1>3, <1>4, <2>3
      <4>2. (a \o c)[k] = c[k - Len(a)]
        BY <1>5, <4>1, Zenon
      <4>3. c[k - Len(a)] = q[k - Len(a)]
        BY <1>4, <3>1, Zenon
      <4>. QED
        BY <4>2, <4>3, Zenon
    <3>. QED
      BY <3>2, <3>3
  <2>4. Len(a) \in Int /\ Len(l) \in Int
    BY <1>1, <1>2, <1>3
  <2>5. k \in Int
    BY <2>4
  <2>6. k <= Len(a) \/ k > Len(a)
    BY <2>4, <2>5
  <2>. QED
    BY <2>2, <2>3, <2>6, Zenon
<1>7. Len(l) = Len(a \o c)
  BY <1>1, <1>2, <1>3, <1>4, <1>5
<1>. QED
  BY <1>2, <1>5, <1>6, <1>7, SeqEqual DEF l, a, c

(* The first part of 1, 2, 3, ..., n *)
LEMMA CountsPrefix ==
    ASSUME NEW S, NEW p \in Seq(S), NEW q \in Seq(S), NEW n \in Nat,
           p \o q = [i \in 1 .. n |-> i]
    PROVE  p = [i \in 1 .. Len(p) |-> i] /\ Len(p) + Len(q) = n
<1>1. /\ Len(p) \in Nat /\ Len(q) \in Nat /\ p \o q \in Seq(S)
      /\ Len(p \o q) = Len(p) + Len(q)
      /\ \A i \in 1 .. Len(p) + Len(q) :
            (p \o q)[i] = IF i <= Len(p) THEN p[i] ELSE q[i - Len(p)]
  <2>1. Len(p) \in Nat /\ Len(q) \in Nat
    BY LenProperties
  <2>2. /\ p \o q \in Seq(S)
        /\ Len(p \o q) = Len(p) + Len(q)
        /\ \A i \in 1 .. Len(p) + Len(q) :
              (p \o q)[i] = IF i <= Len(p) THEN p[i] ELSE q[i - Len(p)]
    BY ConcatProperties, Zenon
  <2>. QED
    BY <2>1, <2>2, Zenon
<1>2. 1 .. n = 1 .. Len(p) + Len(q)
  <2>1. DOMAIN (p \o q) = 1 .. Len(p \o q)
    BY <1>1, LenProperties
  <2>. QED
    BY <1>1, <2>1
<1>3. Len(p) + Len(q) = n
  BY <1>1, <1>2
<1>4. \A i \in 1 .. Len(p) : p[i] = i
  BY <1>1, <1>3
<1>5. p = [i \in 1 .. Len(p) |-> p[i]]
  <2>1. p \in [1 .. Len(p) -> S]
    BY LenProperties
  <2>. QED
    BY <2>1
<1>. QED
  BY <1>3, <1>4, <1>5
-----------------------------------------------------------------------------
LEMMA ConstantFacts ==
    /\ Align \in Nat /\ Align > 0 /\ FreshLimit \in Nat
    /\ MinRead \in Nat /\ MinRead > 0 /\ SndBuf \in Nat /\ SndBuf > 0
    /\ MaxBytes \in Nat /\ MaxBytes > 0
BY BufferAssumption, LineEchoAssumption

LEMMA RoundUpFacts ==
    ASSUME NEW n \in Nat
    PROVE  /\ RoundUp(n) \in Nat /\ RoundUp(n) >= n
           /\ RoundUp(n) % Align = 0
<1>. DEFINE q == (n + Align - 1) \div Align
            r == (n + Align - 1) % Align
<1>1. /\ q \in Int /\ r \in 0 .. Align - 1
      /\ n + Align - 1 = Align * q + r
  BY ConstantFacts
<1>2. RoundUp(n) = q * Align
  BY DEF RoundUp
<1>. HIDE DEF q, r
<1>3. q >= 0
  <2>. SUFFICES ASSUME q < 0 PROVE FALSE
    BY <1>1
  <2>1. q + 1 <= 0
    BY <1>1
  <2>2. Align * (q + 1) <= 0
    BY <1>1, <2>1, ConstantFacts
  <2>. QED
    BY <1>1, <2>2, ConstantFacts
<1>4. q * Align \in Nat /\ q * Align >= n
  BY <1>1, <1>3, ConstantFacts
<1>5. (q * Align) % Align = 0
  <2>. DEFINE p == (q * Align) \div Align
              s == (q * Align) % Align
  <2>1. /\ p \in Int /\ s \in 0 .. Align - 1
        /\ q * Align = Align * p + s
    BY <1>1, ConstantFacts
  <2>. HIDE DEF p, s
  <2>2. Align * (q - p) = s
    BY <1>1, <2>1, ConstantFacts
  <2>3. CASE q > p
    <3>1. Align * (q - p) >= Align
      BY <1>1, <2>1, <2>3, ConstantFacts
    <3>. QED
      BY <2>1, <2>2, <3>1, ConstantFacts
  <2>4. CASE q < p
    <3>1. Align * (q - p) <= -Align
      BY <1>1, <2>1, <2>4, ConstantFacts
    <3>. QED
      BY <2>1, <2>2, <3>1, ConstantFacts
  <2>5. CASE q = p
    BY <2>1, <2>2, <2>5, ConstantFacts DEF s
  <2>. QED
    BY <1>1, <2>1, <2>3, <2>4, <2>5
<1>. QED
  BY <1>2, <1>4, <1>5
-----------------------------------------------------------------------------
(* A buffer over the bytes in S, with its indices in its block. *)
Sound(S) ==
    {b \in [cache : Seq(S), str : Nat, end : Nat \union {-1}] :
        /\ Allo(b) % Align = 0
        /\ b.end < Allo(b)
        /\ b.str <= b.end \/ (b.str = 0 /\ b.end = -1)}

LEMMA SoundFacts ==
    ASSUME NEW S, NEW b \in Sound(S)
    PROVE  /\ b.cache \in Seq(S) /\ Allo(b) \in Nat /\ Allo(b) = Len(b.cache)
           /\ b.str \in Nat /\ b.end \in Int /\ b.end >= -1
           /\ b.end < Allo(b) /\ b.str <= b.end + 1
           /\ b.str <= b.end \/ (b.str = 0 /\ b.end = -1)
           /\ EmptySize(b) \in Nat /\ UnhandledNum(b) \in Nat
           /\ Unhandled(b) \in Seq(S)
           /\ Len(Unhandled(b)) = UnhandledNum(b)
           /\ \A k \in 1 .. UnhandledNum(b) :
                 Unhandled(b)[k] = b.cache[b.str + k]
<1>1. /\ b.cache \in Seq(S) /\ Allo(b) = Len(b.cache)
      /\ b.str \in Nat /\ b.end \in Int /\ b.end >= -1
      /\ b.end < Allo(b) /\ b.str <= b.end + 1
      /\ b.str <= b.end \/ (b.str = 0 /\ b.end = -1)
  BY DEF Sound, Allo
<1>2. Allo(b) \in Nat
  BY <1>1, LenProperties
<1>3. EmptySize(b) \in Nat /\ UnhandledNum(b) \in Nat
  BY <1>1, <1>2 DEF EmptySize, UnhandledNum
<1>4. /\ Unhandled(b) \in Seq(S)
      /\ Len(Unhandled(b)) = UnhandledNum(b)
      /\ \A k \in 1 .. UnhandledNum(b) :
            Unhandled(b)[k] = b.cache[b.str + k]
  <2>1. b.end + 1 \in Int /\ b.end + 1 <= Len(b.cache)
    BY <1>1, <1>2
  <2>2. /\ SubSeq(b.cache, b.str + 1, b.end + 1) \in Seq(S)
        /\ Len(SubSeq(b.cache, b.str + 1, b.end + 1)) = (b.end + 1) - b.str
        /\ \A k \in 1 .. (b.end + 1) - b.str :
              SubSeq(b.cache, b.str + 1, b.end + 1)[k] = b.cache[b.str + k]
    BY <1>1, <2>1, Between, Zenon
  <2>3. UnhandledNum(b) = (b.end + 1) - b.str
    BY <1>1 DEF UnhandledNum
  <2>. QED
    BY <2>2, <2>3, Zenon DEF Unhandled
<1>. QED
  BY <1>1, <1>2, <1>3, <1>4

(* What makes a record a sound buffer. *)
LEMMA MakeSound ==
    ASSUME NEW S, NEW cache \in Seq(S), NEW str \in Nat, NEW end \in Int,
           end >= -1, Len(cache) % Align = 0, end < Len(cache),
           str <= end \/ (str = 0 /\ end = -1)
    PROVE  [cache |-> cache, str |-> str, end |-> end] \in Sound(S)
BY DEF Sound, Allo

LEMMA JunkIsSeq ==
    ASSUME NEW S, Junk \in S, NEW n \in Nat
    PROVE  JunkBytes(n) \in Seq(S) /\ Len(JunkBytes(n)) = n
BY DEF JunkBytes

LEMMA NullIsSound ==
    ASSUME NEW S
    PROVE  Null \in Sound(S) /\ Unhandled(Null) = <<>> /\ UnhandledNum(Null) = 0
<1>1. <<>> \in Seq(S) /\ Len(<<>>) = 0
  BY EmptySeq
<1>2. 0 % Align = 0
  BY ConstantFacts
<1>3. Null \in Sound(S)
  <2>1. Null \in [cache : Seq(S), str : Nat, end : Nat \union {-1}]
    BY <1>1 DEF Null
  <2>2. Allo(Null) = 0 /\ Null.end = -1 /\ Null.str = 0
    BY <1>1 DEF Null, Allo
  <2>. QED
    BY <1>2, <2>1, <2>2 DEF Sound
<1>4. UnhandledNum(Null) = 0
  BY DEF Null, UnhandledNum
<1>5. Unhandled(Null) = <<>>
  BY SubSeqEmpty DEF Null, Unhandled
<1>. QED
  BY <1>3, <1>4, <1>5

LEMMA NewIsSound ==
    ASSUME NEW S, Junk \in S, NEW size \in Nat
    PROVE  /\ New(size) \in Sound(S) /\ EmptySize(New(size)) >= size
           /\ Unhandled(New(size)) = <<>>
<1>1. /\ RoundUp(size + 1) \in Nat /\ RoundUp(size + 1) >= size + 1
      /\ RoundUp(size + 1) % Align = 0
  BY RoundUpFacts
<1>2. /\ JunkBytes(RoundUp(size + 1)) \in Seq(S)
      /\ Len(JunkBytes(RoundUp(size + 1))) = RoundUp(size + 1)
  BY <1>1, JunkIsSeq
<1>3. New(size) \in Sound(S)
  BY <1>1, <1>2, MakeSound DEF New
<1>4. EmptySize(New(size)) >= size
  BY <1>1, <1>2 DEF New, EmptySize, Allo
<1>5. Unhandled(New(size)) = <<>>
  BY SubSeqEmpty DEF New, Unhandled
<1>. QED
  BY <1>3, <1>4, <1>5

(* fresh_cache makes room for len bytes, and keeps what is not handled. *)
LEMMA LargerFacts ==
    ASSUME NEW S, NEW b \in Sound(S), NEW len \in Nat
    PROVE  /\ Larger(b, len) \in Nat /\ Larger(b, len) >= b.end + len + 2
           /\ Larger(b, len) % Align = 0
<1>. DEFINE need == b.end + len + 1
            n == (IF 2 * Allo(b) > need THEN 2 * Allo(b) ELSE need) + 1
<1>1. Allo(b) \in Nat /\ b.end \in Int /\ b.end >= -1
  BY SoundFacts
<1>2. n \in Nat /\ n >= b.end + len + 2
  BY <1>1
<1>3. Larger(b, len) = RoundUp(n)
  BY DEF Larger
<1>. HIDE DEF n
<1>4. RoundUp(n) \in Nat /\ RoundUp(n) >= n /\ RoundUp(n) % Align = 0
  BY <1>2, RoundUpFacts
<1>. QED
  BY <1>1, <1>2, <1>3, <1>4

LEMMA FreshIsSound ==
    ASSUME NEW S, Junk \in S, NEW b \in Sound(S), NEW len \in Nat
    PROVE  /\ FreshCache(b, len) \in Sound(S)
           /\ EmptySize(FreshCache(b, len)) >= len
           /\ FreshCache(b, len).end = b.end
           /\ Unhandled(FreshCache(b, len)) = Unhandled(b)
<1>1. /\ b.cache \in Seq(S) /\ Allo(b) \in Nat /\ Allo(b) = Len(b.cache)
      /\ b.str \in Nat /\ b.end \in Int /\ b.end >= -1
      /\ b.end < Allo(b) /\ b.str <= b.end + 1
      /\ b.str <= b.end \/ (b.str = 0 /\ b.end = -1)
  BY SoundFacts
<1>2. Larger(b, len) \in Nat /\ Larger(b, len) >= b.end + len + 2
  BY LargerFacts
<1>a. Larger(b, len) % Align = 0
  BY LargerFacts
<1>b. SUFFICES ASSUME NEW c, NEW kept, NEW more, NEW cache,
                     kept = SubSeq(b.cache, 1, b.end + 1),
                     more = JunkBytes(Larger(b, len) - (b.end + 1)),
                     cache = kept \o more, c = FreshCache(b, len)
              PROVE  /\ c \in Sound(S) /\ EmptySize(c) >= len
                     /\ c.end = b.end /\ Unhandled(c) = Unhandled(b)
  OBVIOUS
<1>3. /\ kept \in Seq(S) /\ Len(kept) = b.end + 1
      /\ \A k \in 1 .. b.end + 1 : kept[k] = b.cache[k]
  <2>1. 0 \in Nat /\ b.end + 1 \in Int /\ 0 <= b.end + 1 /\ b.end + 1 <= Len(b.cache)
    BY <1>1
  <2>2. /\ SubSeq(b.cache, 0 + 1, b.end + 1) \in Seq(S)
        /\ Len(SubSeq(b.cache, 0 + 1, b.end + 1)) = (b.end + 1) - 0
        /\ \A k \in 1 .. (b.end + 1) - 0 :
              SubSeq(b.cache, 0 + 1, b.end + 1)[k] = b.cache[0 + k]
    BY <1>1, <2>1, Between, Zenon
  <2>3. 0 + 1 = 1 /\ (b.end + 1) - 0 = b.end + 1 /\ \A k \in 1 .. b.end + 1 : 0 + k = k
    BY <1>1
  <2>. QED
    BY <1>b, <2>2, <2>3
<1>4. more \in Seq(S) /\ Len(more) = Larger(b, len) - (b.end + 1)
  <2>1. Larger(b, len) - (b.end + 1) \in Nat
    BY <1>1, <1>2
  <2>. QED
    BY <1>b, <2>1, JunkIsSeq, Zenon
<1>5. c = [cache |-> cache, str |-> b.str, end |-> b.end]
  <2>1. c = [b EXCEPT !.cache = cache]
    BY <1>b, <1>3, Zenon DEF FreshCache
  <2>2. b \in [cache : Seq(S), str : Nat, end : Nat \union {-1}]
    BY DEF Sound
  <2>. QED
    BY <2>1, <2>2
<1>6. /\ cache \in Seq(S) /\ Len(cache) = Len(kept) + Len(more)
      /\ \A k \in 1 .. Len(kept) + Len(more) :
            cache[k] = IF k <= Len(kept) THEN kept[k] ELSE more[k - Len(kept)]
  <2>1. kept \in Seq(S) /\ more \in Seq(S) /\ cache = kept \o more
    BY <1>b, <1>3, <1>4, Zenon
  <2>. QED
    BY <2>1, Concatenated
<1>7. /\ Len(cache) = Larger(b, len)
      /\ \A k \in 1 .. b.end + 1 : cache[k] = b.cache[k]
  <2>1. Len(cache) = Larger(b, len)
    BY <1>1, <1>2, <1>3, <1>4, <1>6
  <2>2. ASSUME NEW k \in 1 .. b.end + 1 PROVE cache[k] = b.cache[k]
    <3>1. k \in 1 .. Len(kept) + Len(more) /\ k <= Len(kept)
      <4>1. Len(kept) = b.end + 1 /\ Len(more) >= 0 /\ Len(more) \in Int /\ b.end \in Int
        BY <1>1, <1>2, <1>3, <1>4
      <4>. QED
        BY <4>1
    <3>2. cache[k] = kept[k]
      BY <1>6, <3>1
    <3>. QED
      BY <1>3, <3>2
  <2>. QED
    BY <2>1, <2>2
<1>8. c \in Sound(S)
  <2>1. b.end < Len(cache)
    BY <1>1, <1>2, <1>7
  <2>. QED
    BY <1>1, <1>2, <1>5, <1>6, <1>7, <2>1, <1>a, MakeSound, Zenon
<1>9. EmptySize(c) >= len /\ c.end = b.end
  BY <1>1, <1>2, <1>5, <1>7 DEF EmptySize, Allo
<1>10. Unhandled(c) = Unhandled(b)
  <2>1. /\ b.end + 1 \in Nat /\ b.end + 1 <= Len(cache)
        /\ b.end + 1 <= Len(b.cache) /\ b.str \in Nat /\ b.str <= b.end + 1
    BY <1>1, <1>2, <1>7
  <2>3. /\ cache \in Seq(S) /\ b.cache \in Seq(S)
        /\ \A k \in 1 .. b.end + 1 : cache[k] = b.cache[k]
    BY <1>1, <1>6, <1>7, Zenon
  <2>2. SubSeq(cache, b.str + 1, b.end + 1) = SubSeq(b.cache, b.str + 1, b.end + 1)
    <3>1. SUFFICES ASSUME NEW m \in Nat \ {0}, NEW j \in Nat, NEW t \in Seq(S),
                          m = b.str + 1, j = b.end + 1, t = b.cache
                   PROVE  SubSeq(cache, m, j) = SubSeq(t, m, j)
      <4>1. b.str + 1 \in Nat \ {0} /\ b.end + 1 \in Nat
        BY <2>1
      <4>. QED
        BY <2>3, <4>1, Zenon
    <3>2. /\ j <= Len(cache) /\ j <= Len(t) /\ cache \in Seq(S)
          /\ \A k \in 1 .. j : cache[k] = t[k]
      BY <2>1, <2>3, <3>1
    <3>. QED
      BY <3>2, SamePart
  <2>. QED
    BY <1>5, <2>2 DEF Unhandled
<1>. QED
  BY <1>b, <1>8, <1>9, <1>10, Zenon

(* The bytes of a block after bytes are put behind e, up to j: what is     *)
(* before and behind them stays.                                           *)
Stored(c, bytes, e, j) ==
    SubSeq(SubSeq(c, 1, e) \o bytes \o SubSeq(c, j + 1, Len(c)), 1, Len(c))

(* What is stored in the empty part of a buffer is unhandled, after what   *)
(* was there before.                                                       *)
LEMMA StoreIsSound ==
    ASSUME NEW S, NEW b \in Sound(S), NEW bytes \in Seq(S),
           Len(bytes) <= EmptySize(b)
    PROVE  /\ Store(b, bytes) \in Sound(S)
           /\ Store(b, bytes).str = b.str
           /\ Store(b, bytes).end = b.end + Len(bytes)
           /\ Unhandled(Store(b, bytes)) = Unhandled(b) \o bytes
<1>1. /\ b.cache \in Seq(S) /\ Allo(b) \in Nat /\ Allo(b) = Len(b.cache)
      /\ b.str \in Nat /\ b.end \in Int /\ b.end >= -1
      /\ b.end < Allo(b) /\ b.str <= b.end + 1
      /\ b.str <= b.end \/ (b.str = 0 /\ b.end = -1)
  BY SoundFacts
<1>2. Len(b.cache) % Align = 0
  BY DEF Sound, Allo
<1>3. Len(bytes) \in Nat
  BY LenProperties
<1>4. PICK j \in Nat, e \in Nat, m \in Nat \ {0}, c \in Seq(S) :
         j = e + Len(bytes) /\ e = b.end + 1 /\ m = b.str + 1 /\ c = b.cache
  <2>1. b.end + 1 \in Nat /\ (b.end + 1) + Len(bytes) \in Nat /\ b.str + 1 \in Nat \ {0}
    BY <1>1, <1>3
  <2>. QED
    BY <1>1, <1>3, <2>1, Zenon
<1>5. m <= e + 1 /\ j <= Len(c)
  <2>1. PICK n \in Nat, l \in Nat, str \in Int, end \in Int :
           n = Len(bytes) /\ l = Allo(b) /\ str = b.str /\ end = b.end
    BY <1>1, <1>3
  <2>2. n <= l - end - 1 /\ str <= end + 1
    BY <1>1, <2>1 DEF EmptySize
  <2>3. j = e + n /\ e = end + 1 /\ m = str + 1 /\ Len(c) = l
    BY <1>1, <1>4, <2>1
  <2>4. m <= e + 1 /\ j <= l
    BY <2>2, <2>3
  <2>. QED
    BY <2>3, <2>4
<1>6. PICK x, u, w : /\ x = Stored(c, bytes, e, j)
                     /\ u = SubSeq(x, m, j) /\ w = SubSeq(c, m, e)
  OBVIOUS
<1>7. x \in Seq(S) /\ Len(x) = Len(c) /\ u = w \o bytes
  <2>0. j = e + Len(bytes) /\ m <= e + 1 /\ j <= Len(c)
    BY <1>4, <1>5
  <2>1. Len(c) \in Nat /\ Len(bytes) \in Nat
    BY LenProperties
  <2>2. PICK p : p = SubSeq(c, 1, e)
    OBVIOUS
  <2>3. PICK r : r = SubSeq(c, j + 1, Len(c))
    OBVIOUS
  <2>4. PICK q : q = p \o bytes
    OBVIOUS
  <2>5. PICK y : y = q \o r
    OBVIOUS
  <2>6. /\ p \in Seq(S) /\ Len(p) = e
        /\ \A k \in 1 .. e : p[k] = c[k]
    <3>1. 1 \in Nat \ {0} /\ e \in Int /\ e <= Len(c)
      BY <2>0, <2>1
    <3>2. PICK m1 \in Nat \ {0} : m1 = 1
      BY <3>1
    <3>3. /\ SubSeq(c, m1, e) \in Seq(S)
          /\ Len(SubSeq(c, m1, e)) = IF m1 <= e THEN e - m1 + 1 ELSE 0
          /\ \A k \in 1 .. e - m1 + 1 : SubSeq(c, m1, e)[k] = c[m1 + k - 1]
      BY <3>1, PartOf
    <3>4. p = SubSeq(c, m1, e)
      BY <2>2, <3>2
    <3>5. /\ p \in Seq(S) /\ Len(p) = IF m1 <= e THEN e - m1 + 1 ELSE 0
          /\ \A k \in 1 .. e - m1 + 1 : p[k] = c[m1 + k - 1]
      BY <3>3, <3>4, Zenon
    <3>. QED
      BY <3>2, <3>5
  <2>7. r \in Seq(S) /\ Len(r) = Len(c) - j
    BY <2>0, <2>1, <2>3, Between
  <2>8. /\ q \in Seq(S) /\ Len(q) = j
        /\ \A k \in 1 .. j : q[k] = IF k <= e THEN p[k] ELSE bytes[k - e]
    <3>1. p \in Seq(S) /\ q = p \o bytes
      BY <2>4, <2>6
    <3>2. /\ q \in Seq(S) /\ Len(q) = Len(p) + Len(bytes)
          /\ \A k \in 1 .. Len(p) + Len(bytes) :
                q[k] = IF k <= Len(p) THEN p[k] ELSE bytes[k - Len(p)]
      BY <3>1, Concatenated
    <3>3. Len(p) = e /\ Len(p) + Len(bytes) = j
      BY <2>0, <2>6
    <3>. QED
      BY <3>2, <3>3
  <2>9. /\ y \in Seq(S) /\ Len(y) = Len(c)
        /\ \A k \in 1 .. j : y[k] = q[k]
    <3>1. /\ y \in Seq(S) /\ Len(y) = Len(q) + Len(r)
          /\ \A k \in 1 .. Len(q) + Len(r) :
                y[k] = IF k <= Len(q) THEN q[k] ELSE r[k - Len(q)]
      <4>1. q \in Seq(S) /\ r \in Seq(S) /\ y = q \o r
        BY <2>5, <2>7, <2>8
      <4>. QED
        BY <4>1, Concatenated
    <3>2. Len(q) + Len(r) = Len(c)
      BY <2>1, <2>7, <2>8
    <3>3. \A k \in 1 .. j : k \in 1 .. Len(q) + Len(r) /\ k <= Len(q)
      BY <2>1, <2>7, <2>8
    <3>. QED
      BY <3>1, <3>2, <3>3
  <2>10. Stored(c, bytes, e, j) = y
    <3>1. Stored(c, bytes, e, j) = SubSeq(y, 1, Len(y))
      BY <2>2, <2>3, <2>4, <2>5, <2>9 DEF Stored
    <3>. QED
      BY <2>9, <3>1, SubSeqFull
  <2>11. SubSeq(y, m, j) = SubSeq(q, m, j)
    <3>1. j <= Len(y) /\ j <= Len(q)
      BY <2>0, <2>1, <2>8, <2>9
    <3>. QED
      BY <2>8, <2>9, <3>1, SamePart
  <2>12. SubSeq(q, m, j) = SubSeq(p, m, e) \o bytes
    <3>1. m \in 1 .. Len(p) + 1 /\ Len(bytes) \in 0 .. Len(bytes)
      BY <2>0, <2>1, <2>6
    <3>2. SubSeq(p \o bytes, m, Len(p) + Len(bytes))
            = SubSeq(p, m, Len(p)) \o SubSeq(bytes, 1, Len(bytes))
      BY <2>6, <3>1, PartOfBoth
    <3>3. SubSeq(bytes, 1, Len(bytes)) = bytes
      BY SubSeqFull
    <3>. QED
      BY <2>0, <2>4, <2>6, <3>2, <3>3
  <2>13. SubSeq(p, m, e) = SubSeq(c, m, e)
    BY <2>1, <2>6, SamePart
  <2>14. u = SubSeq(y, m, j)
    BY <1>6, <2>10
  <2>. QED
    <3>1. u = SubSeq(q, m, j)
      BY <2>11, <2>14, Zenon
    <3>2. w = SubSeq(p, m, e)
      BY <1>6, <2>13, Zenon
    <3>3. u = w \o bytes
      BY <2>12, <3>1, <3>2, Zenon
    <3>4. x = y
      BY <1>6, <2>10, Zenon
    <3>. QED
      BY <2>9, <3>3, <3>4, Zenon
<1>8. Store(b, bytes) = [cache |-> x, str |-> b.str, end |-> b.end + Len(bytes)]
  <2>1. b.end + Len(bytes) + 2 = j + 1
    BY <1>1, <1>3, <1>4
  <2>2. b \in [cache : Seq(S), str : Nat, end : Nat \union {-1}]
    BY DEF Sound
  <2>3. SubSeq(SubSeq(b.cache, 1, b.end + 1) \o bytes
                 \o SubSeq(b.cache, b.end + Len(bytes) + 2, Allo(b)), 1, Allo(b)) = x
    BY <1>1, <1>4, <1>6, <2>1 DEF Stored
  <2>4. Store(b, bytes) = [b EXCEPT !.end = @ + Len(bytes), !.cache = x]
    BY <2>3, Zenon DEF Store
  <2>. QED
    BY <2>2, <2>4
<1>9. /\ b.end + Len(bytes) \in Int /\ b.end + Len(bytes) >= -1
      /\ b.end + Len(bytes) < Len(x)
      /\ b.str <= b.end + Len(bytes) \/ (b.str = 0 /\ b.end + Len(bytes) = -1)
  <2>1. PICK n \in Nat : n = Len(bytes)
    BY <1>3
  <2>2. /\ b.end \in Int /\ b.end >= -1 /\ b.str \in Nat
        /\ b.str <= b.end \/ (b.str = 0 /\ b.end = -1)
        /\ j = e + n /\ e = b.end + 1 /\ Len(x) = Len(c) /\ j <= Len(c)
        /\ Len(c) \in Int
    BY <1>1, <1>4, <1>5, <1>7, <2>1
  <2>3. b.end + n \in Int /\ b.end + n >= -1 /\ b.end + n < Len(x)
    BY <2>2
  <2>4. b.str <= b.end + n \/ (b.str = 0 /\ b.end + n = -1)
    <3>1. CASE b.str <= b.end
      BY <2>2, <3>1
    <3>2. CASE b.str = 0 /\ b.end = -1
      BY <2>2, <3>2
    <3>3. b.str <= b.end \/ (b.str = 0 /\ b.end = -1)
      BY <2>2
    <3>. QED
      BY <3>1, <3>2, <3>3, Zenon
  <2>. QED
    BY <2>1, <2>3, <2>4
<1>10. Store(b, bytes) \in Sound(S)
  <2>1. Len(x) % Align = 0
    BY <1>2, <1>4, <1>7
  <2>. QED
    BY <1>1, <1>7, <1>8, <1>9, <2>1, MakeSound
<1>11. Unhandled(Store(b, bytes)) = Unhandled(b) \o bytes
  <2>1. (b.end + Len(bytes)) + 1 = j
    BY <1>1, <1>3, <1>4
  <2>2. /\ Store(b, bytes).cache = x /\ Store(b, bytes).str = b.str
        /\ Store(b, bytes).end = b.end + Len(bytes)
    BY <1>8
  <2>3. Unhandled(Store(b, bytes)) = u
    BY <1>4, <1>6, <2>1, <2>2, Zenon DEF Unhandled
  <2>4. Unhandled(b) = w
    BY <1>4, <1>6 DEF Unhandled
  <2>. QED
    BY <1>7, <2>3, <2>4, Zenon
<1>. QED
  BY <1>8, <1>10, <1>11

LEMMA Halves ==
    ASSUME NEW S, NEW s \in Seq(S), NEW n \in Nat, n <= Len(s)
    PROVE  s = SubSeq(s, 1, n) \o SubSeq(s, n + 1, Len(s))
<1>1. PICK m, k, l : m = 1 /\ k = n /\ l = Len(s)
  OBVIOUS
<1>2. m \in 1 .. Len(s) + 1 /\ k \in m - 1 .. Len(s) /\ l \in k .. Len(s)
  BY <1>1, LenProperties
<1>3. SubSeq(s, m, k) \o SubSeq(s, k + 1, l) = SubSeq(s, m, l)
  BY <1>2, ConcatAdjacentSubSeq, Zenon
<1>4. SubSeq(s, 1, Len(s)) = s
  BY SubSeqFull
<1>. QED
  BY <1>1, <1>3, <1>4, Zenon

(* ConcatAssociative, for sequences that are such concatenations *)
LEMMA Regroup ==
    ASSUME NEW S, NEW p \in Seq(S), NEW q \in Seq(S), NEW r \in Seq(S),
           NEW x, x = p \o q, NEW y, y = q \o r
    PROVE  x \o r = p \o y
<1>1. (p \o q) \o r = p \o (q \o r)
  BY ConcatAssociative
<1>. QED
  BY <1>1, Zenon

(* The two halves of a sequence *)
LEMMA SplitAt ==
    ASSUME NEW S, NEW s \in Seq(S), NEW n \in Nat, n <= Len(s),
           NEW p, p = SubSeq(s, 1, n), NEW q, q = SubSeq(s, n + 1, Len(s))
    PROVE  /\ p \in Seq(S) /\ q \in Seq(S) /\ s = p \o q
           /\ Len(p) = n /\ Len(q) = Len(s) - n
           /\ \A k \in 1 .. n : p[k] = s[k]
           /\ \A k \in 1 .. Len(s) - n : q[k] = s[n + k]
<1>1. Len(s) \in Nat
  BY LenProperties
<1>2. p \in Seq(S) /\ Len(p) = n /\ \A k \in 1 .. n : p[k] = s[k]
  <2>1. PICK m \in Nat \ {0} : m = 1
    OBVIOUS
  <2>2. /\ SubSeq(s, m, n) \in Seq(S)
        /\ Len(SubSeq(s, m, n)) = IF m <= n THEN n - m + 1 ELSE 0
        /\ \A k \in 1 .. n - m + 1 : SubSeq(s, m, n)[k] = s[m + k - 1]
    BY PartOf
  <2>3. p = SubSeq(s, m, n)
    BY <2>1
  <2>4. /\ p \in Seq(S) /\ Len(p) = IF m <= n THEN n - m + 1 ELSE 0
        /\ \A k \in 1 .. n - m + 1 : p[k] = s[m + k - 1]
    BY <2>2, <2>3, Zenon
  <2>. QED
    BY <2>1, <2>4
<1>3. /\ q \in Seq(S) /\ Len(q) = Len(s) - n
      /\ \A k \in 1 .. Len(s) - n : q[k] = s[n + k]
  <2>1. PICK l \in Int : l = Len(s)
    BY <1>1
  <2>2. /\ SubSeq(s, n + 1, l) \in Seq(S)
        /\ Len(SubSeq(s, n + 1, l)) = l - n
        /\ \A k \in 1 .. l - n : SubSeq(s, n + 1, l)[k] = s[n + k]
    BY <2>1, Between
  <2>. QED
    BY <2>1, <2>2, Zenon
<1>4. s = p \o q
  BY Halves, Zenon
<1>. QED
  BY <1>2, <1>3, <1>4, Zenon

LEMMA HalvesAreSeqs ==
    ASSUME NEW S, NEW s \in Seq(S), NEW n \in Nat, n <= Len(s)
    PROVE  SubSeq(s, 1, n) \in Seq(S) /\ SubSeq(s, n + 1, Len(s)) \in Seq(S)
<1>1. PICK p, q : p = SubSeq(s, 1, n) /\ q = SubSeq(s, n + 1, Len(s))
  OBVIOUS
<1>2. p \in Seq(S) /\ q \in Seq(S)
  BY <1>1, SplitAt
<1>. QED
  BY <1>1, <1>2, Zenon

(* add_data puts bytes behind what is unhandled, whatever room there was. *)
LEMMA AddDataIsSound ==
    ASSUME NEW S, Junk \in S, NEW b \in Sound(S), NEW bytes \in Seq(S)
    PROVE  /\ AddData(b, bytes) \in Sound(S)
           /\ Unhandled(AddData(b, bytes)) = Unhandled(b) \o bytes
<1>1. Len(bytes) \in Nat
  BY LenProperties
<1>2. PICK c : c = IF b = Null THEN New(Len(bytes)) ELSE b
  OBVIOUS
<1>3. c \in Sound(S) /\ Unhandled(c) = Unhandled(b)
  BY <1>1, <1>2, NewIsSound, NullIsSound, Zenon
<1>4. PICK d : d = IF Len(bytes) > EmptySize(c) THEN FreshCache(c, Len(bytes)) ELSE c
  OBVIOUS
<1>5. d \in Sound(S) /\ Unhandled(d) = Unhandled(c) /\ Len(bytes) <= EmptySize(d)
  <2>1. EmptySize(c) \in Nat
    BY <1>3, SoundFacts
  <2>2. /\ FreshCache(c, Len(bytes)) \in Sound(S)
        /\ EmptySize(FreshCache(c, Len(bytes))) >= Len(bytes)
        /\ Unhandled(FreshCache(c, Len(bytes))) = Unhandled(c)
    BY <1>1, <1>3, FreshIsSound, Zenon
  <2>3. EmptySize(FreshCache(c, Len(bytes))) \in Nat
    BY <2>2, SoundFacts
  <2>4. CASE Len(bytes) > EmptySize(c)
    BY <1>1, <1>4, <2>2, <2>3, <2>4
  <2>5. CASE ~(Len(bytes) > EmptySize(c))
    BY <1>1, <1>3, <1>4, <2>1, <2>5
  <2>. QED
    BY <2>4, <2>5, Zenon
<1>6. AddData(b, bytes) = Store(d, bytes)
  BY <1>2, <1>4, Zenon DEF AddData
<1>7. Store(d, bytes) \in Sound(S) /\ Unhandled(Store(d, bytes)) = Unhandled(d) \o bytes
  BY <1>5, StoreIsSound, Zenon
<1>. QED
  BY <1>3, <1>5, <1>6, <1>7, Zenon

(* The bytes that are read through get_unhandle_cache *)
LEMMA FirstBytesFacts ==
    ASSUME NEW S, Junk \in S, NEW b \in Sound(S), NEW n \in Nat
    PROVE  FirstBytes(b, n) \in Seq(S) /\ Len(FirstBytes(b, n)) = n
<1>1. /\ b.cache \in Seq(S) /\ Allo(b) \in Nat /\ Allo(b) = Len(b.cache)
      /\ b.str \in Nat
  BY SoundFacts
<1>2. ASSUME NEW k \in 1 .. n, b.str + k <= Allo(b) PROVE b.cache[b.str + k] \in S
  <2>1. b.str + k \in 1 .. Len(b.cache)
    BY <1>1, <1>2
  <2>. QED
    BY <1>1, <2>1, ElementOfSeq, Zenon
<1>. DEFINE f == [k \in 1 .. n |-> IF b.str + k <= Allo(b) THEN b.cache[b.str + k]
                                                          ELSE Junk]
<1>3. f \in [1 .. n -> S]
  BY <1>2
<1>. HIDE DEF f
<1>4. f \in Seq(S) /\ Len(f) = n
  BY <1>3
<1>. QED
  BY <1>4 DEF f, FirstBytes

(* add_handl_num leaves what is behind the n bytes, unless these end just *)
(* before the last byte, which is then lost.                              *)
LEMMA AddHandledIsSound ==
    ASSUME NEW S, Junk \in S, NEW b \in Sound(S), NEW n \in Nat
    PROVE  /\ AddHandled(b, n) \in Sound(S)
           /\ b.str + n < b.end =>
                 Unhandled(AddHandled(b, n))
                    = SubSeq(Unhandled(b), n + 1, Len(Unhandled(b)))
           /\ ~(b.str + n < b.end) => Unhandled(AddHandled(b, n)) = <<>>
<1>1. /\ b.cache \in Seq(S) /\ Allo(b) \in Nat /\ Allo(b) = Len(b.cache)
      /\ b.str \in Nat /\ b.end \in Int /\ b.end >= -1 /\ b.end < Allo(b)
      /\ Unhandled(b) \in Seq(S) /\ Len(Unhandled(b)) = UnhandledNum(b)
      /\ \A k \in 1 .. UnhandledNum(b) : Unhandled(b)[k] = b.cache[b.str + k]
  BY SoundFacts
<1>2. /\ Allo(b) % Align = 0
      /\ b \in [cache : Seq(S), str : Nat, end : Nat \union {-1}]
  BY DEF Sound
<1>3. CASE b.str + n < b.end
  <2>1. AddHandled(b, n) = [cache |-> b.cache, str |-> b.str + n, end |-> b.end]
    BY <1>2, <1>3 DEF AddHandled
  <2>2. AddHandled(b, n) \in Sound(S)
    <3>1. b.str + n \in Nat /\ b.str + n <= b.end
      BY <1>1, <1>3
    <3>2. Len(b.cache) % Align = 0 /\ b.end < Len(b.cache)
      BY <1>1, <1>2
    <3>. QED
      BY <1>1, <2>1, <3>1, <3>2, MakeSound, Zenon
  <2>3. PICK c \in Sound(S) : c = AddHandled(b, n)
    BY <2>2
  <2>4. c.cache = b.cache /\ c.str = b.str + n /\ c.end = b.end
    BY <2>1, <2>3
  <2>5. /\ Unhandled(c) \in Seq(S) /\ Len(Unhandled(c)) = UnhandledNum(c)
        /\ \A k \in 1 .. UnhandledNum(c) : Unhandled(c)[k] = c.cache[c.str + k]
    BY SoundFacts
  <2>6. n <= Len(Unhandled(b)) /\ UnhandledNum(c) = Len(Unhandled(b)) - n
    BY <1>1, <1>3, <2>4 DEF UnhandledNum
  <2>7. PICK p, q : /\ p = SubSeq(Unhandled(b), 1, n)
                    /\ q = SubSeq(Unhandled(b), n + 1, Len(Unhandled(b)))
    OBVIOUS
  <2>8. /\ q \in Seq(S) /\ Len(q) = Len(Unhandled(b)) - n
        /\ \A k \in 1 .. Len(Unhandled(b)) - n : q[k] = Unhandled(b)[n + k]
    <3>1. PICK u \in Seq(S) : u = Unhandled(b)
      BY <1>1
    <3>2. n <= Len(u) /\ p = SubSeq(u, 1, n) /\ q = SubSeq(u, n + 1, Len(u))
      BY <2>6, <2>7, <3>1, Zenon
    <3>3. /\ q \in Seq(S) /\ Len(q) = Len(u) - n
          /\ \A k \in 1 .. Len(u) - n : q[k] = u[n + k]
      BY <3>2, SplitAt
    <3>. QED
      BY <3>1, <3>3, Zenon
  <2>9. PICK m : m = Len(Unhandled(b)) - n
    OBVIOUS
  <2>10. ASSUME NEW k \in 1 .. m PROVE Unhandled(c)[k] = q[k]
    <3>1. n + k \in 1 .. UnhandledNum(b) /\ k \in 1 .. UnhandledNum(c)
      BY <1>1, <2>6, <2>9 DEF UnhandledNum
    <3>2. Unhandled(c)[k] = b.cache[c.str + k]
      BY <2>4, <2>5, <3>1
    <3>3. q[k] = b.cache[b.str + (n + k)]
      BY <1>1, <2>8, <2>9, <3>1
    <3>4. c.str + k = b.str + (n + k)
      BY <1>1, <2>4, <2>9, <3>1
    <3>. QED
      BY <3>2, <3>3, <3>4
  <2>11. Unhandled(c) = q
    BY <2>5, <2>6, <2>8, <2>9, <2>10, SeqEqual
  <2>. QED
    BY <1>3, <2>2, <2>3, <2>7, <2>11, Zenon
<1>4. CASE ~(b.str + n < b.end)
  <2>1. CASE Allo(b) > FreshLimit
    BY <1>4, <2>1, NullIsSound DEF AddHandled
  <2>2. CASE ~(Allo(b) > FreshLimit)
    <3>1. AddHandled(b, n) = [cache |-> b.cache, str |-> 0, end |-> -1]
      BY <1>2, <1>4, <2>2 DEF AddHandled
    <3>2. AddHandled(b, n) \in Sound(S)
      <4>1. 0 \in Nat /\ -1 \in Int /\ -1 >= -1
        OBVIOUS
      <4>2. Len(b.cache) % Align = 0 /\ -1 < Len(b.cache)
        BY <1>1, <1>2
      <4>. QED
        BY <1>1, <3>1, <4>1, <4>2, MakeSound, Zenon
    <3>3. Unhandled(AddHandled(b, n)) = <<>>
      BY <3>1, SubSeqEmpty DEF Unhandled
    <3>. QED
      BY <1>4, <3>2, <3>3
  <2>. QED
    BY <2>1, <2>2, Zenon
<1>. QED
  BY <1>3, <1>4, Zenon

(* What is handled and what is left are what was unhandled, unless one     *)
(* byte is left.                                                           *)
LEMMA HandledAndLeft ==
    ASSUME NEW S, Junk \in S, NEW b \in Sound(S), NEW n \in Nat,
           n <= UnhandledNum(b), b.str + n # b.end
    PROVE  Unhandled(b) = FirstBytes(b, n) \o Unhandled(AddHandled(b, n))
<1>1. /\ b.cache \in Seq(S) /\ Allo(b) \in Nat /\ Allo(b) = Len(b.cache)
      /\ b.str \in Nat /\ b.end \in Int /\ b.end >= -1 /\ b.end < Allo(b)
      /\ Unhandled(b) \in Seq(S) /\ Len(Unhandled(b)) = UnhandledNum(b)
      /\ \A k \in 1 .. UnhandledNum(b) : Unhandled(b)[k] = b.cache[b.str + k]
  BY SoundFacts
<1>2a. PICK u \in Seq(S) : u = Unhandled(b)
  BY <1>1
<1>2b. PICK p, q : p = SubSeq(u, 1, n) /\ q = SubSeq(u, n + 1, Len(u))
  OBVIOUS
<1>2. /\ u = Unhandled(b)
      /\ p = SubSeq(u, 1, n) /\ q = SubSeq(u, n + 1, Len(u))
  BY <1>2a, <1>2b, Zenon
<1>3. n <= Len(u)
  BY <1>1, <1>2
<1>4. /\ p \in Seq(S) /\ q \in Seq(S) /\ u = p \o q
      /\ Len(p) = n /\ Len(q) = Len(u) - n
      /\ \A k \in 1 .. n : p[k] = u[k]
  <2>1. p = SubSeq(u, 1, n) /\ q = SubSeq(u, n + 1, Len(u))
    BY <1>2, Zenon
  <2>2. /\ p \in Seq(S) /\ q \in Seq(S)
        /\ Len(p) = n /\ Len(q) = Len(u) - n
        /\ \A k \in 1 .. n : p[k] = u[k]
    BY <1>3, <2>1, SplitAt
  <2>3. u = p \o q
    BY <1>3, <2>1, Halves, Zenon
  <2>. QED
    BY <2>2, <2>3, Zenon
<1>5. FirstBytes(b, n) = p
  <2>1. FirstBytes(b, n) \in Seq(S) /\ Len(FirstBytes(b, n)) = n
    BY FirstBytesFacts
  <2>2. ASSUME NEW k \in 1 .. n PROVE FirstBytes(b, n)[k] = p[k]
    <3>1. k \in 1 .. UnhandledNum(b) /\ b.str + k <= Allo(b)
      <4>1. PICK num \in Int, str \in Int, end \in Int, l \in Int :
               num = UnhandledNum(b) /\ str = b.str /\ end = b.end /\ l = Allo(b)
        BY <1>1 DEF UnhandledNum
      <4>2. num = end - str + 1 /\ n <= num /\ end < l
        BY <1>1, <4>1 DEF UnhandledNum
      <4>3. k \in Int /\ k >= 1 /\ k <= n
        OBVIOUS
      <4>4. k \in 1 .. num /\ str + k <= l
        BY <4>2, <4>3
      <4>. QED
        BY <4>1, <4>4
    <3>2. FirstBytes(b, n)[k] = b.cache[b.str + k]
      BY <3>1 DEF FirstBytes
    <3>. QED
      BY <1>1, <1>2, <1>4, <3>1, <3>2
  <2>. QED
    BY <1>4, <2>1, <2>2, SeqEqual
<1>6. Unhandled(AddHandled(b, n)) = q
  <2>1. CASE b.str + n < b.end
    BY <1>2, <2>1, AddHandledIsSound, Zenon
  <2>2. CASE ~(b.str + n < b.end)
    <3>1. PICK num \in Int, str \in Int, end \in Int :
             num = UnhandledNum(b) /\ str = b.str /\ end = b.end
      BY <1>1 DEF UnhandledNum
    <3>2. Len(q) = 0
      <4>1. num = end - str + 1 /\ n <= num /\ str + n # end /\ ~(str + n < end)
        BY <2>2, <3>1 DEF UnhandledNum
      <4>2. num - n = 0
        BY <4>1
      <4>3. Len(q) = num - n
        BY <1>1, <1>2, <1>4, <3>1
      <4>. QED
        BY <4>2, <4>3
    <3>3. q = <<>>
      BY <1>4, <3>2
    <3>. QED
      BY <2>2, <3>3, AddHandledIsSound, Zenon
  <2>. QED
    BY <2>1, <2>2, Zenon
<1>. QED
  BY <1>2, <1>4, <1>5, <1>6, Zenon

(* check_empty_space leaves the indices inside the block, and the bytes    *)
(* where they are unless it moves them.                                    *)
LEMMA CheckIsSound ==
    ASSUME NEW S, Junk \in S, NEW b \in Sound(S)
    PROVE  /\ CheckEmptySpace(b) \in Sound(S)
           /\ ~Compacts(b) => CheckEmptySpace(b) = b
<1>1. /\ b.cache \in Seq(S) /\ Allo(b) \in Nat /\ Allo(b) = Len(b.cache)
      /\ b.str \in Nat /\ b.end \in Int /\ b.end >= -1 /\ b.end < Allo(b)
      /\ UnhandledNum(b) \in Nat
      /\ b.str <= b.end \/ (b.str = 0 /\ b.end = -1)
      /\ Unhandled(b) \in Seq(S) /\ Len(Unhandled(b)) = UnhandledNum(b)
  BY SoundFacts
<1>2. /\ Allo(b) % Align = 0
      /\ b \in [cache : Seq(S), str : Nat, end : Nat \union {-1}]
  BY DEF Sound
<1>3. CASE ~Compacts(b)
  BY <1>3 DEF CheckEmptySpace
<1>4. CASE Compacts(b)
  <2>0. PICK l \in Nat, str \in Nat, end \in Int, num \in Nat :
           l = Allo(b) /\ str = b.str /\ end = b.end /\ num = UnhandledNum(b)
    BY <1>1
  <2>1. str > 0 /\ str <= end /\ end < l /\ num = end - str + 1
    <3>1. l \div 2 >= 0 /\ l \div 2 \in Int
      BY <2>0
    <3>2. str > l \div 2
      BY <1>4, <2>0 DEF Compacts
    <3>3. str > 0
      BY <3>1, <3>2
    <3>. QED
      BY <1>1, <2>0, <3>3 DEF UnhandledNum
  <2>a. PICK c \in Seq(S), u \in Seq(S) : c = b.cache /\ u = Unhandled(b)
    BY <1>1
  <2>b. PICK r, y, q : /\ r = SubSeq(c, num + 1, end + 1)
                       /\ y = u \o r /\ q = y \o <<Junk>>
    OBVIOUS
  <2>c. PICK z, cache : z = q \o SubSeq(c, end + 3, l) /\ cache = SubSeq(z, 1, l)
    OBVIOUS
  <2>2. /\ c = b.cache /\ u = Unhandled(b) /\ r = SubSeq(c, num + 1, end + 1)
        /\ y = u \o r /\ q = y \o <<Junk>>
        /\ z = q \o SubSeq(c, end + 3, l)
        /\ cache = SubSeq(z, 1, l)
    BY <2>a, <2>b, <2>c, Zenon
  <2>3. CheckEmptySpace(b) = [cache |-> cache, str |-> 0, end |-> end]
    <3>1. CheckEmptySpace(b) = [b EXCEPT !.str = 0, !.cache = cache]
      BY <1>1, <1>4, <2>0, <2>2, Zenon DEF CheckEmptySpace
    <3>. QED
      BY <1>2, <2>0, <3>1
  <2>4. Len(c) = l /\ u \in Seq(S) /\ Len(u) = num
    BY <1>1, <2>0, <2>2
  <2>5. r \in Seq(S) /\ Len(r) = end + 1 - num
    <3>1. PICK j \in Int : j = end + 1
      BY <2>0
    <3>2. num <= j /\ j <= Len(c)
      BY <2>1, <2>4, <3>1
    <3>3. SubSeq(c, num + 1, j) \in Seq(S) /\ Len(SubSeq(c, num + 1, j)) = j - num
      BY <3>2, Between
    <3>4. r = SubSeq(c, num + 1, j)
      BY <2>2, <3>1
    <3>5. r \in Seq(S) /\ Len(r) = j - num
      BY <3>3, <3>4, Zenon
    <3>. QED
      BY <3>1, <3>5
  <2>6. y \in Seq(S) /\ Len(y) = end + 1
    <3>1. y = u \o r
      BY <2>2
    <3>2. y \in Seq(S) /\ Len(y) = Len(u) + Len(r)
      BY <2>4, <2>5, <3>1, Concatenated
    <3>. QED
      BY <2>4, <2>5, <3>2
  <2>7. q \in Seq(S) /\ Len(q) = end + 2
    <3>1. PICK t : t = <<Junk>>
      OBVIOUS
    <3>2. t \in Seq(S) /\ Len(t) = 1
      BY <3>1
    <3>3. y \in Seq(S) /\ t \in Seq(S) /\ q = y \o t
      BY <2>2, <2>6, <3>1, <3>2, Zenon
    <3>4. q \in Seq(S) /\ Len(q) = Len(y) + Len(t)
      BY <3>3, Concatenated
    <3>. QED
      BY <2>6, <3>2, <3>4
  <2>8. z \in Seq(S) /\ Len(z) \in Nat /\ Len(z) >= l
    <3>0. end + 3 \in Nat \ {0}
      BY <2>1
    <3>1a. PICK m \in Nat \ {0} : m = end + 3
      BY <3>0
    <3>1b. PICK w : w = SubSeq(c, m, l)
      OBVIOUS
    <3>1. m = end + 3 /\ w = SubSeq(c, m, l)
      BY <3>1a, <3>1b, Zenon
    <3>2. w \in Seq(S) /\ Len(w) = IF m <= l THEN l - m + 1 ELSE 0
      <4>1. /\ SubSeq(c, m, l) \in Seq(S)
            /\ Len(SubSeq(c, m, l)) = IF m <= l THEN l - m + 1 ELSE 0
        BY <2>4, PartOf
      <4>. QED
        BY <3>1, <4>1, Zenon
    <3>3. q \in Seq(S) /\ w \in Seq(S) /\ z = q \o w
      BY <2>2, <2>7, <3>1, <3>2, Zenon
    <3>4. z \in Seq(S) /\ Len(z) = Len(q) + Len(w)
      BY <3>3, Concatenated
    <3>. QED
      BY <2>1, <2>7, <3>1, <3>2, <3>4
  <2>9. cache \in Seq(S) /\ Len(cache) = l
    <3>1. PICK m \in Nat \ {0} : m = 1
      OBVIOUS
    <3>2. SubSeq(z, m, l) \in Seq(S) /\ Len(SubSeq(z, m, l)) = IF m <= l THEN l - m + 1 ELSE 0
      BY <2>8, PartOf
    <3>3. cache = SubSeq(z, m, l)
      BY <2>2, <3>1
    <3>4. cache \in Seq(S) /\ Len(cache) = IF m <= l THEN l - m + 1 ELSE 0
      BY <3>2, <3>3, Zenon
    <3>. QED
      BY <3>1, <3>4
  <2>10. CheckEmptySpace(b) \in Sound(S)
    <3>1. Len(cache) % Align = 0
      BY <1>2, <2>0, <2>9
    <3>2. 0 \in Nat /\ 0 <= end /\ end >= -1 /\ end < Len(cache)
      BY <2>1, <2>9
    <3>. QED
      BY <2>3, <2>9, <3>1, <3>2, MakeSound
  <2>. QED
    BY <1>4, <2>10
<1>. QED
  BY <1>3, <1>4, Zenon
-----------------------------------------------------------------------------
LEMMA LeastNumber ==
    ASSUME NEW S \in SUBSET Nat, S # {}
    PROVE  \E m \in S : \A n \in S : m <= n
<1>. DEFINE R == OpToRel(<, Nat)
<1>1. IsWellFoundedOn(R, Nat)
  BY NatLessThanWellFounded
<1>2. \A m, n \in Nat : m < n => <<m, n>> \in R
  BY Zenon DEF OpToRel
<1>. HIDE DEF R
<1>3. PICK m \in S : \A n \in S : ~(<<n, m>> \in R)
  BY <1>1, WFMin
<1>4. \A n \in S : ~(n < m)
  BY <1>2, <1>3
<1>. QED
  BY <1>3, <1>4

(* The loop of read_callback: before the first turn, and after a turn *)
Before(b) == [read |-> b, write |-> writeBuffer, crashed |-> FALSE]
Turn(b, s, k) == IF k \in Flags(Unhandled(b)) THEN Answer(s, k) ELSE s
Turns(b, n, f) == [k \in 0 .. n |-> IF k = 0 THEN Before(b) ELSE Turn(b, f[k - 1], k)]

LEMMA LoopTurns ==
    ASSUME NEW b
    PROVE  Loop(b) = CHOOSE f : f = Turns(b, Len(Unhandled(b)), f)
BY Zenon DEF Loop, Turns, Turn, Before

(* The function of the loop exists for any number of turns. *)
LEMMA TurnsExist ==
    ASSUME NEW b, NEW n \in Nat
    PROVE  \E f : f = Turns(b, n, f)
<1>. DEFINE Without == {m \in Nat : ~ \E f : f = Turns(b, m, f)}
<1>. SUFFICES Without = {}
  OBVIOUS
<1>. SUFFICES ASSUME Without # {} PROVE FALSE
  OBVIOUS
<1>1. PICK m \in Without : \A l \in Without : m <= l
  BY LeastNumber
<1>2. m # 0
  <2>. DEFINE f == [k \in 0 .. 0 |-> Before(b)]
  <2>1. f = Turns(b, 0, f)
    BY DEF Turns
  <2>. QED
    BY <2>1
<1>3. PICK l \in Nat : m = l + 1
  BY <1>2
<1>4. PICK f : f = Turns(b, l, f)
  BY <1>1, <1>3
<1>5. \A k \in 0 .. l : f[k] = IF k = 0 THEN Before(b) ELSE Turn(b, f[k - 1], k)
  BY <1>4, Zenon DEF Turns
<1>. DEFINE g == [k \in 0 .. m |-> IF k = m THEN Turn(b, f[l], m) ELSE f[k]]
<1>6. ASSUME NEW k \in 0 .. m
      PROVE  g[k] = IF k = 0 THEN Before(b) ELSE Turn(b, g[k - 1], k)
  <2>1. CASE k = m
    <3>1. l \in 0 .. m /\ l # m /\ k - 1 = l
      BY <1>3, <2>1
    <3>2. g[l] = f[l] /\ g[k] = Turn(b, f[l], m)
      BY <2>1, <3>1
    <3>. QED
      BY <1>2, <2>1, <3>1, <3>2
  <2>2. CASE k # m
    <3>1. k \in 0 .. l /\ g[k] = f[k]
      BY <1>3, <2>2
    <3>2. k # 0 => k - 1 \in 0 .. m /\ k - 1 # m /\ g[k - 1] = f[k - 1]
      BY <1>3, <2>2
    <3>3. f[k] = IF k = 0 THEN Before(b) ELSE Turn(b, f[k - 1], k)
      BY <1>5, <3>1, Zenon
    <3>. QED
      BY <3>1, <3>2, <3>3, Zenon
  <2>. QED
    BY <2>1, <2>2, Zenon
<1>7. g = Turns(b, m, g)
  <2>1. DOMAIN g = 0 .. m /\ g = [k \in 0 .. m |-> g[k]]
    OBVIOUS
  <2>. HIDE DEF g
  <2>. QED
    BY <1>6, <2>1, Zenon DEF Turns
<1>. HIDE DEF g
<1>. QED
  BY <1>7, Zenon

(* What holds before the loop, and after a turn if it held before, holds   *)
(* in the end.                                                             *)
LEMMA LoopInvariant ==
    ASSUME NEW b, NEW n \in Nat, n = Len(Unhandled(b)), NEW I, Before(b) \in I[0],
           \A k \in 1 .. n : \A s \in I[k - 1] : Turn(b, s, k) \in I[k]
    PROVE  (\A k \in 0 .. n : Loop(b)[k] \in I[k]) /\ Answered(b) \in I[n]
<1>1. PICK f : f = CHOOSE g : g = Turns(b, n, g)
  OBVIOUS
<1>2. f = Turns(b, n, f)
  BY <1>1, TurnsExist, Zenon
<1>3. Loop(b) = f /\ Answered(b) = f[n]
  BY <1>1, LoopTurns, Zenon DEF Answered
<1>4. \A k \in 0 .. n : f[k] = IF k = 0 THEN Before(b) ELSE Turn(b, f[k - 1], k)
  BY <1>2, Zenon DEF Turns
<1>. DEFINE Outside == {k \in 0 .. n : f[k] \notin I[k]}
<1>5. Outside = {}
  <2>. SUFFICES ASSUME Outside # {} PROVE FALSE
    OBVIOUS
  <2>1. PICK m \in Outside : \A l \in Outside : m <= l
    <3>1. Outside \in SUBSET Nat
      OBVIOUS
    <3>. QED
      BY <3>1, LeastNumber
  <2>2. f[m] \notin I[m] /\ m \in 0 .. n
    OBVIOUS
  <2>3. m # 0
    BY <1>4, <2>2
  <2>4. m - 1 \in 0 .. n /\ m - 1 \notin Outside /\ m \in 1 .. n
    BY <2>1, <2>2, <2>3
  <2>5. f[m - 1] \in I[m - 1]
    BY <2>4
  <2>6. Turn(b, f[m - 1], m) \in I[m]
    BY <2>4, <2>5
  <2>. QED
    BY <1>4, <2>2, <2>3, <2>6
<1>6. n \in 0 .. n
  OBVIOUS
<1>. QED
  BY <1>3, <1>5, <1>6

Pair(S) == [read : Sound(S), write : Sound(S), crashed : BOOLEAN]

LEMMA AnswerIsSound ==
    ASSUME NEW S, Junk \in S, NEW s \in Pair(S), NEW k \in Nat
    PROVE  Answer(s, k) \in Pair(S)
<1>1. s.read \in Sound(S) /\ s.write \in Sound(S) /\ s.crashed \in BOOLEAN
  BY DEF Pair
<1>2. FirstBytes(s.read, k) \in Seq(S)
  BY <1>1, FirstBytesFacts
<1>3. AddData(s.write, FirstBytes(s.read, k)) \in Sound(S)
  BY <1>1, <1>2, AddDataIsSound, Zenon
<1>4. AddHandled(s.read, k) \in Sound(S)
  BY <1>1, AddHandledIsSound, Zenon
<1>. QED
  BY <1>1, <1>3, <1>4 DEF Answer, Pair

LEMMA AnsweredIsSound ==
    ASSUME NEW S, Junk \in S, NEW b \in Sound(S), writeBuffer \in Sound(S)
    PROVE  /\ Answered(b) \in Pair(S)
           /\ \A k \in 0 .. Len(Unhandled(b)) : Loop(b)[k] \in Pair(S)
<1>1. PICK n \in Nat : n = Len(Unhandled(b))
  <2>1. Len(Unhandled(b)) \in Nat
    BY SoundFacts
  <2>. QED
    BY <2>1
<1>. DEFINE I == [k \in 0 .. n |-> Pair(S)]
<1>2. Before(b) \in I[0]
  BY DEF Before, Pair
<1>3. ASSUME NEW k \in 1 .. n, NEW s \in I[k - 1] PROVE Turn(b, s, k) \in I[k]
  <2>1. k \in Nat /\ s \in Pair(S)
    OBVIOUS
  <2>2. Answer(s, k) \in Pair(S)
    BY <2>1, AnswerIsSound
  <2>3. Turn(b, s, k) \in Pair(S)
    BY <2>1, <2>2, Zenon DEF Turn
  <2>. QED
    BY <2>3
<1>4. \A k \in 0 .. n : I[k] = Pair(S)
  OBVIOUS
<1>6. n \in 0 .. n
  OBVIOUS
<1>. HIDE DEF I
<1>5. (\A k \in 0 .. n : Loop(b)[k] \in I[k]) /\ Answered(b) \in I[n]
  BY <1>1, <1>2, <1>3, LoopInvariant, Zenon
<1>. QED
  BY <1>1, <1>4, <1>5, <1>6, Zenon

(* With no line to answer nothing changes. *)
LEMMA NoLine ==
    ASSUME NEW b, NEW n \in Nat, n = Len(Unhandled(b)), Flags(Unhandled(b)) = {}
    PROVE  Answered(b) = Before(b) /\ \A k \in 0 .. n : Loop(b)[k] = Before(b)
<1>. DEFINE I == [k \in 0 .. n |-> {Before(b)}]
<1>1. Before(b) \in I[0]
  OBVIOUS
<1>2. ASSUME NEW k \in 1 .. n, NEW s \in I[k - 1] PROVE Turn(b, s, k) \in I[k]
  <2>1. s = Before(b)
    OBVIOUS
  <2>2. Turn(b, s, k) = s
    BY Zenon DEF Turn
  <2>. QED
    BY <2>1, <2>2
<1>3. n \in 0 .. n /\ \A k \in 0 .. n : I[k] = {Before(b)}
  OBVIOUS
<1>. HIDE DEF I
<1>4. (\A k \in 0 .. n : Loop(b)[k] \in I[k]) /\ Answered(b) \in I[n]
  BY <1>1, <1>2, LoopInvariant, Zenon
<1>. QED
  BY <1>3, <1>4

(* With one line its bytes go from the one buffer to the other. *)
LEMMA OneLine ==
    ASSUME NEW b, NEW n \in Nat, n = Len(Unhandled(b)),
           NEW flag \in 1 .. n, Flags(Unhandled(b)) = {flag}
    PROVE  /\ Answered(b) = Answer(Before(b), flag)
           /\ \A k \in 0 .. n : Loop(b)[k] = IF k < flag THEN Before(b)
                                             ELSE Answer(Before(b), flag)
<1>. DEFINE I == [k \in 0 .. n |-> {IF k < flag THEN Before(b)
                                               ELSE Answer(Before(b), flag)}]
<1>1. Before(b) \in I[0]
  OBVIOUS
<1>2. ASSUME NEW k \in 1 .. n, NEW s \in I[k - 1] PROVE Turn(b, s, k) \in I[k]
  <2>1. k - 1 \in 0 .. n /\ k \in 0 .. n
    OBVIOUS
  <2>2. s = IF k - 1 < flag THEN Before(b) ELSE Answer(Before(b), flag)
    BY <2>1
  <2>3. CASE k = flag
    <3>1. s = Before(b)
      BY <2>2, <2>3
    <3>2. Turn(b, s, k) = Answer(Before(b), flag)
      BY <2>3, <3>1, Zenon DEF Turn
    <3>. QED
      BY <2>1, <2>3, <3>2
  <2>4. CASE k # flag
    <3>1. Turn(b, s, k) = s
      BY <2>4, Zenon DEF Turn
    <3>2. k - 1 < flag <=> k < flag
      BY <2>4
    <3>. QED
      BY <2>1, <2>2, <3>1, <3>2
  <2>. QED
    BY <2>3, <2>4, Zenon
<1>3. /\ n \in 0 .. n /\ ~(n < flag)
      /\ \A k \in 0 .. n : I[k] = {IF k < flag THEN Before(b)
                                    ELSE Answer(Before(b), flag)}
  OBVIOUS
<1>. HIDE DEF I
<1>4. (\A k \in 0 .. n : Loop(b)[k] \in I[k]) /\ Answered(b) \in I[n]
  BY <1>1, <1>2, LoopInvariant, Zenon
<1>. QED
  BY <1>3, <1>4
-----------------------------------------------------------------------------
LEMMA MinOfTwo ==
    ASSUME NEW a \in Int, NEW b \in Int
    PROVE  Min({a, b}) \in {a, b} /\ Min({a, b}) <= a /\ Min({a, b}) <= b
<1>1. \E x \in {a, b} : \A y \in {a, b} : x <= y
  <2>1. CASE a <= b
    BY <2>1
  <2>2. CASE b <= a
    BY <2>2
  <2>. QED
    BY <2>1, <2>2
<1>2. Min({a, b}) \in {a, b} /\ \A y \in {a, b} : Min({a, b}) <= y
  BY <1>1, Zenon DEF Min
<1>. QED
  BY <1>2

(* readn puts the first bytes of the socket behind what is unhandled. *)
LEMMA FilledFacts ==
    ASSUME NEW S, Junk \in S, readBuffer \in Sound(S), toServer \in Seq(S)
    PROVE  /\ Filled \in Sound(S)
           /\ Filled.end - readBuffer.end \in Nat
           /\ Filled.end - readBuffer.end <= Len(toServer)
           /\ Unhandled(Filled)
                 = Unhandled(readBuffer)
                      \o SubSeq(toServer, 1, Filled.end - readBuffer.end)
<1>1. PICK b : b = IF EmptySize(readBuffer) < MinRead
                   THEN FreshCache(readBuffer, MinRead) ELSE readBuffer
  OBVIOUS
<1>2. b \in Sound(S) /\ b.end = readBuffer.end /\ Unhandled(b) = Unhandled(readBuffer)
  <2>1. MinRead \in Nat
    BY ConstantFacts
  <2>2. /\ FreshCache(readBuffer, MinRead) \in Sound(S)
        /\ FreshCache(readBuffer, MinRead).end = readBuffer.end
        /\ Unhandled(FreshCache(readBuffer, MinRead)) = Unhandled(readBuffer)
    BY <2>1, FreshIsSound, Zenon
  <2>. QED
    BY <1>1, <2>2, Zenon
<1>3. PICK l \in Nat, room \in Nat, end \in Int :
         l = Len(toServer) /\ room = EmptySize(b) /\ end = readBuffer.end
  <2>1. Len(toServer) \in Nat
    BY LenProperties
  <2>2. EmptySize(b) \in Nat /\ b.end \in Int
    BY <1>2, SoundFacts
  <2>. QED
    BY <1>2, <2>1, <2>2
<1>4. PICK m \in Nat : m = Min({l, room}) /\ m <= l /\ m <= room
  <2>1. Min({l, room}) \in {l, room} /\ Min({l, room}) <= l /\ Min({l, room}) <= room
    BY MinOfTwo
  <2>. QED
    BY <2>1
<1>5. PICK bytes : bytes = SubSeq(toServer, 1, m)
  OBVIOUS
<1>6. Filled = Store(b, bytes)
  BY <1>1, <1>3, <1>4, <1>5, Zenon DEF Filled
<1>7. bytes \in Seq(S) /\ Len(bytes) = m
  <2>1. m <= Len(toServer)
    BY <1>3, <1>4
  <2>. QED
    BY <1>5, <2>1, SplitAt
<1>8. Len(bytes) <= EmptySize(b)
  BY <1>3, <1>4, <1>7
<1>9. /\ Store(b, bytes) \in Sound(S)
      /\ Store(b, bytes).end = b.end + Len(bytes)
      /\ Unhandled(Store(b, bytes)) = Unhandled(b) \o bytes
  BY <1>2, <1>7, <1>8, StoreIsSound, Zenon
<1>10. Filled.end - readBuffer.end = m
  BY <1>2, <1>3, <1>6, <1>7, <1>9
<1>11. m <= Len(toServer)
  BY <1>3, <1>4
<1>. QED
  BY <1>2, <1>5, <1>6, <1>9, <1>10, <1>11, Zenon

(* Unless something slips, the loop moves bytes from the front of one      *)
(* buffer to the back of the other, and leaves less than a line.           *)
LEMMA AnsweredExactly ==
    ASSUME NEW S, Junk \in S, NEW b \in Sound(S), writeBuffer \in Sound(S),
           \A f, g \in Flags(Unhandled(b)) : f = g,
           \A f \in Flags(Unhandled(b)) : b.str + f # b.end,
           NEW s, s = Answered(b)
    PROVE  /\ ~s.crashed
           /\ Unhandled(s.write) \o Unhandled(s.read)
                 = Unhandled(writeBuffer) \o Unhandled(b)
           /\ \A k \in DOMAIN Unhandled(s.read) : Unhandled(s.read)[k] \notin newlines
<1>1. /\ Unhandled(b) \in Seq(S) /\ Len(Unhandled(b)) = UnhandledNum(b)
      /\ UnhandledNum(b) \in Nat
  BY SoundFacts
<1>2. PICK n \in Nat, u \in Seq(S) : n = Len(u) /\ u = Unhandled(b)
  BY <1>1
<1>3. Flags(u) = {i \in 1 .. n : u[i] \in newlines}
  BY <1>2, Zenon DEF Flags
<1>4. CASE Flags(u) = {}
  <2>1. s = Before(b)
    BY <1>2, <1>4, NoLine, Zenon
  <2>2. s.read = b /\ s.write = writeBuffer /\ s.crashed = FALSE
    BY <2>1 DEF Before
  <2>3. \A k \in DOMAIN u : u[k] \notin newlines
    BY <1>2, <1>3, <1>4
  <2>. QED
    BY <1>2, <2>2, <2>3, Zenon
<1>5. CASE Flags(u) # {}
  <2>1. PICK f : f \in Flags(u)
    BY <1>5
  <2>2. f \in 1 .. n /\ Flags(u) = {f}
    BY <1>2, <1>3, <2>1
  <2>3. s = Answer(Before(b), f)
    BY <1>2, <2>2, OneLine, Zenon
  <2>4. b # Null
    <3>1. Unhandled(Null) = <<>>
      BY NullIsSound
    <3>. QED
      BY <1>2, <2>2, <3>1
  <2>5. /\ s.crashed = FALSE /\ s.read = AddHandled(b, f)
        /\ s.write = AddData(writeBuffer, FirstBytes(b, f))
    BY <2>3, <2>4 DEF Answer, Before
  <2>6. f \in Nat /\ f <= UnhandledNum(b) /\ b.str + f # b.end
    BY <1>1, <1>2, <2>1, <2>2
  <2>7. FirstBytes(b, f) \in Seq(S) /\ Len(FirstBytes(b, f)) = f
    BY <2>6, FirstBytesFacts
  <2>8. Unhandled(s.write) = Unhandled(writeBuffer) \o FirstBytes(b, f)
    BY <2>5, <2>7, AddDataIsSound, Zenon
  <2>9. u = FirstBytes(b, f) \o Unhandled(s.read)
    BY <1>2, <2>5, <2>6, HandledAndLeft, Zenon
  <2>10. AddHandled(b, f) \in Sound(S)
    BY <2>6, AddHandledIsSound
  <2>11. Unhandled(s.read) \in Seq(S) /\ Unhandled(writeBuffer) \in Seq(S)
    BY <2>5, <2>10, SoundFacts
  <2>12. Unhandled(s.write) \o Unhandled(s.read) = Unhandled(writeBuffer) \o u
    <3>0. PICK x : x = Unhandled(s.write)
      OBVIOUS
    <3>1a. PICK p \in Seq(S), q \in Seq(S), r \in Seq(S) :
             /\ p = Unhandled(writeBuffer) /\ q = FirstBytes(b, f)
             /\ r = Unhandled(s.read)
      BY <2>7, <2>11
    <3>1. /\ p = Unhandled(writeBuffer) /\ q = FirstBytes(b, f)
          /\ r = Unhandled(s.read) /\ x = Unhandled(s.write)
      BY <3>0, <3>1a, Zenon
    <3>2. x = p \o q /\ u = q \o r
      BY <2>8, <2>9, <3>1, Zenon
    <3>3. x \o r = p \o u
      BY <3>2, Regroup
    <3>. QED
      BY <3>1, <3>3, Zenon
  <2>13. \A k \in DOMAIN Unhandled(s.read) : Unhandled(s.read)[k] \notin newlines
    <3>1. PICK p \in Seq(S), q \in Seq(S) :
             p = FirstBytes(b, f) /\ q = Unhandled(s.read) /\ u = p \o q
      BY <2>7, <2>9, <2>11, Zenon
    <3>2. /\ Len(u) = Len(p) + Len(q)
          /\ \A i \in 1 .. Len(p) + Len(q) :
                u[i] = IF i <= Len(p) THEN p[i] ELSE q[i - Len(p)]
      BY <3>1, Concatenated
    <3>3. Len(p) = f /\ Len(q) \in Nat
      BY <2>7, <3>1, LenProperties
    <3>4. ASSUME NEW k \in 1 .. Len(q) PROVE q[k] \notin newlines
      <4>1. f + k \in 1 .. n /\ f + k # f /\ f + k > f /\ (f + k) - f = k
        BY <1>2, <2>6, <3>2, <3>3
      <4>2. u[f + k] = q[k]
        BY <1>2, <2>6, <3>2, <3>3, <4>1
      <4>. QED
        BY <1>3, <2>2, <4>1, <4>2
    <3>5. DOMAIN q = 1 .. Len(q)
      BY LenProperties
    <3>. QED
      BY <3>1, <3>4, <3>5
  <2>. QED
    BY <1>2, <2>5, <2>12, <2>13, Zenon
<1>. QED
  BY <1>4, <1>5, Zenon
-----------------------------------------------------------------------------
(* Concatenation, as an operator of which no more is known than this: the  *)
(* provers are slow at finding what it means.                              *)
Then(p, q) == p \o q

LEMMA ThenIsSeq ==
    ASSUME NEW S, NEW p \in Seq(S), NEW q \in Seq(S)
    PROVE  Then(p, q) \in Seq(S)
BY ConcatProperties DEF Then

LEMMA ThenAssociative ==
    ASSUME NEW S, NEW p \in Seq(S), NEW q \in Seq(S), NEW r \in Seq(S)
    PROVE  Then(Then(p, q), r) = Then(p, Then(q, r))
<1>1. (p \o q) \o r = p \o (q \o r)
  BY ConcatAssociative
<1>. QED
  BY <1>1, Zenon DEF Then

Chain(r, t, w, u, s) == Then(Then(Then(Then(r, t), w), u), s)

(* a moves from the socket to the read buffer, then some bytes to the      *)
(* write buffer, which is w1 for a while, and some of those to the client. *)
Move(S, a, w1, r, t, w, u, s, t2, w2, u1, z) ==
    /\ {a, w1, r, t, w, u, t2, w2, u1, z} \subseteq Seq(S)
    /\ s = Then(a, z) /\ Then(w1, u1) = Then(w, Then(u, a)) /\ Then(t2, w2) = Then(t, w1)

(* Bytes that move along the chain leave the chain as it is. *)
LEMMA ChainMoves ==
    ASSUME NEW S, NEW a, NEW w1, NEW r, NEW t, NEW w, NEW u, NEW s,
           NEW t2, NEW w2, NEW u1, NEW z,
           Move(S, a, w1, r, t, w, u, s, t2, w2, u1, z)
    PROVE  Chain(r, t2, w2, u1, z) = Chain(r, t, w, u, s)
<1>0. s = Then(a, z) /\ Then(w1, u1) = Then(w, Then(u, a)) /\ Then(t2, w2) = Then(t, w1)
  BY DEF Move
<1>a. /\ a \in Seq(S) /\ w1 \in Seq(S) /\ r \in Seq(S) /\ t \in Seq(S) /\ w \in Seq(S)
      /\ u \in Seq(S) /\ t2 \in Seq(S) /\ w2 \in Seq(S) /\ u1 \in Seq(S) /\ z \in Seq(S)
  BY DEF Move
<1>1. PICK rt \in Seq(S), rtw \in Seq(S), rtwu \in Seq(S) :
         rt = Then(r, t) /\ rtw = Then(rt, w) /\ rtwu = Then(rtw, u)
  BY <1>a, ThenIsSeq
<1>2. Then(u, a) \in Seq(S)
  BY <1>a, ThenIsSeq
<1>3. Then(Then(r, t2), w2) = Then(rt, w1)
  <2>1. Then(Then(r, t2), w2) = Then(r, Then(t2, w2))
    BY <1>a, ThenAssociative
  <2>2. Then(rt, w1) = Then(r, Then(t, w1))
    BY <1>1, <1>a, ThenAssociative
  <2>. QED
    BY <1>0, <2>1, <2>2, Zenon
<1>4. Then(Then(rt, w1), u1) = Then(rtwu, a)
  <2>1. Then(Then(rt, w1), u1) = Then(rt, Then(w1, u1))
    BY <1>a, ThenAssociative
  <2>2. Then(Then(rt, w), Then(u, a)) = Then(rt, Then(w, Then(u, a)))
    BY <1>2, <1>a, ThenAssociative
  <2>3. Then(Then(rtw, u), a) = Then(rtw, Then(u, a))
    BY <1>a, ThenAssociative
  <2>. QED
    BY <1>0, <1>1, <2>1, <2>2, <2>3, Zenon
<1>5. Then(Then(rtwu, a), z) = Then(rtwu, Then(a, z))
  BY <1>a, ThenAssociative
<1>. QED
  BY <1>0, <1>1, <1>3, <1>4, <1>5, Zenon DEF Chain

(* What is first in an exact chain is exact. *)
LEMMA FirstIsExact ==
    ASSUME NEW S, NEW r \in Seq(S), NEW t \in Seq(S), NEW w \in Seq(S),
           NEW u \in Seq(S), NEW s \in Seq(S), NEW n \in Nat,
           Chain(r, t, w, u, s) = [i \in 1 .. n |-> i]
    PROVE  Then(r, t) = [i \in 1 .. Len(Then(r, t)) |-> i]
<1>1. PICK rt \in Seq(S), wu \in Seq(S), q \in Seq(S) :
         rt = Then(r, t) /\ wu = Then(w, u) /\ q = Then(wu, s)
  BY ThenIsSeq
<1>2. Then(rt, q) = [i \in 1 .. n |-> i]
  <2>1. Then(Then(rt, w), u) = Then(rt, wu)
    BY <1>1, ThenAssociative
  <2>2. Then(Then(rt, wu), s) = Then(rt, q)
    BY <1>1, ThenAssociative
  <2>. QED
    BY <1>1, <2>1, <2>2, Zenon DEF Chain
<1>3. rt \o q = [i \in 1 .. n |-> i]
  BY <1>2, Zenon DEF Then
<1>4. rt = [i \in 1 .. Len(rt) |-> i]
  BY <1>3, CountsPrefix
<1>. QED
  BY <1>1, <1>4, Zenon
-----------------------------------------------------------------------------
Bytes(n) == (1 .. n) \union {Junk}

LEMMA MoreBytes ==
    ASSUME NEW n \in Nat
    PROVE  Sound(Bytes(n)) \subseteq Sound(Bytes(n + 1))
<1>1. Bytes(n) \subseteq Bytes(n + 1)
  BY DEF Bytes
<1>2. Seq(Bytes(n)) \subseteq Seq(Bytes(n + 1))
  BY <1>1, SeqMonotonic, Zenon
<1>. QED
  BY <1>2 DEF Sound

(* The type invariant, with both buffers sound. *)
Typed ==
    /\ readBuffer \in Sound(Bytes(sent)) /\ writeBuffer \in Sound(Bytes(sent))
    /\ sockType \in {"READ", "WRITE"}
    /\ server \in {"open", "closed", "crashed"}
    /\ toServer \in Seq(1 .. sent)
    /\ toClient \in Seq(Bytes(sent)) /\ Len(toClient) <= SndBuf
    /\ sent \in 0 .. MaxBytes
    /\ newlines \subseteq 1 .. sent
    /\ received \in Seq(Bytes(sent))
    /\ slipped \in BOOLEAN

(* Between two callbacks both indices are in the block, and a buffer is    *)
(* empty or str is not past end.                                           *)
IndicesInBlock ==
    \A b \in {readBuffer, writeBuffer} :
       /\ b.end < Allo(b)
       /\ b.str <= b.end \/ (b.str = 0 /\ b.end = -1)

Accesses == outside \subseteq {"store", "scan", "line", "zero", "send"}

LEMMA TypedIsType == Typed /\ Accesses <=> EchoTypeOK /\ IndicesInBlock
<1>1. ASSUME NEW b
      PROVE  b \in Sound(Bytes(sent)) <=>
                /\ BufferType(b) /\ b.end < Allo(b)
                /\ b.str <= b.end \/ (b.str = 0 /\ b.end = -1)
  BY Zenon DEF Sound, BufferType, Bytes
<1>. QED
  BY <1>1, Zenon DEF Typed, EchoTypeOK, IndicesInBlock, Accesses, Bytes

(* Where every byte is, as one chain. *)
Conserved ==
    server = "open" /\ ~slipped =>
       Chain(received, toClient, Unhandled(writeBuffer), Unhandled(readBuffer),
             toServer) = [i \in 1 .. sent |-> i]

LEMMA ConservedIsConserved == Conserved <=> BytesConserved
BY Zenon DEF Conserved, BytesConserved, Chain, Then

(* While nothing has slipped, what the client has got is exact. *)
Exact == ~slipped =>
    received \o toClient = [i \in 1 .. Len(received \o toClient) |-> i]

(* What is unhandled when a callback ends is less than a line. *)
LessThanALine == ~slipped =>
    \A k \in DOMAIN Unhandled(readBuffer) : Unhandled(readBuffer)[k] \notin newlines

LEMMA ExactIsExact == Exact /\ LessThanALine <=> EchoExact
BY Zenon DEF Exact, LessThanALine, EchoExact

Inductive == Typed /\ Conserved /\ Exact /\ LessThanALine

(* The inductive invariant, from the properties. *)
EchoIInv ==
    /\ EchoTypeOK
    /\ IndicesInBlock
    /\ BytesConserved
    /\ EchoExact
    /\ Accesses /\ AccessesInBlock

LEMMA InductiveIsIInv == Inductive /\ Accesses /\ AccessesInBlock <=> EchoIInv
BY TypedIsType, ConservedIsConserved, ExactIsExact, Zenon DEF Inductive, EchoIInv

(* The sequences of a state *)
LEMMA Sequences ==
    ASSUME Typed
    PROVE  /\ sent \in Nat /\ Junk \in Bytes(sent)
           /\ received \in Seq(Bytes(sent)) /\ toClient \in Seq(Bytes(sent))
           /\ toServer \in Seq(Bytes(sent))
           /\ readBuffer \in Sound(Bytes(sent)) /\ writeBuffer \in Sound(Bytes(sent))
           /\ Unhandled(readBuffer) \in Seq(Bytes(sent))
           /\ Unhandled(writeBuffer) \in Seq(Bytes(sent))
<1>1. /\ readBuffer \in Sound(Bytes(sent)) /\ writeBuffer \in Sound(Bytes(sent))
      /\ received \in Seq(Bytes(sent)) /\ toClient \in Seq(Bytes(sent))
      /\ toServer \in Seq(1 .. sent) /\ sent \in 0 .. MaxBytes
  BY DEF Typed
<1>2. Unhandled(readBuffer) \in Seq(Bytes(sent)) /\ Unhandled(writeBuffer) \in Seq(Bytes(sent))
  BY <1>1, SoundFacts, Zenon
<1>3. 1 .. sent \subseteq Bytes(sent) /\ Junk \in Bytes(sent)
  BY DEF Bytes
<1>4. toServer \in Seq(Bytes(sent))
  BY <1>1, <1>3, SeqMonotonic
<1>5. sent \in Nat
  BY <1>1, ConstantFacts
<1>. QED
  BY <1>1, <1>2, <1>3, <1>4, <1>5, Zenon

Open == server = "open"

LEMMA ExactFollows == Typed /\ Conserved /\ Open => Exact
<1>. SUFFICES ASSUME Typed, Conserved, Open, ~slipped
              PROVE  received \o toClient
                       = [i \in 1 .. Len(received \o toClient) |-> i]
  BY Zenon DEF Exact
<1>1. Chain(received, toClient, Unhandled(writeBuffer), Unhandled(readBuffer), toServer)
        = [i \in 1 .. sent |-> i]
  BY Zenon DEF Conserved, Open
<1>s. PICK S : S = Bytes(sent)
  OBVIOUS
<1>2. PICK r \in Seq(S), t \in Seq(S), w \in Seq(S), u \in Seq(S), s \in Seq(S),
           n \in Nat :
         /\ r = received /\ t = toClient /\ w = Unhandled(writeBuffer)
         /\ u = Unhandled(readBuffer) /\ s = toServer /\ n = sent
  BY <1>s, Sequences
<1>3. Chain(r, t, w, u, s) = [i \in 1 .. n |-> i]
  BY <1>1, <1>2, Zenon
<1>4. Then(r, t) = [i \in 1 .. Len(Then(r, t)) |-> i]
  BY <1>3, FirstIsExact
<1>. QED
  BY <1>2, <1>4, Zenon DEF Then

LEMMA ExactFollowsPrime == Typed' /\ Conserved' /\ Open' => Exact'
BY ExactFollows, PTL

LEMMA InitIsInductive == EchoInit => Inductive
<1>. SUFFICES ASSUME EchoInit PROVE Inductive
  OBVIOUS
<1>. USE DEF EchoInit
<1>1. Null \in Sound(Bytes(sent)) /\ Unhandled(Null) = <<>>
  BY NullIsSound
<1>2. \A S : <<>> \in Seq(S)
  BY EmptySeq
<1>3. Typed
  <2>1. sent \in 0 .. MaxBytes /\ newlines \subseteq 1 .. sent
    BY ConstantFacts
  <2>2. Len(toClient) <= SndBuf
    BY ConstantFacts
  <2>. QED
    BY <1>1, <1>2, <2>1, <2>2, Zenon DEF Typed
<1>4. Conserved
  <2>1. <<>> \o <<>> = <<>>
    BY EmptySeq, ConcatEmptySeq
  <2>2. Chain(<<>>, <<>>, <<>>, <<>>, <<>>) = <<>>
    BY <2>1, Zenon DEF Chain, Then
  <2>3. <<>> = [i \in 1 .. 0 |-> i]
    OBVIOUS
  <2>. QED
    BY <1>1, <2>2, <2>3, Zenon DEF Conserved
<1>5. Exact
  BY <1>3, <1>4, ExactFollows DEF Open
<1>6. LessThanALine
  BY <1>1 DEF LessThanALine
<1>. QED
  BY <1>3, <1>4, <1>5, <1>6 DEF Inductive

LEMMA ClientSendsKeeps == Inductive /\ ClientSends => Inductive'
<1>. SUFFICES ASSUME Inductive, ClientSends PROVE Inductive'
  OBVIOUS
<1>1. Typed /\ Conserved /\ LessThanALine
  BY DEF Inductive
<1>2. /\ server = "open" /\ sent < MaxBytes
      /\ sent' = sent + 1
      /\ newlines' \in {newlines, newlines \union {sent + 1}}
      /\ toServer' = Append(toServer, sent + 1)
      /\ readBuffer' = readBuffer /\ writeBuffer' = writeBuffer
      /\ sockType' = sockType /\ server' = server /\ toClient' = toClient
      /\ received' = received /\ slipped' = slipped
  BY DEF ClientSends
<1>3. PICK n \in Nat : n = sent /\ n + 1 = sent'
  BY <1>1, <1>2, Sequences
<1>4. Bytes(n) \subseteq Bytes(n + 1) /\ 1 .. n \subseteq 1 .. n + 1
  BY DEF Bytes
<1>5. Typed'
  <2>1. Sound(Bytes(n)) \subseteq Sound(Bytes(n + 1))
    BY MoreBytes
  <2>2. Seq(Bytes(n)) \subseteq Seq(Bytes(n + 1)) /\ Seq(1 .. n) \subseteq Seq(1 .. n + 1)
    BY <1>4, SeqMonotonic
  <2>3. toServer' \in Seq(1 .. n + 1)
    <3>1. toServer \in Seq(1 .. n + 1) /\ n + 1 \in 1 .. n + 1
      BY <1>1, <1>3, <2>2 DEF Typed
    <3>. QED
      BY <1>2, <1>3, <3>1, AppendProperties
  <2>4. sent' \in 0 .. MaxBytes
    BY <1>1, <1>2, ConstantFacts DEF Typed
  <2>5. newlines' \subseteq 1 .. n + 1
    BY <1>1, <1>2, <1>3, <1>4 DEF Typed
  <2>. QED
    BY <1>1, <1>2, <1>3, <2>1, <2>2, <2>3, <2>4, <2>5, Zenon DEF Typed
<1>6. PICK p \in Seq(Bytes(n)) :
         p = Then(Then(Then(received, toClient), Unhandled(writeBuffer)),
                  Unhandled(readBuffer))
  BY <1>1, <1>3, Sequences, ThenIsSeq
<1>7. ~slipped => Then(p, toServer) = [i \in 1 .. n |-> i]
  BY <1>1, <1>2, <1>3, <1>6, Zenon DEF Conserved, Chain
<1>8. Conserved'
  <2>. SUFFICES ASSUME ~slipped
                PROVE  Then(p, toServer') = [i \in 1 .. n + 1 |-> i]
    BY <1>2, <1>3, <1>6, Zenon DEF Conserved, Chain
  <2>1a. PICK q \in Seq(Bytes(n)) : q = toServer
    BY <1>1, <1>3, Sequences
  <2>1b. PICK z : z = <<n + 1>>
    OBVIOUS
  <2>1. q = toServer /\ z = <<n + 1>>
    BY <2>1a, <2>1b, Zenon
  <2>2. p \o q = [i \in 1 .. n |-> i]
    BY <1>7, <2>1, Zenon DEF Then
  <2>3. (p \o q) \o z = [i \in 1 .. n + 1 |-> i]
    <3>1. PICK y : y = [i \in 1 .. n |-> i]
      OBVIOUS
    <3>2. y \o z = [i \in 1 .. n + 1 |-> i]
      BY <2>1, <3>1
    <3>. QED
      BY <2>2, <3>1, <3>2, Zenon
  <2>4. PICK T : T = Bytes(n + 1)
    OBVIOUS
  <2>5. p \in Seq(T) /\ q \in Seq(T) /\ z \in Seq(T) /\ n + 1 \in T
    <3>1. n + 1 \in T
      BY <2>4 DEF Bytes
    <3>2. Seq(Bytes(n)) \subseteq Seq(T)
      BY <1>4, <2>4, SeqMonotonic
    <3>. QED
      BY <2>1, <3>1, <3>2
  <2>6. toServer' = q \o z
    BY <1>2, <1>3, <2>1, <2>5, AppendIsConcat
  <2>7. (p \o q) \o z = p \o (q \o z)
    BY <2>5, ConcatAssociative
  <2>. QED
    BY <2>3, <2>6, <2>7, Zenon DEF Then
<1>9. LessThanALine'
  <2>. SUFFICES ASSUME ~slipped, NEW k \in DOMAIN Unhandled(readBuffer)
                PROVE  Unhandled(readBuffer)[k] \notin newlines'
    BY <1>2, Zenon DEF LessThanALine
  <2>1. Unhandled(readBuffer)[k] \notin newlines
    BY <1>1, Zenon DEF LessThanALine
  <2>2. Unhandled(readBuffer)[k] # n + 1
    <3>1. PICK x \in Seq(Bytes(n)), u \in Seq(Bytes(n)), z \in Seq(Bytes(n)) :
             /\ x = Then(Then(received, toClient), Unhandled(writeBuffer))
             /\ u = Unhandled(readBuffer) /\ z = toServer
      BY <1>1, <1>3, Sequences, ThenIsSeq
    <3>a. p \o z = [i \in 1 .. n |-> i]
      BY <1>7, <3>1, Zenon DEF Then
    <3>2. p = x \o u
      BY <1>6, <3>1, Zenon DEF Then
    <3>3. p = [i \in 1 .. Len(p) |-> i] /\ Len(p) + Len(z) = n
      BY <3>a, CountsPrefix
    <3>4. /\ Len(p) = Len(x) + Len(u)
          /\ \A i \in 1 .. Len(x) + Len(u) :
                p[i] = IF i <= Len(x) THEN x[i] ELSE u[i - Len(x)]
      BY <3>2, Concatenated
    <3>5. PICK lx \in Nat, lu \in Nat, lz \in Nat :
             lx = Len(x) /\ lu = Len(u) /\ lz = Len(z)
      BY LenProperties
    <3>6. k \in 1 .. lu
      BY <3>1, <3>5, LenProperties
    <3>7. lx + k \in 1 .. lx + lu /\ ~(lx + k <= lx) /\ (lx + k) - lx = k
      BY <3>6
    <3>8. p[lx + k] = u[k]
      BY <3>4, <3>5, <3>7
    <3>9. p[lx + k] = lx + k
      BY <3>3, <3>4, <3>5, <3>7
    <3>10. lx + k # n + 1
      BY <3>3, <3>4, <3>5, <3>6
    <3>. QED
      BY <3>1, <3>8, <3>9, <3>10
  <2>. QED
    BY <1>2, <1>3, <2>1, <2>2
<1>10. Exact'
  BY <1>2, <1>5, <1>8, ExactFollowsPrime DEF Open
<1>. QED
  BY <1>5, <1>8, <1>9, <1>10 DEF Inductive

LEMMA ClientReadsKeeps == Inductive /\ ClientReads => Inductive'
<1>. SUFFICES ASSUME Inductive, ClientReads PROVE Inductive'
  OBVIOUS
<1>1. Typed /\ Conserved /\ Exact /\ LessThanALine
  BY DEF Inductive
<1>2. /\ readBuffer' = readBuffer /\ writeBuffer' = writeBuffer
      /\ sockType' = sockType /\ server' = server /\ toServer' = toServer
      /\ sent' = sent /\ newlines' = newlines /\ slipped' = slipped
  BY DEF ClientReads
<1>3. PICK S : S = Bytes(sent)
  OBVIOUS
<1>4. PICK r \in Seq(S), t \in Seq(S), l \in Nat :
         r = received /\ t = toClient /\ l = Len(t)
  <2>1. Len(toClient) \in Nat
    BY <1>1, Sequences, LenProperties
  <2>. QED
    BY <1>1, <1>3, <2>1, Sequences
<1>5. PICK n \in 1 .. l : /\ received' = r \o SubSeq(t, 1, n)
                          /\ toClient' = SubSeq(t, n + 1, l)
  BY <1>4, Zenon DEF ClientReads
<1>6. PICK a, z : a = SubSeq(t, 1, n) /\ z = SubSeq(t, n + 1, l)
  OBVIOUS
<1>7. n \in Nat /\ n <= l
  OBVIOUS
<1>8. a \in Seq(S) /\ z \in Seq(S) /\ Len(z) = l - n
  BY <1>4, <1>6, <1>7, SplitAt
<1>9. t = a \o z
  BY <1>4, <1>6, <1>7, Halves
<1>10. received' = Then(r, a) /\ toClient' = z
  BY <1>5, <1>6, Zenon DEF Then
<1>11. Then(received', toClient') = Then(r, t)
  <2>1. Then(Then(r, a), z) = Then(r, Then(a, z))
    BY <1>8, ThenAssociative
  <2>2. Then(a, z) = t
    BY <1>9, Zenon DEF Then
  <2>. QED
    BY <1>10, <2>1, <2>2, Zenon
<1>12. Typed'
  <2>1. received' \in Seq(S)
    BY <1>8, <1>10, ThenIsSeq
  <2>2. Len(toClient') <= SndBuf
    BY <1>1, <1>4, <1>7, <1>8, <1>10, ConstantFacts DEF Typed
  <2>. QED
    BY <1>1, <1>2, <1>3, <1>8, <1>10, <2>1, <2>2, Zenon DEF Typed
<1>13. Conserved'
  BY <1>1, <1>2, <1>4, <1>11, Zenon DEF Conserved, Chain
<1>14. Exact'
  BY <1>1, <1>2, <1>4, <1>11, Zenon DEF Exact, Then
<1>15. LessThanALine'
  BY <1>1, <1>2, Zenon DEF LessThanALine
<1>. QED
  BY <1>12, <1>13, <1>14, <1>15 DEF Inductive

(* write_callback closes the connection, or moves bytes from the write     *)
(* buffer to the socket.                                                   *)
LEMMA FlushMoves ==
    ASSUME NEW S, Junk \in S, NEW write \in Sound(S), NEW read, NEW unread,
           NEW slip \in BOOLEAN, slipped \in BOOLEAN,
           toClient \in Seq(S), Len(toClient) <= SndBuf,
           Flush(write, read, unread, slip)
    PROVE  \/ /\ Close("closed")
              /\ slipped' = (slipped \/ slip)
              /\ toClient' = toClient
           \/ /\ server' = server /\ readBuffer' = read /\ toServer' = unread
              /\ writeBuffer' \in Sound(S) /\ sockType' \in {"READ", "WRITE"}
              /\ toClient' \in Seq(S) /\ Len(toClient') <= SndBuf
              /\ slipped' \in BOOLEAN /\ (slipped \/ slip => slipped')
              /\ ~slipped' => Then(toClient', Unhandled(writeBuffer'))
                                = Then(toClient, Unhandled(write))
<1>1. PICK n : n = Taken(write)
  OBVIOUS
<1>2. CASE n <= 0 /\ Close("closed") /\ slipped' = (slipped \/ slip) /\ UNCHANGED toClient
  BY <1>2, Zenon
<1>3. CASE /\ n > 0
           /\ toClient' = toClient \o FirstBytes(write, n)
           /\ writeBuffer' = AddHandled(write, n)
           /\ sockType' = IF UnhandledNum(writeBuffer') > 0 THEN "WRITE" ELSE "READ"
           /\ slipped' = (slipped \/ slip \/ write.str + n = write.end)
           /\ readBuffer' = read /\ toServer' = unread
           /\ UNCHANGED server
  <2>1. PICK l \in Nat, num \in Nat : l = Len(toClient) /\ num = UnhandledNum(write)
    BY SoundFacts, LenProperties
  <2>2. n \in Nat /\ n <= num /\ n <= SndBuf - l
    <3>1. SndBuf - l \in Int /\ num \in Int
      BY ConstantFacts
    <3>2. n = Min({num, SndBuf - l})
      BY <1>1, <2>1, Zenon DEF Taken
    <3>3. n \in {num, SndBuf - l} /\ n <= num /\ n <= SndBuf - l
      BY <3>1, <3>2, MinOfTwo
    <3>. QED
      BY <1>3, <3>1, <3>3
  <2>3. FirstBytes(write, n) \in Seq(S) /\ Len(FirstBytes(write, n)) = n
    BY <2>2, FirstBytesFacts
  <2>4. AddHandled(write, n) \in Sound(S)
    BY <2>2, AddHandledIsSound
  <2>5. PICK t \in Seq(S), f \in Seq(S), w \in Seq(S) :
           /\ t = toClient /\ f = FirstBytes(write, n)
           /\ w = Unhandled(AddHandled(write, n))
    BY <2>3, <2>4, SoundFacts
  <2>6. toClient' = t \o f
    BY <1>3, <2>5, Zenon
  <2>7. toClient' \in Seq(S) /\ Len(toClient') <= SndBuf
    <3>1. toClient' \in Seq(S) /\ Len(toClient') = Len(t) + Len(f)
      BY <2>6, Concatenated
    <3>. QED
      BY <2>1, <2>2, <2>3, <2>5, <3>1, ConstantFacts
  <2>8. ASSUME ~slipped'
        PROVE  Then(toClient', Unhandled(writeBuffer')) = Then(toClient, Unhandled(write))
    <3>1. n <= UnhandledNum(write) /\ write.str + n # write.end
      BY <1>3, <2>1, <2>2, <2>8
    <3>2. Unhandled(write) = FirstBytes(write, n) \o Unhandled(AddHandled(write, n))
      BY <2>2, <3>1, HandledAndLeft
    <3>3. Unhandled(write) = Then(f, w)
      BY <2>5, <3>2, Zenon DEF Then
    <3>4. Then(Then(t, f), w) = Then(t, Then(f, w))
      BY ThenAssociative
    <3>5. toClient' = Then(t, f)
      BY <2>6, Zenon DEF Then
    <3>. QED
      BY <1>3, <2>5, <3>3, <3>4, <3>5, Zenon
  <2>9. slipped' \in BOOLEAN /\ (slipped \/ slip => slipped')
    BY <1>3, Zenon
  <2>10. sockType' \in {"READ", "WRITE"}
    BY <1>3, Zenon
  <2>. QED
    BY <1>3, <2>4, <2>7, <2>8, <2>9, <2>10, Zenon
<1>. QED
  BY <1>1, <1>2, <1>3, Zenon DEF Flush

(* A connection that is closed keeps what the client has got. *)
LEMMA CloseKeeps ==
    ASSUME Inductive, NEW how \in {"closed", "crashed"}, Close(how),
           slipped' \in BOOLEAN, slipped => slipped', toClient' = toClient,
           UNCHANGED client
    PROVE  Inductive'
<1>1. Typed /\ Exact
  BY DEF Inductive
<1>2. /\ server' = how /\ readBuffer' = Null /\ writeBuffer' = Null
      /\ toServer' = <<>> /\ sockType' = sockType
      /\ sent' = sent /\ newlines' = newlines /\ received' = received
  BY DEF Close, client
<1>3. Null \in Sound(Bytes(sent)) /\ Unhandled(Null) = <<>>
  BY NullIsSound
<1>4. <<>> \in Seq(1 .. sent)
  BY EmptySeq
<1>5. how # "open" /\ how \in {"open", "closed", "crashed"}
  OBVIOUS
<1>6. Typed'
  BY <1>1, <1>2, <1>3, <1>4, <1>5, Zenon DEF Typed
<1>7. Conserved'
  BY <1>2, <1>5, Zenon DEF Conserved
<1>8. Exact'
  BY <1>1, <1>2, Zenon DEF Exact
<1>9. LessThanALine'
  BY <1>2, <1>3 DEF LessThanALine
<1>. QED
  BY <1>6, <1>7, <1>8, <1>9 DEF Inductive

(* write_callback from the reactor *)
LEMMA WriteKeeps == Inductive /\ Write => Inductive'
<1>. SUFFICES ASSUME Inductive, Write PROVE Inductive'
  OBVIOUS
<1>1. Typed /\ Conserved /\ Exact /\ LessThanALine
  BY DEF Inductive
<1>2. /\ server = "open" /\ Flush(writeBuffer, readBuffer, toServer, FALSE)
      /\ UNCHANGED client
  BY DEF Write, Writeable
<1>3. PICK S : S = Bytes(sent)
  OBVIOUS
<1>4. /\ Junk \in S /\ writeBuffer \in Sound(S) /\ readBuffer \in Sound(S)
      /\ toClient \in Seq(S) /\ Len(toClient) <= SndBuf /\ slipped \in BOOLEAN
  BY <1>1, <1>3, Sequences DEF Typed
<1>5. \/ /\ Close("closed")
         /\ slipped' = (slipped \/ FALSE)
         /\ toClient' = toClient
      \/ /\ server' = server /\ readBuffer' = readBuffer /\ toServer' = toServer
         /\ writeBuffer' \in Sound(S) /\ sockType' \in {"READ", "WRITE"}
         /\ toClient' \in Seq(S) /\ Len(toClient') <= SndBuf
         /\ slipped' \in BOOLEAN /\ (slipped \/ FALSE => slipped')
         /\ ~slipped' => Then(toClient', Unhandled(writeBuffer'))
                           = Then(toClient, Unhandled(writeBuffer))
  BY <1>2, <1>4, FlushMoves
<1>6. CASE Close("closed") /\ slipped' = (slipped \/ FALSE) /\ toClient' = toClient
  BY <1>2, <1>4, <1>6, CloseKeeps
<1>7. CASE /\ server' = server /\ readBuffer' = readBuffer /\ toServer' = toServer
           /\ writeBuffer' \in Sound(S) /\ sockType' \in {"READ", "WRITE"}
           /\ toClient' \in Seq(S) /\ Len(toClient') <= SndBuf
           /\ slipped' \in BOOLEAN /\ (slipped \/ FALSE => slipped')
           /\ ~slipped' => Then(toClient', Unhandled(writeBuffer'))
                             = Then(toClient, Unhandled(writeBuffer))
  <2>1. sent' = sent /\ newlines' = newlines /\ received' = received
    BY <1>2 DEF client
  <2>2. Typed'
    BY <1>1, <1>3, <1>4, <1>7, <2>1, Zenon DEF Typed
  <2>3. Conserved'
    <3>. SUFFICES ASSUME ~slipped'
                  PROVE  Chain(received, toClient', Unhandled(writeBuffer'),
                               Unhandled(readBuffer), toServer)
                           = [i \in 1 .. sent |-> i]
      BY <1>7, <2>1, Zenon DEF Conserved
    <3>1. Chain(received, toClient, Unhandled(writeBuffer), Unhandled(readBuffer),
                toServer) = [i \in 1 .. sent |-> i]
      BY <1>1, <1>2, <1>7, Zenon DEF Conserved
    <3>2. PICK r \in Seq(S), t \in Seq(S), w \in Seq(S), t2 \in Seq(S), w2 \in Seq(S) :
             /\ r = received /\ t = toClient /\ w = Unhandled(writeBuffer)
             /\ t2 = toClient' /\ w2 = Unhandled(writeBuffer')
      BY <1>1, <1>3, <1>7, Sequences, SoundFacts
    <3>3. Then(Then(r, t2), w2) = Then(Then(r, t), w)
      <4>1. Then(Then(r, t2), w2) = Then(r, Then(t2, w2))
        BY ThenAssociative
      <4>2. Then(Then(r, t), w) = Then(r, Then(t, w))
        BY ThenAssociative
      <4>. QED
        BY <1>7, <3>2, <4>1, <4>2, Zenon
    <3>. QED
      BY <3>1, <3>2, <3>3, Zenon DEF Chain
  <2>4. LessThanALine'
    BY <1>1, <1>7, <2>1, Zenon DEF LessThanALine
  <2>5. Exact'
    BY <1>2, <1>7, <2>2, <2>3, ExactFollowsPrime DEF Open
  <2>. QED
    BY <2>2, <2>3, <2>4, <2>5 DEF Inductive
<1>. QED
  BY <1>5, <1>6, <1>7, Zenon

(* The buffers after read_callback has answered what it read: they are     *)
(* sound, and unless something slips no byte is lost or out of its place.  *)
Slip(b, s) ==
    \/ \E f, g \in Flags(Unhandled(b)) : f # g
    \/ \E f \in Flags(Unhandled(b)) : b.str + f = b.end
    \/ Compacts(s.read)

ReadMove(S, b, s, z) ==
    /\ s \in Pair(S) /\ CheckEmptySpace(s.read) \in Sound(S) /\ z \in Seq(S)
    /\ ~Slip(b, s) =>
          /\ ~s.crashed /\ CheckEmptySpace(s.read) = s.read
          /\ \A k \in DOMAIN Unhandled(s.read) : Unhandled(s.read)[k] \notin newlines
          /\ \E a \in Seq(S) :
                /\ toServer = Then(a, z)
                /\ Then(Unhandled(s.write), Unhandled(s.read))
                     = Then(Unhandled(writeBuffer), Then(Unhandled(readBuffer), a))

LEMMA ReadMoves ==
    ASSUME NEW S, Junk \in S, readBuffer \in Sound(S), writeBuffer \in Sound(S),
           toServer \in Seq(S), NEW b, b = Filled, NEW s, s = Answered(b),
           NEW z, z = SubSeq(toServer, b.end - readBuffer.end + 1, Len(toServer))
    PROVE  ReadMove(S, b, s, z)
<1>1. PICK m \in Nat : m = b.end - readBuffer.end
  BY FilledFacts
<1>2. /\ b \in Sound(S) /\ m <= Len(toServer)
      /\ Unhandled(b) = Unhandled(readBuffer) \o SubSeq(toServer, 1, m)
  BY <1>1, FilledFacts
<1>3. s \in Pair(S)
  BY <1>2, AnsweredIsSound
<1>4. s.read \in Sound(S) /\ s.write \in Sound(S)
  BY <1>3 DEF Pair
<1>5. /\ CheckEmptySpace(s.read) \in Sound(S)
      /\ ~Compacts(s.read) => CheckEmptySpace(s.read) = s.read
  BY <1>4, CheckIsSound, Zenon
<1>6. PICK a : a = SubSeq(toServer, 1, m)
  OBVIOUS
<1>7. z = SubSeq(toServer, m + 1, Len(toServer))
  BY <1>1
<1>8. a \in Seq(S) /\ z \in Seq(S)
  <2>1. /\ SubSeq(toServer, 1, m) \in Seq(S)
        /\ SubSeq(toServer, m + 1, Len(toServer)) \in Seq(S)
    BY <1>2, HalvesAreSeqs, Zenon
  <2>. QED
    BY <1>6, <1>7, <2>1, Zenon
<1>9. toServer = Then(a, z)
  <2>1. toServer = SubSeq(toServer, 1, m) \o SubSeq(toServer, m + 1, Len(toServer))
    BY <1>2, Halves
  <2>. QED
    BY <1>6, <1>7, <2>1, Zenon DEF Then
<1>10. ASSUME ~Slip(b, s)
       PROVE  /\ ~s.crashed
              /\ Then(Unhandled(s.write), Unhandled(s.read))
                   = Then(Unhandled(writeBuffer), Then(Unhandled(readBuffer), a))
              /\ \A k \in DOMAIN Unhandled(s.read) : Unhandled(s.read)[k] \notin newlines
  <2>1. /\ \A f, g \in Flags(Unhandled(b)) : f = g
        /\ \A f \in Flags(Unhandled(b)) : b.str + f # b.end
    BY <1>10, Zenon DEF Slip
  <2>2. /\ ~s.crashed
        /\ Unhandled(s.write) \o Unhandled(s.read)
              = Unhandled(writeBuffer) \o Unhandled(b)
        /\ \A k \in DOMAIN Unhandled(s.read) : Unhandled(s.read)[k] \notin newlines
    BY <1>2, <2>1, AnsweredExactly, Zenon
  <2>3. Unhandled(b) = Then(Unhandled(readBuffer), a)
    BY <1>2, <1>6, Zenon DEF Then
  <2>. QED
    BY <2>2, <2>3, Zenon DEF Then
<1>11. ~Slip(b, s) => CheckEmptySpace(s.read) = s.read
  BY <1>5, Zenon DEF Slip
<1>. QED
  BY <1>3, <1>5, <1>8, <1>9, <1>10, <1>11, Zenon DEF ReadMove

(* read_callback *)
LEMMA ReadKeeps == Inductive /\ Read => Inductive'
<1>. SUFFICES ASSUME Inductive, Read PROVE Inductive'
  OBVIOUS
<1>1. Typed /\ Conserved /\ Exact /\ LessThanALine
  BY DEF Inductive
<1>2. PICK b, s : b = Filled /\ s = Answered(b)
  OBVIOUS
<1>3. server = "open" /\ ReadWith(b, s) /\ UNCHANGED client
  BY <1>2, Zenon DEF Read, Readable
<1>4. PICK z, slip, c : /\ z = SubSeq(toServer, b.end - readBuffer.end + 1, Len(toServer))
                        /\ slip = Slip(b, s) /\ c = CheckEmptySpace(s.read)
  OBVIOUS
<1>5. \/ s.crashed /\ Close("crashed") /\ slipped' = (slipped \/ slip) /\ UNCHANGED toClient
      \/ /\ ~s.crashed /\ UnhandledNum(s.write) <= 0
         /\ readBuffer' = c /\ writeBuffer' = s.write /\ toServer' = z
         /\ slipped' = (slipped \/ slip)
         /\ UNCHANGED <<sockType, server, toClient>>
      \/ ~s.crashed /\ UnhandledNum(s.write) > 0 /\ Flush(s.write, c, z, slip)
  BY <1>3, <1>4, Zenon DEF ReadWith, Slip
<1>6. PICK S : S = Bytes(sent)
  OBVIOUS
<1>7. /\ Junk \in S /\ writeBuffer \in Sound(S) /\ readBuffer \in Sound(S)
      /\ toClient \in Seq(S) /\ Len(toClient) <= SndBuf /\ slipped \in BOOLEAN
      /\ toServer \in Seq(S) /\ toServer \in Seq(1 .. sent) /\ received \in Seq(S)
      /\ Unhandled(readBuffer) \in Seq(S) /\ Unhandled(writeBuffer) \in Seq(S)
  BY <1>1, <1>6, Sequences DEF Typed
<1>8. slip \in BOOLEAN
  BY <1>4, Zenon DEF Slip
<1>9. /\ s \in Pair(S) /\ c \in Sound(S) /\ z \in Seq(S)
      /\ ~slip =>
            /\ ~s.crashed /\ c = s.read
            /\ \A k \in DOMAIN Unhandled(s.read) : Unhandled(s.read)[k] \notin newlines
            /\ \E a \in Seq(S) :
                  /\ toServer = Then(a, z)
                  /\ Then(Unhandled(s.write), Unhandled(s.read))
                       = Then(Unhandled(writeBuffer), Then(Unhandled(readBuffer), a))
  <2>1. ReadMove(S, b, s, z)
    BY <1>2, <1>4, <1>7, ReadMoves
  <2>. QED
    BY <1>4, <2>1, Zenon DEF ReadMove
<1>10. s.write \in Sound(S) /\ s.read \in Sound(S)
  BY <1>9 DEF Pair
<1>11. z \in Seq(1 .. sent)
  <2>1. PICK m \in Nat : m = b.end - readBuffer.end /\ m <= Len(toServer)
    BY <1>2, <1>7, FilledFacts
  <2>2a. PICK q \in Seq(1 .. sent) : q = toServer
    BY <1>7
  <2>2b. PICK p, y : p = SubSeq(q, 1, m) /\ y = SubSeq(q, m + 1, Len(q))
    OBVIOUS
  <2>2. q = toServer /\ p = SubSeq(q, 1, m) /\ y = SubSeq(q, m + 1, Len(q))
    BY <2>2a, <2>2b, Zenon
  <2>3. m <= Len(q)
    BY <2>1, <2>2
  <2>4. y \in Seq(1 .. sent)
    BY <2>2, <2>3, SplitAt
  <2>. QED
    BY <1>4, <2>1, <2>2, <2>4, Zenon
<1>12. sent' = sent /\ newlines' = newlines /\ received' = received
  BY <1>3 DEF client
<1>13. ASSUME /\ server' = server /\ readBuffer' = c /\ toServer' = z
              /\ writeBuffer' \in Sound(S) /\ sockType' \in {"READ", "WRITE"}
              /\ toClient' \in Seq(S) /\ Len(toClient') <= SndBuf
              /\ slipped' \in BOOLEAN /\ (slipped \/ slip => slipped')
              /\ ~slipped' => Then(toClient', Unhandled(writeBuffer'))
                                = Then(toClient, Unhandled(s.write))
       PROVE  Inductive'
  <2>1. Typed'
    BY <1>1, <1>6, <1>9, <1>11, <1>12, <1>13, Zenon DEF Typed
  <2>2. Conserved'
    <3>. SUFFICES ASSUME ~slipped'
                  PROVE  Chain(received, toClient', Unhandled(writeBuffer'),
                               Unhandled(c), z) = [i \in 1 .. sent |-> i]
      BY <1>12, <1>13, Zenon DEF Conserved
    <3>1. Chain(received, toClient, Unhandled(writeBuffer), Unhandled(readBuffer),
                toServer) = [i \in 1 .. sent |-> i]
      BY <1>1, <1>3, <1>13, Zenon DEF Conserved
    <3>2. ~slip /\ c = s.read
      BY <1>8, <1>9, <1>13, Zenon
    <3>3. PICK a \in Seq(S) :
             /\ toServer = Then(a, z)
             /\ Then(Unhandled(s.write), Unhandled(s.read))
                  = Then(Unhandled(writeBuffer), Then(Unhandled(readBuffer), a))
      BY <1>9, <3>2, Zenon
    <3>4. PICK w1 \in Seq(S), u1 \in Seq(S), w2 \in Seq(S), t2 \in Seq(S) :
             /\ w1 = Unhandled(s.write) /\ u1 = Unhandled(s.read)
             /\ w2 = Unhandled(writeBuffer') /\ t2 = toClient'
      BY <1>10, <1>13, SoundFacts
    <3>5. PICK r \in Seq(S), t \in Seq(S), w \in Seq(S), u \in Seq(S),
               y \in Seq(S), q \in Seq(S) :
             /\ r = received /\ t = toClient /\ w = Unhandled(writeBuffer)
             /\ u = Unhandled(readBuffer) /\ q = toServer /\ y = z
      BY <1>7, <1>9
    <3>6. Move(S, a, w1, r, t, w, u, q, t2, w2, u1, y)
      <4>1. {a, w1, r, t, w, u, t2, w2, u1, y} \subseteq Seq(S)
        OBVIOUS
      <4>. QED
        BY <1>13, <3>3, <3>4, <3>5, <4>1, Zenon DEF Move
    <3>7. Chain(r, t2, w2, u1, y) = Chain(r, t, w, u, q)
      BY <3>6, ChainMoves
    <3>. QED
      BY <3>1, <3>2, <3>4, <3>5, <3>7, Zenon
  <2>3. LessThanALine'
    BY <1>8, <1>9, <1>12, <1>13, Zenon DEF LessThanALine
  <2>4. Exact'
    BY <1>3, <1>13, <2>1, <2>2, ExactFollowsPrime DEF Open
  <2>. QED
    BY <2>1, <2>2, <2>3, <2>4 DEF Inductive
<1>14. CASE s.crashed /\ Close("crashed") /\ slipped' = (slipped \/ slip) /\ UNCHANGED toClient
  BY <1>3, <1>7, <1>8, <1>14, CloseKeeps
<1>15. CASE /\ ~s.crashed /\ UnhandledNum(s.write) <= 0
            /\ readBuffer' = c /\ writeBuffer' = s.write /\ toServer' = z
            /\ slipped' = (slipped \/ slip)
            /\ UNCHANGED <<sockType, server, toClient>>
  <2>1. sockType \in {"READ", "WRITE"}
    BY <1>1 DEF Typed
  <2>. QED
    BY <1>7, <1>8, <1>10, <1>13, <1>15, <2>1
<1>16. CASE ~s.crashed /\ UnhandledNum(s.write) > 0 /\ Flush(s.write, c, z, slip)
  <2>1. \/ /\ Close("closed")
           /\ slipped' = (slipped \/ slip)
           /\ toClient' = toClient
        \/ /\ server' = server /\ readBuffer' = c /\ toServer' = z
           /\ writeBuffer' \in Sound(S) /\ sockType' \in {"READ", "WRITE"}
           /\ toClient' \in Seq(S) /\ Len(toClient') <= SndBuf
           /\ slipped' \in BOOLEAN /\ (slipped \/ slip => slipped')
           /\ ~slipped' => Then(toClient', Unhandled(writeBuffer'))
                             = Then(toClient, Unhandled(s.write))
    BY <1>7, <1>8, <1>10, <1>16, FlushMoves
  <2>2. CASE Close("closed") /\ slipped' = (slipped \/ slip) /\ toClient' = toClient
    BY <1>3, <1>7, <1>8, <2>2, CloseKeeps
  <2>. QED
    BY <1>13, <2>1, <2>2, Zenon
<1>. QED
  BY <1>5, <1>14, <1>15, <1>16, Zenon
-----------------------------------------------------------------------------
(* What sendn is given of a sound buffer is in its block. *)
LEMMA SendsInside ==
    ASSUME NEW S, NEW b \in Sound(S)
    PROVE  SendOutside(b) = {}
<1>1. b.str \in Nat /\ b.end \in Int /\ Allo(b) \in Nat /\ b.end < Allo(b)
  BY SoundFacts
<1>2. b.str + UnhandledNum(b) = b.end + 1
  BY <1>1 DEF UnhandledNum
<1>. QED
  BY <1>1, <1>2 DEF SendOutside

(* With at most one line, that does not end just before the last byte, the *)
(* block is there while the loop looks at it, and the line is inside.      *)
LEMMA LoopInside ==
    ASSUME NEW S, NEW b \in Sound(S), NEW n \in Nat, n = Len(Unhandled(b)),
           \A f, g \in Flags(Unhandled(b)) : f = g,
           \A f \in Flags(Unhandled(b)) : b.str + f # b.end
    PROVE  /\ \A k \in 1 .. n : Loop(b)[k - 1].read # Null
           /\ \A k \in Flags(Unhandled(b)) :
                 ~(Loop(b)[k - 1].read.str + k > Allo(Loop(b)[k - 1].read))
<1>1. /\ n = b.end - b.str + 1 /\ b.str \in Nat /\ b.end \in Int
      /\ Allo(b) \in Nat /\ b.end < Allo(b) /\ Allo(b) = Len(b.cache)
  BY SoundFacts DEF UnhandledNum
<1>2. n > 0 => b.cache # <<>>
  BY <1>1, EmptySeq
<1>3. Flags(Unhandled(b)) \subseteq 1 .. n
  BY DEF Flags
<1>4. CASE Flags(Unhandled(b)) = {}
  <2>1. \A k \in 0 .. n : Loop(b)[k] = Before(b)
    BY <1>4, NoLine, Zenon
  <2>2. Before(b).read = b
    BY DEF Before
  <2>3. ASSUME NEW k \in 1 .. n PROVE Loop(b)[k - 1].read # Null
    <3>1. k - 1 \in 0 .. n /\ n > 0
      OBVIOUS
    <3>2. Loop(b)[k - 1].read = b
      BY <2>1, <2>2, <3>1, Zenon
    <3>. QED
      BY <1>2, <3>1, <3>2 DEF Null
  <2>. QED
    BY <1>4, <2>3, Zenon
<1>5. CASE Flags(Unhandled(b)) # {}
  <2>1. PICK f \in 1 .. n : f \in Flags(Unhandled(b))
    BY <1>3, <1>5
  <2>2. Flags(Unhandled(b)) = {f} /\ b.str + f # b.end /\ n > 0
    <3>1. Flags(Unhandled(b)) = {f} /\ b.str + f # b.end
      BY <2>1, Zenon
    <3>. QED
      BY <3>1
  <2>3. \A k \in 0 .. n : Loop(b)[k] = IF k < f THEN Before(b)
                                        ELSE Answer(Before(b), f)
    BY <2>2, OneLine, Zenon
  <2>4. Before(b).read = b /\ b # Null
    BY <1>2, <2>2 DEF Before, Null
  <2>5. f < n => Answer(Before(b), f).read # Null
    <3>. SUFFICES ASSUME f < n PROVE AddHandled(b, f) # Null
      BY <2>4 DEF Answer, Before
    <3>1. b.str + f < b.end
      BY <1>1, <2>2
    <3>2. AddHandled(b, f) = [b EXCEPT !.str = @ + f]
      BY <3>1, Zenon DEF AddHandled
    <3>3. b \in [cache : Seq(S), str : Nat, end : Nat \union {-1}]
      BY DEF Sound
    <3>4. AddHandled(b, f).cache = b.cache
      BY <3>2, <3>3
    <3>5. Null.cache = <<>>
      BY DEF Null
    <3>. QED
      BY <1>2, <2>2, <3>4, <3>5
  <2>6. ASSUME NEW k \in 1 .. n PROVE Loop(b)[k - 1].read # Null
    <3>1. k - 1 \in 0 .. n
      OBVIOUS
    <3>2. CASE k - 1 < f
      BY <2>3, <2>4, <3>1, <3>2, Zenon
    <3>3. CASE ~(k - 1 < f)
      <4>1. f < n
        BY <3>3
      <4>. QED
        BY <2>3, <2>5, <3>1, <3>3, <4>1, Zenon
    <3>. QED
      BY <3>2, <3>3
  <2>7. ~(Loop(b)[f - 1].read.str + f > Allo(Loop(b)[f - 1].read))
    <3>1. f - 1 \in 0 .. n /\ f - 1 < f
      OBVIOUS
    <3>2. Loop(b)[f - 1].read = b
      BY <2>3, <2>4, <3>1, Zenon
    <3>3. ~(b.str + f > Allo(b))
      BY <1>1
    <3>. QED
      BY <3>2, <3>3, Zenon
  <2>. QED
    BY <2>2, <2>6, <2>7, Zenon
<1>. QED
  BY <1>4, <1>5

(* read_callback keeps its accesses in the block unless something slips.   *)
LEMMA ReadAccesses ==
    ASSUME NEW S, Junk \in S, readBuffer \in Sound(S), writeBuffer \in Sound(S),
           toServer \in Seq(S), NEW b, b = Filled, NEW s, s = Answered(b)
    PROVE  /\ ReadOutside(b, s) \subseteq {"scan", "line", "zero"}
           /\ ReadOutside(b, s) # {} => Slip(b, s)
<1>1. b \in Sound(S)
  BY FilledFacts
<1>2. PICK n \in Nat : n = Len(Unhandled(b))
  BY <1>1, SoundFacts
<1>3. Flags(Unhandled(b)) \subseteq 1 .. n
  BY <1>2 DEF Flags
<1>4. s \in Pair(S) /\ \A k \in 0 .. n : Loop(b)[k] \in Pair(S)
  BY <1>1, <1>2, AnsweredIsSound, Zenon
<1>5. ~(b.end >= Allo(b))
  BY <1>1, SoundFacts
<1>6. ASSUME NEW k \in Flags(Unhandled(b))
      PROVE  ~(Loop(b)[k].write.end >= Allo(Loop(b)[k].write))
  <2>1. Loop(b)[k].write \in Sound(S)
    BY <1>3, <1>4 DEF Pair
  <2>2. PICK w \in Sound(S) : w = Loop(b)[k].write
    BY <2>1
  <2>3. ~(w.end >= Allo(w))
    BY SoundFacts
  <2>. QED
    BY <2>2, <2>3, Zenon
<1>7. SendOutside(s.write) = {}
  BY <1>4, SendsInside DEF Pair
<1>8. ReadOutside(b, s) \subseteq {"scan", "line", "zero"}
  BY <1>5, <1>6, <1>7, Zenon DEF ReadOutside
<1>9. ASSUME ~Slip(b, s) PROVE ReadOutside(b, s) = {}
  <2>1. /\ \A f, g \in Flags(Unhandled(b)) : f = g
        /\ \A f \in Flags(Unhandled(b)) : b.str + f # b.end
        /\ ~Compacts(s.read)
    BY <1>9, Zenon DEF Slip
  <2>2. /\ \A k \in 1 .. n : Loop(b)[k - 1].read # Null
        /\ \A k \in Flags(Unhandled(b)) :
              ~(Loop(b)[k - 1].read.str + k > Allo(Loop(b)[k - 1].read))
    BY <1>1, <1>2, <2>1, LoopInside, Zenon
  <2>. QED
    BY <1>2, <1>5, <1>6, <1>7, <2>1, <2>2, Zenon DEF ReadOutside
<1>. QED
  BY <1>8, <1>9, Zenon

LEMMA EchoStepAccesses ==
    ASSUME Inductive, AccessesInBlock, Accesses, [EchoNext]_echoVars
    PROVE  AccessesInBlock' /\ Accesses'
<1>1. PICK S : S = Bytes(sent)
  OBVIOUS
<1>2. /\ Junk \in S /\ readBuffer \in Sound(S) /\ writeBuffer \in Sound(S)
      /\ toServer \in Seq(S)
  BY <1>1, Sequences DEF Inductive
<1>3. CASE Read
  <2>1. PICK b, s : b = Filled /\ s = Answered(b)
    OBVIOUS
  <2>2. ReadWith(b, s) /\ outside' = outside \union ReadOutside(b, s)
    BY <1>3, <2>1, Zenon DEF Read
  <2>3. /\ ReadOutside(b, s) \subseteq {"scan", "line", "zero"}
        /\ ReadOutside(b, s) # {} => Slip(b, s)
    BY <1>2, <2>1, ReadAccesses
  <2>4. slipped \/ Slip(b, s) => slipped'
    BY <2>2, Zenon DEF ReadWith, Flush, Slip
  <2>. QED
    BY <2>2, <2>3, <2>4 DEF AccessesInBlock, Accesses
<1>4. CASE Write
  <2>1. outside' = outside
    BY <1>2, <1>4, SendsInside DEF Write
  <2>2. slipped => slipped'
    BY <1>4, Zenon DEF Write, Flush
  <2>. QED
    BY <2>1, <2>2 DEF AccessesInBlock, Accesses
<1>5. CASE ClientSends \/ ClientReads \/ UNCHANGED echoVars
  <2>1. outside' = outside /\ slipped' = slipped
    BY <1>5, Zenon DEF ClientSends, ClientReads, echoVars
  <2>. QED
    BY <2>1 DEF AccessesInBlock, Accesses
<1>. QED
  BY <1>3, <1>4, <1>5 DEF EchoNext

LEMMA EchoInvariance == EchoSpec => []EchoIInv
<1>1. EchoInit => Inductive
  BY InitIsInductive
<1>2. Inductive /\ [EchoNext]_echoVars => Inductive'
  <2>. SUFFICES ASSUME Inductive, [EchoNext]_echoVars PROVE Inductive'
    OBVIOUS
  <2>1. CASE UNCHANGED echoVars
    <3>1. /\ UNCHANGED <<readBuffer, writeBuffer, sockType, server, toServer, toClient>>
          /\ UNCHANGED <<sent, newlines, received, slipped>>
      BY <2>1 DEF echoVars, client
    <3>2. Typed'
      BY <3>1, Zenon DEF Inductive, Typed
    <3>3. Conserved' /\ Exact' /\ LessThanALine'
      BY <3>1, Zenon DEF Inductive, Conserved, Exact, LessThanALine
    <3>. QED
      BY <3>2, <3>3 DEF Inductive
  <2>. QED
    BY <2>1, ClientSendsKeeps, ClientReadsKeeps, ReadKeeps, WriteKeeps, Zenon DEF EchoNext
<1>3. EchoInit => AccessesInBlock /\ Accesses
  BY DEF EchoInit, AccessesInBlock, Accesses
<1>4. Inductive /\ AccessesInBlock /\ Accesses /\ [EchoNext]_echoVars
         => AccessesInBlock' /\ Accesses'
  BY EchoStepAccesses
<1>5. Inductive /\ Accesses /\ AccessesInBlock => EchoIInv
  BY InductiveIsIInv
<1>. QED
  BY <1>1, <1>2, <1>3, <1>4, <1>5, PTL DEF EchoSpec

(* Type correctness of LineEcho, whatever blocks, bytes and socket. *)
THEOREM EchoTypeCorrect == EchoSpec => []EchoTypeOK
<1>1. EchoIInv => EchoTypeOK
  BY DEF EchoIInv
<1>. QED
  BY <1>1, EchoInvariance, PTL

(* readn, add_data and sendn stay inside the block of their Buffer,
   whatever the client sends and however the socket cuts it up; the scan of
   read_callback, the application and check_empty_space do so until
   something slips. *)
THEOREM NothingOutsideTheBlock == EchoSpec => []AccessesInBlock
<1>1. EchoIInv => AccessesInBlock
  BY DEF EchoIInv
<1>. QED
  BY <1>1, EchoInvariance, PTL

(* While the connection is open and nothing has slipped, every byte the
   client sent is in exactly one place, and the bytes keep their order. *)
THEOREM EveryByteInItsPlace == EchoSpec => []BytesConserved
<1>1. EchoIInv => BytesConserved
  BY DEF EchoIInv
<1>. QED
  BY <1>1, EchoInvariance, PTL

(* Until something slips, what the client gets back is what it sent, in
   order, and no whole line is left unanswered between two callbacks. *)
THEOREM EchoIsExact == EchoSpec => []EchoExact
<1>1. EchoIInv => EchoExact
  BY DEF EchoIInv
<1>. QED
  BY <1>1, EchoInvariance, PTL
=============================================================================
