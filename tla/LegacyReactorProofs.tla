-------------------------- MODULE LegacyReactorProofs --------------------------
(* Proofs about LegacyReactor, for any descriptors, workers and finite set *)
(* of events.                                                              *)
(*                                                                         *)
(* Most steps are those of one thread.  LocalStep says what such a step    *)
(* keeps of IInv as long as no event moves into or out of a slot; what it  *)
(* does to the interest, the count and the flag "active" is a step of its  *)
(* own in each action's lemma.                                             *)
(*                                                                         *)
(* The second half of the module is about OneTaskEach, by an invariant of  *)
(* its own (OnceInv) on top of IInv.                                       *)
EXTENDS LegacyReactor, FiniteSetTheorems, SequenceTheorems, TLAPS

(* The inductive invariant behind InterestAgrees, CountMatches and         *)
(* ActiveIsHeld.                                                           *)
Inserting(e) == at[Acceptor] = "insert" /\ ev[Acceptor] = e
Known(e) == e \in made /\ ~Inserting(e)
Live == made \ freed

(* Where a thread may be in which call, and that the events it names have  *)
(* been through add_event.                                                 *)
Place(t) ==
    /\ at[t] \in {"idle", "delete", "entry", "hand"} => call[t] = "none"
    /\ at[t] = "run" => call[t] \in {"none", "pause", "resume"}
    /\ at[t] \in {"insert", "load", "store", "release"} => call[t] = "add"
    /\ at[t] = "undo" => call[t] \in {"add", "del"}
    /\ at[t] \in {"prepare", "ctl"} => call[t] # "none"
    /\ at[t] \in {"free", "count"} => call[t] = "del"
    /\ call[t] = "add" => t = Acceptor
    /\ at[t] = "count" => ev[t] \in freed
    /\ at[t] = "ctl" => op[t] \in Ops
    /\ at[t] \in {"idle", "entry"} => ev[t] = NULL
    /\ at[t] \notin {"idle", "entry", "hand"} => ev[t] # NULL
    /\ ev[t] # NULL /\ at[t] # "insert" => Known(ev[t])
    /\ t = Main /\ at[t] \in {"entry", "hand"} =>
          ready \in [fd : Fds, why : Dirs \union {"error"}]
    /\ t = Main /\ at[t] = "hand" => ready.why \in Dirs
Waiting ==
    /\ \A w \in Workers : \A i \in 1..Len(tasks[w]) : Known(tasks[w][i])
    /\ nextEv # NULL => Known(nextEv)
Control == Waiting /\ \A t \in Threads : Place(t)

(* The slots hold the events that have been inserted and not deleted, each *)
(* in its place; an event that is being inserted is new.                   *)
Tables ==
    /\ \A fd \in Fds, d \in Dirs : slot[fd][d] # NULL =>
          /\ slot[fd][d] \in Live /\ ~Inserting(slot[fd][d])
          /\ slot[fd][d].fd = fd /\ slot[fd][d].dir = d
    /\ \A e \in Live : ~Inserting(e) => slot[e.fd][e.dir] = e
    /\ at[Acceptor] = "insert" =>
          ev[Acceptor] \in Live /\ flags[ev[Acceptor]] \subseteq {"active"}
    /\ \A e \in Events \ made : flags[e] = {}

(* A thread that is about to tell the kernel something is alone there and  *)
(* what it decided still fits the flags.                                   *)
InterestAt(fd) ==
    /\ epoll[fd] = Registered(fd)
    /\ \A t, u \in Threads :
          /\ at[t] \in {"ctl", "free"} /\ ev[t].fd = fd
          /\ at[u] \in {"ctl", "free"} /\ ev[u].fd = fd
          => t = u
    /\ \A t \in Threads : at[t] = "ctl" /\ ev[t] \in Live /\ ev[t].fd = fd =>
          op[t].dirs = IF Activates(t) THEN Registered(fd) \union {ev[t].dir}
                                       ELSE Registered(fd) \ {ev[t].dir}
    /\ \A t \in Threads : at[t] = "free" /\ ev[t] \in Live /\ ev[t].fd = fd =>
          "registered" \notin flags[ev[t]]
InterestKnown == \A fd \in Fds \ (overlapped \union replaced) : InterestAt(fd)

(* Who will make an active event idle again: a thread that works on it, or *)
(* that has made it active with the other event of the descriptor.         *)
Keeps(t, e) ==
    \/ t \in Workers /\ RunsTask(t, e)
    \/ call[t] = "add" /\ ev[t] = e
    \/ at[t] = "insert" /\ e \in Pair(ev[t])
    \/ call[t] = "del" /\ at[t] # "count" /\ (ev[t] = e \/ e \in Pair(ev[t]))
Queued(e) == \E w \in Workers : \E i \in 1..Len(tasks[w]) : tasks[w][i] = e
Orphan(e) == \E d \in freed : d.fd = e.fd /\ d.dir = Other(e.dir)
Held(e) == (\E t \in Threads : Keeps(t, e)) \/ Queued(e) \/ Orphan(e)
HeldActive == \A e \in Live : "active" \in flags[e] => Held(e)

IInv ==
    /\ TypeOK
    /\ Control
    /\ Tables
    /\ InterestKnown
    /\ CountMatches
    /\ HeldActive

LEMMA EventFacts ==
    /\ \A e \in Events : e.fd \in Fds /\ e.dir \in Dirs
    /\ NULL \notin Events /\ Dirs = {"read", "write"} /\ Other("read") = "write"
    /\ Other("write") = "read"
    /\ Acceptor \in Threads /\ Main \in Threads /\ Workers \subseteq Threads
    /\ Acceptor # Main /\ Acceptor \notin Workers /\ Main \notin Workers
<1>. QED
  BY LegacyReactorAssumption DEF Dirs, Other, Threads

(* What setting and clearing a flag of a set of events does. *)
LEMMA FlagsSet ==
    ASSUME TypeOK, NEW E, NEW flag \in Flags
    PROVE  /\ With(E, flag) \in [Events -> SUBSET Flags]
           /\ \A e \in Events : With(E, flag)[e] =
                 flags[e] \union (IF e \in E THEN {flag} ELSE {})
<1>. QED
  BY DEF With, TypeOK

LEMMA FlagsCleared ==
    ASSUME TypeOK, NEW E, NEW flag \in Flags
    PROVE  /\ Without(E, flag) \in [Events -> SUBSET Flags]
           /\ \A e \in Events : Without(E, flag)[e] =
                 flags[e] \ (IF e \in E THEN {flag} ELSE {})
<1>. QED
  BY DEF Without, TypeOK

(* The events of a descriptor are those in its slots. *)
LEMMA PairFacts ==
    ASSUME TypeOK, Tables, NEW e \in Events
    PROVE  /\ \A p \in Pair(e) : p = e \/ (p \in Live /\ p.fd = e.fd)
           /\ slot[e.fd][e.dir] = e => e \in Pair(e)
           /\ \A p \in Pair(e) : p # e => slot[e.fd][p.dir] = p
                                          /\ \A d \in Dirs : slot[e.fd][d] # NULL
<1>1. e.fd \in Fds /\ e.dir \in Dirs
  BY EventFacts
<1>2. Pair(e) \subseteq {e} \union SlotsOf(e.fd)
  BY DEF Pair
<1>3. \A p \in SlotsOf(e.fd) : /\ p \in Live /\ p.fd = e.fd /\ p.dir \in Dirs
                              /\ slot[e.fd][p.dir] = p
  BY <1>1 DEF SlotsOf, Tables
<1>4. slot[e.fd][e.dir] = e => e \in SlotsOf(e.fd)
  BY <1>1, EventFacts DEF SlotsOf
<1>5. \A p \in Pair(e) : p # e => \A d \in Dirs : slot[e.fd][d] # NULL
  BY DEF Pair
<1>. QED
  BY <1>2, <1>3, <1>4, <1>5 DEF Pair

(* A thread that returns is idle or, the dispatcher, deletes another event.*)
LEMMA ReturnFacts ==
    ASSUME TypeOK, NEW t \in Threads, Return(t)
    PROVE  /\ call' \in [Threads -> {"none", "add", "del", "pause", "resume"}]
           /\ call'[t] = "none"
           /\ at' \in [Threads -> {"idle", "insert", "load", "store", "release",
                                   "undo", "prepare", "ctl", "delete", "free", "count",
                                   "entry", "hand", "run"}]
           /\ ev' \in [Threads -> Events \union {NULL}]
           /\ ready' \in [fd : Fds, why : Dirs \union {"error"}] \union {NULL}
           /\ nextEv' \in {NULL, nextEv}
           /\ \/ at'[t] = "idle" /\ ev'[t] = NULL
              \/ at'[t] = "delete" /\ ev'[t] = nextEv /\ nextEv # NULL
           /\ \A u \in Threads : u # t =>
                 at'[u] = at[u] /\ ev'[u] = ev[u] /\ call'[u] = call[u]
           /\ t # Main => ready' = ready /\ nextEv' = nextEv
<1>. QED
  BY DEF Return, Goto, TypeOK

(* Steps that do not change what is registered leave the interest alone. *)
LEMMA InterestFrame ==
    ASSUME IInv, TypeOK', epoll' = epoll,
           overlapped \subseteq overlapped', replaced \subseteq replaced',
           \A fd \in Fds \ (overlapped' \union replaced') :
              Registered(fd)' = Registered(fd),
           \A t \in Threads : at'[t] \in {"ctl", "free"} =>
              /\ at[t] = at'[t] /\ ev'[t] = ev[t] /\ op'[t] = op[t]
              /\ call'[t] = call[t]
              /\ ev[t] \in Live' => ev[t] \in Live
              /\ "registered" \in flags'[ev[t]] => "registered" \in flags[ev[t]]
    PROVE  InterestKnown'
<1>. SUFFICES ASSUME NEW fd \in Fds \ (overlapped' \union replaced')
              PROVE  InterestAt(fd)'
  BY DEF InterestKnown
<1>. DEFINE Busy == {"ctl", "free"}
<1>1. InterestAt(fd) /\ Registered(fd)' = Registered(fd) /\ epoll'[fd] = epoll[fd]
  BY DEF IInv, InterestKnown
<1>2. \A t, u \in Threads :
         /\ at'[t] \in Busy /\ ev'[t].fd = fd
         /\ at'[u] \in Busy /\ ev'[u].fd = fd
         => t = u
  BY <1>1 DEF InterestAt
<1>3. ASSUME NEW t \in Threads, at'[t] = "ctl", ev'[t] \in Live', ev'[t].fd = fd
      PROVE  op'[t].dirs = IF Activates(t)' THEN Registered(fd)' \union {ev'[t].dir}
                                            ELSE Registered(fd)' \ {ev'[t].dir}
  <2>1. at[t] = "ctl" /\ ev'[t] = ev[t] /\ ev[t] \in Live /\ op'[t] = op[t]
        /\ Activates(t)' = Activates(t)
    BY <1>3 DEF Activates
  <2>. QED
    BY <1>1, <1>3, <2>1 DEF InterestAt
<1>4. ASSUME NEW t \in Threads, at'[t] = "free", ev'[t] \in Live', ev'[t].fd = fd
      PROVE  "registered" \notin flags'[ev'[t]]
  <2>1. at[t] = "free" /\ ev'[t] = ev[t] /\ ev[t] \in Live
    BY <1>4
  <2>. QED
    BY <1>1, <1>4, <2>1 DEF InterestAt
<1>. QED
  BY <1>1, <1>2, <1>3, <1>4 DEF InterestAt

(* The same flag, in the same slots. *)
LEMMA RegisteredFrame ==
    ASSUME slot' = slot, \A e \in Events \union {NULL} :
              Has(e, "registered")' <=> Has(e, "registered"),
           TypeOK
    PROVE  \A fd \in Fds : Registered(fd)' = Registered(fd)
<1>. QED
  BY DEF Registered, TypeOK

(* The same slots and the same threads that have an event to count. *)
Adding == {"load", "store"}

LEMMA CountFrame ==
    ASSUME CountMatches, slot' = slot, count' = count, replaced' = replaced,
           miscounted' = miscounted,
           \A t \in Threads : /\ at'[t] = "count" <=> at[t] = "count"
                              /\ at'[t] \in Adding <=> at[t] \in Adding
    PROVE  CountMatches'
<1>1. /\ {t \in Threads : at'[t] = "count"} = {t \in Threads : at[t] = "count"}
      /\ {t \in Threads : at'[t] \in Adding} = {t \in Threads : at[t] \in Adding}
  OBVIOUS
<1>2. UNION {SlotsOf(fd)' : fd \in Fds} = UNION {SlotsOf(fd) : fd \in Fds}
  BY DEF SlotsOf
<1>. QED
  BY <1>1, <1>2 DEF CountMatches, Adding

(* What only one thread does takes away only what that thread keeps.       *)
LEMMA HeldStays ==
    ASSUME slot' = slot, freed \subseteq freed',
           NEW t \in Threads,
           \A u \in Threads : u # t =>
              at'[u] = at[u] /\ ev'[u] = ev[u] /\ call'[u] = call[u],
           NEW e, Held(e),
           Queued(e) => Held(e)',
           Keeps(t, e) => Held(e)'
    PROVE  Held(e)'
<1>1. \A x : Pair(x)' = Pair(x)
  BY DEF Pair, SlotsOf
<1>2. ASSUME NEW u \in Threads, u # t, Keeps(u, e) PROVE Keeps(u, e)'
  BY <1>1, <1>2 DEF Keeps, RunsTask
<1>3. Orphan(e) => Orphan(e)'
  BY DEF Orphan
<1>. QED
  BY <1>2, <1>3 DEF Held

(* What the steps of one thread leave alone of the others: the events that *)
(* they know stay known and what they do is theirs.                        *)
LEMMA OthersStay ==
    ASSUME Control, NEW t \in Threads, Place(t)',
           made \subseteq made', freed \subseteq freed',
           \A e \in made' : Known(e) => Known(e)',
           \A u \in Threads : u # t =>
              /\ at'[u] = at[u] /\ ev'[u] = ev[u] /\ call'[u] = call[u]
              /\ op'[u] = op[u],
           t # Main => ready' = ready,
           nextEv' # NULL => Known(nextEv)',
           \A w \in Workers : \A i \in 1..Len(tasks[w])' : Known(tasks[w][i])'
    PROVE  Control'
<1>1. \A e : Known(e) => Known(e)'
  BY DEF Known
<1>2. ASSUME NEW u \in Threads, u # t PROVE Place(u)'
  BY <1>1, <1>2 DEF Control, Place
<1>. QED
  BY <1>1, <1>2 DEF Control, Waiting

(* A step of one thread that moves no event into or out of a slot: what it *)
(* does to the interest, to the count, to "active" and to the queues is    *)
(* left to show.                                                           *)
LEMMA LocalStep ==
    ASSUME IInv, TypeOK', NEW t \in Threads, Place(t)',
           UNCHANGED <<slot, made, freed>>,
           at[t] # "insert" /\ at'[t] # "insert",
           \A u \in Threads : u # t =>
              /\ at'[u] = at[u] /\ ev'[u] = ev[u] /\ call'[u] = call[u]
              /\ op'[u] = op[u],
           t # Main => ready' = ready,
           nextEv' # NULL => Known(nextEv'),
           \A w \in Workers : \A i \in 1..Len(tasks'[w]) : Known(tasks'[w][i]),
           InterestKnown', CountMatches',
           \A e \in Events :
              /\ flags'[e] \subseteq flags[e] \union {"active", "registered"}
              /\ "registered" \in flags'[e] => "registered" \in flags[e] \/ Known(e)
              /\ "active" \in flags'[e] =>
                    e \in made /\ ("active" \in flags[e] \/ Held(e)')
              /\ Queued(e) => Held(e)'
              /\ "active" \in flags'[e] /\ Keeps(t, e) => Held(e)'
    PROVE  IInv'
<1>. USE DEF IInv
<1>1. \A e : Inserting(e)' <=> Inserting(e)
  BY EventFacts DEF Inserting
<1>2. \A e : Known(e)' <=> Known(e)
  BY <1>1 DEF Known
<1>3. Control'
  <2>1. \A w \in Workers : \A i \in 1..Len(tasks[w])' : Known(tasks[w][i])'
    BY <1>2
  <2>2. nextEv' # NULL => Known(nextEv)'
    BY <1>2
  <2>. QED
    BY <1>2, <2>1, <2>2, OthersStay
<1>4. Tables'
  <2>1. \A e \in Live : ~Inserting(e) => Known(e)
    BY DEF Live, Known
  <2>2. \A e \in Events \ made : flags'[e] = {}
    <3>. SUFFICES ASSUME NEW e \in Events \ made PROVE flags'[e] = {}
      OBVIOUS
    <3>1. flags[e] = {} /\ ~Known(e)
      BY DEF Tables, Known
    <3>. QED
      BY <3>1
  <2>3. \A e \in Events : Inserting(e) => flags'[e] \subseteq {"active"}
    <3>. SUFFICES ASSUME NEW e \in Events, Inserting(e)
                  PROVE  flags'[e] \subseteq {"active"}
      OBVIOUS
    <3>1. flags[e] \subseteq {"active"} /\ ~Known(e)
      BY DEF Tables, Known, Inserting
    <3>. QED
      BY <3>1
  <2>4. Live' = Live
    BY DEF Live
  <2>5. at[Acceptor]' = "insert" => at[Acceptor] = "insert" /\ ev'[Acceptor] = ev[Acceptor]
    BY EventFacts
  <2>6. at[Acceptor] = "insert" =>
           ev[Acceptor] \in Live /\ Inserting(ev[Acceptor])
    BY DEF Tables, Inserting
  <2>7. Live \subseteq Events
    BY DEF Live, TypeOK
  <2>8. at[Acceptor]' = "insert" =>
           ev'[Acceptor] \in Live' /\ flags'[ev'[Acceptor]] \subseteq {"active"}
    BY <2>3, <2>4, <2>5, <2>6, <2>7
  <2>. QED
    BY <1>1, <2>2, <2>4, <2>8 DEF Tables
<1>5. HeldActive'
  <2>. SUFFICES ASSUME NEW e \in Live', "active" \in flags'[e], ~Held(e)'
                PROVE  FALSE
    BY DEF HeldActive
  <2>1. e \in Live /\ e \in Events
    BY DEF Live, TypeOK
  <2>2. Held(e)
    BY <2>1 DEF HeldActive
  <2>. QED
    BY <2>1, <2>2, HeldStays
<1>. QED
  BY <1>3, <1>4, <1>5

(* A step of one thread that tells the kernel nothing and does not count.  *)
LEMMA QuietStep ==
    ASSUME IInv, TypeOK', NEW t \in Threads, Place(t)',
           UNCHANGED <<slot, made, freed, epoll, count>>,
           UNCHANGED <<overlapped, replaced, miscounted>>,
           at[t] \notin {"insert", "load", "store", "count"},
           at'[t] \notin {"insert", "load", "store", "ctl", "free", "count"},
           \A u \in Threads : u # t =>
              /\ at'[u] = at[u] /\ ev'[u] = ev[u] /\ call'[u] = call[u]
              /\ op'[u] = op[u],
           t # Main => ready' = ready,
           nextEv' # NULL => Known(nextEv'),
           \A w \in Workers : \A i \in 1..Len(tasks'[w]) : Known(tasks'[w][i]),
           \A e \in Events :
              /\ flags'[e] \subseteq flags[e] \union {"active"}
              /\ "registered" \in flags'[e] <=> "registered" \in flags[e]
              /\ "active" \in flags'[e] =>
                    e \in made /\ ("active" \in flags[e] \/ Held(e)')
              /\ Queued(e) => Held(e)'
              /\ "active" \in flags'[e] /\ Keeps(t, e) => Held(e)'
    PROVE  IInv'
<1>1. InterestKnown'
  <2>1. \A fd \in Fds : Registered(fd)' = Registered(fd)
    BY RegisteredFrame, EventFacts DEF Has, IInv
  <2>2. \A u \in Threads : at'[u] \in {"ctl", "free"} => ev[u] \in Events
    <3>1. \A u \in Threads : ev[u] = NULL => at[u] \notin {"ctl", "free"}
      BY DEF IInv, Control, Place
    <3>2. \A u \in Threads : at'[u] \in {"ctl", "free"} => at[u] = at'[u]
      OBVIOUS
    <3>. QED
      BY <3>1, <3>2 DEF IInv, TypeOK
  <2>3. Live' = Live
    BY DEF Live
  <2>4. \A u \in Threads : at'[u] \in {"ctl", "free"} =>
           /\ at[u] = at'[u] /\ ev'[u] = ev[u] /\ op'[u] = op[u]
           /\ call'[u] = call[u]
           /\ ev[u] \in Live' => ev[u] \in Live
           /\ "registered" \in flags'[ev[u]] => "registered" \in flags[ev[u]]
    BY <2>2, <2>3
  <2>. QED
    BY <2>1, <2>4, InterestFrame
<1>2. CountMatches'
  BY CountFrame DEF IInv, Adding
<1>. QED
  BY <1>1, <1>2, LocalStep

(* A return leaves the thread in no call, knowing at most the next event.  *)
LEMMA ReturnPlace ==
    ASSUME TypeOK, Control, NEW t \in Threads, at[t] # "insert", Return(t),
           made' = made
    PROVE  Place(t)' /\ (nextEv' # NULL => Known(nextEv'))
<1>1. \A e : Known(e) => Known(e)'
  <2>1. at'[Acceptor] = "insert" => at[Acceptor] = "insert" /\ ev'[Acceptor] = ev[Acceptor]
    BY ReturnFacts, EventFacts
  <2>. QED
    BY <2>1 DEF Known, Inserting
<1>. QED
  BY <1>1, ReturnFacts, EventFacts DEF Place, Control, Waiting

-----------------------------------------------------------------------------
LEMMA ReleaseIInv ==
    ASSUME IInv, NEW t \in Threads, Release(t)
    PROVE  IInv'
<1>. USE DEF IInv
<1>1. /\ flags' \in [Events -> SUBSET Flags]
      /\ \A e \in Events : flags'[e] \subseteq flags[e]
      /\ \A e \in Events : "registered" \in flags'[e] <=> "registered" \in flags[e]
      /\ \A e \in Events : "active" \in flags'[e] => e # ev[t]
  BY FlagsCleared DEF Release, Flags
<1>2. at[t] = "release" /\ call[t] = "add" /\ t = Acceptor
  BY DEF Release, Works, Control, Place
<1>3. TypeOK'
  BY <1>1, ReturnFacts DEF Release, TypeOK
<1>4. Place(t)' /\ (nextEv' # NULL => Known(nextEv'))
  BY <1>2, ReturnPlace DEF Release
<1>5. \A e \in Events : "active" \in flags'[e] => e \in made /\ ~Keeps(t, e)
  BY <1>1, <1>2, EventFacts DEF Tables, Keeps
<1>6. \A e : Queued(e) => Held(e)'
  BY DEF Release, Queued, Held
<1>7. \A w \in Workers : \A i \in 1..Len(tasks'[w]) : Known(tasks'[w][i])
  BY DEF Release, Control, Waiting
<1>. QED
  BY <1>1, <1>2, <1>3, <1>4, <1>5, <1>6, <1>7, ReturnFacts, QuietStep
     DEF Release, history

LEMMA UndoIInv ==
    ASSUME IInv, NEW t \in Threads, Undo(t)
    PROVE  IInv'
<1>. USE DEF IInv
<1>1. /\ flags' \in [Events -> SUBSET Flags]
      /\ \A e \in Events : flags'[e] \subseteq flags[e]
      /\ \A e \in Events : "registered" \in flags'[e] <=> "registered" \in flags[e]
      /\ \A e \in Events : "active" \in flags'[e] => e \notin Pair(ev[t])
  BY FlagsCleared DEF Undo, Flags
<1>2. at[t] = "undo" /\ call[t] \in {"add", "del"} /\ ev[t] \notin freed
      /\ Known(ev[t]) /\ ev[t] \in Events
  BY DEF Undo, Works, Dangling, Control, Place, TypeOK
<1>3. TypeOK'
  BY <1>1, ReturnFacts DEF Undo, TypeOK
<1>4. Place(t)' /\ (nextEv' # NULL => Known(nextEv'))
  BY <1>2, ReturnPlace DEF Undo
<1>5. ev[t] \in Pair(ev[t])
  BY <1>2, PairFacts DEF Tables, Known, Live
<1>6. t \in Workers => call[t] = "del"
  BY <1>2, EventFacts DEF Control, Place
<1>7. \A e \in Events : "active" \in flags'[e] => e \in made /\ ~Keeps(t, e)
  BY <1>1, <1>2, <1>5, <1>6 DEF Tables, Keeps, RunsTask
<1>8. \A e : Queued(e) => Held(e)'
  BY DEF Undo, Queued, Held
<1>9. \A w \in Workers : \A i \in 1..Len(tasks'[w]) : Known(tasks'[w][i])
  BY DEF Undo, Control, Waiting
<1>. QED
  BY <1>1, <1>2, <1>3, <1>4, <1>7, <1>8, <1>9, ReturnFacts, QuietStep
     DEF Undo

LEMMA DelRefusedIInv ==
    ASSUME IInv, NEW t \in Threads, DelRefused(t)
    PROVE  IInv'
<1>. USE DEF IInv
<1>1. at[t] = "delete" /\ call[t] = "none"
  BY DEF DelRefused, Works, Control, Place
<1>2. TypeOK'
  BY ReturnFacts DEF DelRefused, TypeOK, shared
<1>3. Place(t)' /\ (nextEv' # NULL => Known(nextEv'))
  BY <1>1, ReturnPlace DEF DelRefused, shared
<1>4. \A e : ~Keeps(t, e)
  BY <1>1 DEF Keeps, RunsTask
<1>5. \A e : Queued(e) => Held(e)'
  BY DEF DelRefused, shared, Queued, Held
<1>6. \A w \in Workers : \A i \in 1..Len(tasks'[w]) : Known(tasks'[w][i])
  BY DEF DelRefused, shared, Control, Waiting
<1>7. \A e \in Events : "active" \in flags[e] => e \in made
  BY DEF Tables
<1>. QED
  BY <1>1, <1>2, <1>3, <1>4, <1>5, <1>6, <1>7, ReturnFacts, QuietStep
     DEF DelRefused, shared, history

LEMMA CtlFailsIInv ==
    ASSUME IInv, NEW t \in Threads, CtlFails(t)
    PROVE  IInv'
<1>. USE DEF IInv
<1>1. /\ at[t] = "ctl" /\ ev' = ev /\ call' = call
      /\ at'[t] = IF call[t] \in {"add", "del"} THEN "undo" ELSE "run"
      /\ \A u \in Threads : u # t => at'[u] = at[u] /\ op'[u] = op[u]
      /\ UNCHANGED <<shared, dispatch, history>>
  BY DEF CtlFails, Works, Goto, OnFailure, TypeOK
<1>2. TypeOK'
  BY <1>1 DEF CtlFails, Goto, OnFailure, TypeOK, shared, dispatch
<1>3. call[t] # "none" /\ ev[t] # NULL /\ Known(ev[t]) /\ (call[t] = "add" => t = Acceptor)
  BY <1>1 DEF Control, Place
<1>4. \A e : Known(e) => Known(e)'
  BY <1>1, EventFacts DEF Known, Inserting, shared, TypeOK
<1>5. Place(t)'
  BY <1>1, <1>3, <1>4 DEF Place, TypeOK
<1>6. \A e : Keeps(t, e) => Held(e)'
  <2>1. \A e : Pair(e)' = Pair(e)
    BY <1>1 DEF Pair, SlotsOf, shared
  <2>. QED
    BY <1>1, <2>1 DEF Keeps, Held, RunsTask
<1>7. \A e : Queued(e) => Held(e)'
  BY <1>1 DEF shared, Queued, Held
<1>8. \A w \in Workers : \A i \in 1..Len(tasks'[w]) : Known(tasks'[w][i])
  BY <1>1 DEF shared, Control, Waiting
<1>9. \A e \in Events : "active" \in flags[e] => e \in made
  BY DEF Tables
<1>. QED
  BY <1>1, <1>2, <1>5, <1>6, <1>7, <1>8, <1>9, QuietStep
     DEF shared, dispatch, history, Control, Waiting

LEMMA DelEventIInv ==
    ASSUME IInv, NEW t \in Threads, DelEvent(t)
    PROVE  IInv'
<1>. USE DEF IInv
<1>1. /\ at[t] = "delete" /\ ev' = ev /\ at'[t] = "prepare" /\ call'[t] = "del"
      /\ \A u \in Threads : u # t => at'[u] = at[u] /\ call'[u] = call[u]
      /\ UNCHANGED <<slot, made, freed, epoll, count, tasks, op, dispatch, history>>
  BY DEF DelEvent, Works, Enter, Goto, TypeOK
<1>2. Known(ev[t]) /\ ev[t] \in Live /\ ev[t] \in Events
  BY DEF DelEvent, Works, Dangling, Control, Place, TypeOK, Known, Live
<1>3. /\ flags' \in [Events -> SUBSET Flags]
      /\ \A e \in Events : flags'[e] \subseteq flags[e] \union {"active"}
      /\ \A e \in Events : "registered" \in flags'[e] <=> "registered" \in flags[e]
      /\ \A e \in Events : "active" \in flags'[e] =>
            "active" \in flags[e] \/ e \in Pair(ev[t])
  <2>. DEFINE F == With(Pair(ev[t]), "active")
  <2>1. /\ F \in [Events -> SUBSET Flags]
        /\ \A e \in Events : F[e] =
              flags[e] \union (IF e \in Pair(ev[t]) THEN {"active"} ELSE {})
    BY FlagsSet DEF Flags
  <2>2. flags' = [F EXCEPT ![ev[t]] = F[ev[t]] \ {"inserted"}]
    BY DEF DelEvent, EventQueueRemove
  <2>. HIDE DEF F
  <2>. QED
    BY <1>2, <2>1, <2>2
<1>4. TypeOK'
  BY <1>1, <1>3 DEF DelEvent, Enter, Goto, TypeOK, dispatch
<1>5. \A e : Known(e) => Known(e)'
  BY <1>1, EventFacts DEF Known, Inserting, TypeOK
<1>6. Place(t)'
  BY <1>1, <1>2, <1>5, EventFacts DEF Place, TypeOK
<1>7. \A e \in Pair(ev[t]) : e \in made /\ Held(e)'
  <2>1. \A e : Pair(e)' = Pair(e)
    BY <1>1 DEF Pair, SlotsOf
  <2>. QED
    BY <1>1, <1>2, <2>1, PairFacts DEF Keeps, Held, Live
<1>8. \A e : ~Keeps(t, e)
  BY <1>1, EventFacts DEF Keeps, RunsTask, Control, Place
<1>9. \A e : Queued(e) => Held(e)'
  BY <1>1 DEF Queued, Held
<1>10. \A w \in Workers : \A i \in 1..Len(tasks'[w]) : Known(tasks'[w][i])
  BY <1>1 DEF Control, Waiting
<1>11. \A e \in Events : "active" \in flags[e] => e \in made
  BY DEF Tables
<1>. QED
  BY <1>1, <1>3, <1>4, <1>6, <1>7, <1>8, <1>9, <1>10, <1>11, QuietStep
     DEF dispatch, history, Control, Waiting

LEMMA WaitIInv ==
    ASSUME IInv, Wait
    PROVE  IInv'
<1>. USE DEF IInv
<1>1. /\ at[Main] = "idle" /\ at'[Main] = "entry" /\ ev' = ev /\ call' = call
      /\ ready' \in [fd : Fds, why : Dirs \union {"error"}]
      /\ \A u \in Threads : u # Main => at'[u] = at[u]
      /\ UNCHANGED <<shared, op, seen, nextEv, history>>
  BY EventFacts DEF Wait, Goto, TypeOK
<1>2. TypeOK'
  BY <1>1 DEF Wait, Goto, TypeOK, shared
<1>3. call[Main] = "none" /\ ev[Main] = NULL
  BY <1>1, EventFacts DEF Control, Place
<1>4. Place(Main)'
  BY <1>1, <1>3, EventFacts DEF Place
<1>5. \A e : ~Keeps(Main, e)
  BY <1>1, <1>3, EventFacts DEF Keeps, RunsTask
<1>6. \A e : Queued(e) => Held(e)'
  BY <1>1 DEF shared, Queued, Held
<1>7. \A w \in Workers : \A i \in 1..Len(tasks'[w]) : Known(tasks'[w][i])
  BY <1>1 DEF shared, Control, Waiting
<1>8. \A e \in Events : "active" \in flags[e] => e \in made
  BY DEF Tables
<1>. QED
  BY <1>1, <1>2, <1>4, <1>5, <1>6, <1>7, <1>8, QuietStep, EventFacts
     DEF shared, history, Control, Waiting

LEMMA HangUpIInv ==
    ASSUME IInv, HangUp
    PROVE  IInv'
<1>. USE DEF IInv
<1>1. /\ at[Main] = "entry" /\ call[Main] = "none" /\ ready.fd \in Fds
      /\ UNCHANGED <<shared, op, seen, history>>
  BY EventFacts DEF HangUp, Control, Place
<1>2. \/ Return(Main)
      \/ /\ ev'[Main] \in Events /\ Known(ev'[Main])
         /\ ev' \in [Threads -> Events \union {NULL}]
         /\ nextEv' \in Events \union {NULL} /\ (nextEv' # NULL => Known(nextEv'))
         /\ ready' = NULL /\ at' = [at EXCEPT ![Main] = "delete"] /\ call' = call
         /\ \A u \in Threads : u # Main => ev'[u] = ev[u]
  <2>1. \A d \in Dirs : slot[ready.fd][d] # NULL =>
           slot[ready.fd][d] \in Events /\ Known(slot[ready.fd][d])
    BY <1>1 DEF Tables, Known, Live, TypeOK
  <2>. DEFINE r == slot[ready.fd]["read"]
              w == slot[ready.fd]["write"]
              first == IF r = NULL THEN w ELSE r
  <2>2. /\ r \in Events \union {NULL} /\ (r # NULL => Known(r))
        /\ w \in Events \union {NULL} /\ (w # NULL => Known(w))
    BY <1>1, <2>1, EventFacts DEF TypeOK
  <2>3. \/ Return(Main)
        \/ /\ ev' = [ev EXCEPT ![Main] = first] /\ first # NULL
           /\ nextEv' = IF r = NULL THEN NULL ELSE w
           /\ ready' = NULL /\ at' = [at EXCEPT ![Main] = "delete"] /\ call' = call
    BY DEF HangUp, Goto
  <2>4. ev \in [Threads -> Events \union {NULL}] /\ Main \in Threads
    BY EventFacts DEF TypeOK
  <2>5. first # NULL => first \in Events /\ Known(first)
    BY <2>2
  <2>6. r # NULL /\ w # NULL => Known(w)
    BY <2>2
  <2>. HIDE DEF r, w, first
  <2>. QED
    BY <2>2, <2>3, <2>4, <2>5
<1>3. TypeOK'
  <2>1. CASE Return(Main)
    BY <1>1, <2>1, ReturnFacts, EventFacts DEF TypeOK, shared
  <2>2. CASE ~Return(Main)
    BY <1>1, <1>2, <2>2, EventFacts DEF TypeOK, shared
  <2>. QED
    BY <2>1, <2>2
<1>4. /\ at'[Main] \in {"idle", "delete"}
      /\ \A u \in Threads : u # Main =>
            at'[u] = at[u] /\ ev'[u] = ev[u] /\ call'[u] = call[u]
  BY <1>2, ReturnFacts, EventFacts DEF TypeOK
<1>5. Place(Main)' /\ (nextEv' # NULL => Known(nextEv'))
  <2>1. CASE Return(Main)
    BY <1>1, <2>1, ReturnPlace, EventFacts DEF shared
  <2>2. CASE ~Return(Main)
    <3>1. \A e : Known(e) => Known(e)'
      BY <1>1, <1>4, EventFacts DEF Known, Inserting, shared
    <3>. QED
      BY <1>1, <1>2, <2>2, <3>1, EventFacts DEF Place, TypeOK
  <2>. QED
    BY <2>1, <2>2
<1>6. \A e : ~Keeps(Main, e)
  BY <1>1, EventFacts DEF Keeps, RunsTask
<1>7. \A e : Queued(e) => Held(e)'
  BY <1>1 DEF shared, Queued, Held
<1>8. \A w \in Workers : \A i \in 1..Len(tasks'[w]) : Known(tasks'[w][i])
  BY <1>1 DEF shared, Control, Waiting
<1>9. \A e \in Events : "active" \in flags[e] => e \in made
  BY DEF Tables
<1>. QED
  BY <1>1, <1>3, <1>4, <1>5, <1>6, <1>7, <1>8, <1>9, QuietStep, EventFacts
     DEF shared, history

LEMMA CaptureIInv ==
    ASSUME IInv, Capture
    PROVE  IInv'
<1>. USE DEF IInv
<1>1. /\ at[Main] = "entry" /\ at'[Main] = "hand" /\ call' = call
      /\ ev'[Main] = slot[ready.fd][ready.why] /\ ready.why # "error"
      /\ \A u \in Threads : u # Main => at'[u] = at[u] /\ ev'[u] = ev[u]
      /\ UNCHANGED <<shared, op, seen, dispatch, history>>
  BY EventFacts DEF Capture, Goto, TypeOK
<1>2. /\ call[Main] = "none"
      /\ ready \in [fd : Fds, why : Dirs \union {"error"}] /\ ready.why \in Dirs
  BY <1>1, EventFacts DEF Control, Place
<1>3. ev'[Main] # NULL => Known(ev'[Main])
  BY <1>1, <1>2 DEF Tables, Known, Live
<1>4. TypeOK'
  BY <1>1, <1>2 DEF Capture, Goto, TypeOK, shared, dispatch
<1>5. \A e : Known(e) => Known(e)'
  BY <1>1, EventFacts DEF Known, Inserting, shared
<1>6. Place(Main)'
  BY <1>1, <1>2, <1>3, <1>5, EventFacts DEF Place, dispatch
<1>7. \A e : ~Keeps(Main, e)
  BY <1>1, <1>2, EventFacts DEF Keeps, RunsTask
<1>8. \A e : Queued(e) => Held(e)'
  BY <1>1 DEF shared, Queued, Held
<1>9. \A w \in Workers : \A i \in 1..Len(tasks'[w]) : Known(tasks'[w][i])
  BY <1>1 DEF shared, Control, Waiting
<1>10. \A e \in Events : "active" \in flags[e] => e \in made
  BY DEF Tables
<1>. QED
  BY <1>1, <1>4, <1>6, <1>7, <1>8, <1>9, <1>10, QuietStep, EventFacts
     DEF shared, dispatch, history, Control, Waiting

LEMMA NoEventIInv ==
    ASSUME IInv, NoEvent
    PROVE  IInv'
<1>. USE DEF IInv
<1>1. at[Main] = "hand" /\ call[Main] = "none"
  BY EventFacts DEF NoEvent, Control, Place
<1>2. TypeOK'
  BY ReturnFacts, EventFacts DEF NoEvent, TypeOK, shared
<1>3. Place(Main)' /\ (nextEv' # NULL => Known(nextEv'))
  BY <1>1, ReturnPlace, EventFacts DEF NoEvent, shared
<1>4. \A e : ~Keeps(Main, e)
  BY <1>1, EventFacts DEF Keeps, RunsTask
<1>5. \A e : Queued(e) => Held(e)'
  BY DEF NoEvent, shared, Queued, Held
<1>6. \A w \in Workers : \A i \in 1..Len(tasks'[w]) : Known(tasks'[w][i])
  BY DEF NoEvent, shared, Control, Waiting
<1>7. \A e \in Events : "active" \in flags[e] => e \in made
  BY DEF Tables
<1>. QED
  BY <1>1, <1>2, <1>3, <1>4, <1>5, <1>6, <1>7, ReturnFacts, QuietStep, EventFacts
     DEF NoEvent, shared, history

LEMMA AddTaskIInv ==
    ASSUME IInv, NEW w \in Workers, AddTask(w)
    PROVE  IInv'
<1>. USE DEF IInv
<1>1. /\ at[Main] = "hand" /\ call[Main] = "none"
      /\ ev[Main] \in Events /\ Known(ev[Main]) /\ Return(Main)
      /\ UNCHANGED <<slot, made, freed, epoll, count, op, seen, history>>
  BY EventFacts DEF AddTask, Works, Control, Place, TypeOK
<1>2. /\ flags' \in [Events -> SUBSET Flags]
      /\ \A e \in Events : flags'[e] \subseteq flags[e] \union {"active"}
      /\ \A e \in Events : "registered" \in flags'[e] <=> "registered" \in flags[e]
      /\ \A e \in Events : "active" \in flags'[e] =>
            "active" \in flags[e] \/ e = ev[Main]
  BY FlagsSet DEF AddTask, Flags
<1>3. tasks[w] \in Seq(Events) /\ tasks' = [tasks EXCEPT ![w] = Append(tasks[w], ev[Main])]
  BY DEF AddTask, PushTask, TypeOK
<1>4. /\ tasks'[w] \in Seq(Events) /\ Len(tasks'[w]) = Len(tasks[w]) + 1
      /\ \A i \in 1..Len(tasks[w]) : tasks'[w][i] = tasks[w][i]
      /\ tasks'[w][Len(tasks[w]) + 1] = ev[Main]
      /\ \A v \in Workers : v # w => tasks'[v] = tasks[v]
      /\ tasks' \in [Workers -> Seq(Events)]
  <2>1. /\ Append(tasks[w], ev[Main]) \in Seq(Events)
        /\ Len(Append(tasks[w], ev[Main])) = Len(tasks[w]) + 1
        /\ \A i \in 1..Len(tasks[w]) : Append(tasks[w], ev[Main])[i] = tasks[w][i]
        /\ Append(tasks[w], ev[Main])[Len(tasks[w]) + 1] = ev[Main]
    BY <1>1, <1>3
  <2>2. tasks'[w] = Append(tasks[w], ev[Main]) /\ \A v \in Workers : v # w => tasks'[v] = tasks[v]
    BY <1>3 DEF TypeOK
  <2>3. tasks' \in [Workers -> Seq(Events)]
    BY <1>3, <2>1 DEF TypeOK
  <2>. QED
    BY <2>1, <2>2, <2>3
<1>5. Len(tasks[w]) \in Nat
  BY <1>3
<1>6. TypeOK'
  BY <1>1, <1>2, <1>4, ReturnFacts, EventFacts DEF TypeOK
<1>7. Place(Main)' /\ (nextEv' # NULL => Known(nextEv'))
  BY <1>1, ReturnPlace, EventFacts
<1>8. \A e : ~Keeps(Main, e)
  BY <1>1, EventFacts DEF Keeps, RunsTask
<1>9. \A e : Queued(e) => Held(e)'
  <2>. SUFFICES ASSUME NEW e, Queued(e) PROVE Queued(e)'
    BY DEF Held
  <2>1. PICK v \in Workers : \E i \in 1..Len(tasks[v]) : tasks[v][i] = e
    BY DEF Queued
  <2>2. PICK i \in 1..Len(tasks[v]) : tasks[v][i] = e
    BY <2>1
  <2>3. i \in 1..Len(tasks'[v]) /\ tasks'[v][i] = e
    BY <1>4, <1>5, <2>2
  <2>. QED
    BY <2>3 DEF Queued
<1>10. \A e : e = ev[Main] => Held(e)'
  <2>1. Len(tasks[w]) + 1 \in 1..Len(tasks'[w])
    BY <1>4, <1>5
  <2>2. \E i \in 1..Len(tasks'[w]) : tasks'[w][i] = ev[Main]
    BY <1>4, <2>1
  <2>. QED
    BY <2>2 DEF Held, Queued
<1>11. \A v \in Workers : \A i \in 1..Len(tasks'[v]) : Known(tasks'[v][i])
  <2>1. ASSUME NEW i \in 1..Len(tasks'[w]) PROVE Known(tasks'[w][i])
    <3>1. CASE i \in 1..Len(tasks[w])
      BY <1>4, <3>1 DEF Control, Waiting
    <3>2. CASE i = Len(tasks[w]) + 1
      BY <1>1, <1>4, <3>2
    <3>. QED
      BY <1>4, <1>5, <2>1, <3>1, <3>2
  <2>. QED
    BY <1>4, <2>1 DEF Control, Waiting
<1>12. \A e \in Events : "active" \in flags[e] => e \in made
  BY DEF Tables
<1>. QED
  BY <1>1, <1>2, <1>6, <1>7, <1>8, <1>9, <1>10, <1>11, <1>12, ReturnFacts, QuietStep,
     EventFacts DEF history, Known

LEMMA ExecuteIInv ==
    ASSUME IInv, NEW w \in Workers, Execute(w)
    PROVE  IInv'
<1>. USE DEF IInv
<1>1. /\ at[w] = "idle" /\ call[w] = "none" /\ ev[w] = NULL /\ tasks[w] # <<>>
      /\ tasks[w] \in Seq(Events) /\ w \in Threads
  BY EventFacts DEF Execute, Control, Place, TypeOK
<1>2. /\ Head(tasks[w]) \in Events /\ Head(tasks[w]) = tasks[w][1]
      /\ Tail(tasks[w]) \in Seq(Events) /\ Len(tasks[w]) \in Nat /\ Len(tasks[w]) > 0
      /\ Len(Tail(tasks[w])) = Len(tasks[w]) - 1
      /\ \A i \in 1..Len(Tail(tasks[w])) : Tail(tasks[w])[i] = tasks[w][i + 1]
  BY <1>1, HeadTailProperties
<1>3. /\ at' = [at EXCEPT ![w] = "run"] /\ ev' = [ev EXCEPT ![w] = Head(tasks[w])]
      /\ tasks' = [tasks EXCEPT ![w] = Tail(tasks[w])]
      /\ UNCHANGED <<slot, flags, made, freed, epoll, count, call, op, seen>>
      /\ UNCHANGED <<dispatch, history>>
  BY DEF Execute, Goto
<1>4. /\ at'[w] = "run" /\ ev'[w] = tasks[w][1] /\ tasks'[w] = Tail(tasks[w])
      /\ \A u \in Threads : u # w => at'[u] = at[u] /\ ev'[u] = ev[u]
      /\ \A v \in Workers : v # w => tasks'[v] = tasks[v]
  BY <1>1, <1>2, <1>3 DEF TypeOK
<1>5. TypeOK'
  BY <1>1, <1>2, <1>3 DEF TypeOK, dispatch
<1>6. \A e : Known(e) => Known(e)'
  BY <1>3, <1>4, EventFacts DEF Known, Inserting
<1>7. Known(ev'[w]) /\ ev'[w] # NULL
  BY <1>2, <1>4, EventFacts DEF Control, Waiting
<1>8. Place(w)'
  BY <1>1, <1>3, <1>4, <1>6, <1>7, EventFacts DEF Place
<1>9. \A e \in Events : ~Keeps(w, e)
  BY <1>1, EventFacts DEF Keeps, RunsTask
<1>10. \A e : Queued(e) => Held(e)'
  <2>. SUFFICES ASSUME NEW e, Queued(e) PROVE Held(e)'
    OBVIOUS
  <2>1. PICK v \in Workers : \E i \in 1..Len(tasks[v]) : tasks[v][i] = e
    BY DEF Queued
  <2>2. PICK i \in 1..Len(tasks[v]) : tasks[v][i] = e
    BY <2>1
  <2>3. CASE v # w
    <3>1. \E j \in 1..Len(tasks'[v]) : tasks'[v][j] = e
      BY <1>4, <2>2, <2>3
    <3>. QED
      BY <3>1 DEF Held, Queued
  <2>4. CASE v = w /\ i = 1
    <3>1. RunsTask(w, e)'
      BY <1>1, <1>3, <1>4, <2>2, <2>4 DEF RunsTask
    <3>. QED
      BY <1>1, <3>1 DEF Held, Keeps
  <2>5. CASE v = w /\ i # 1
    <3>1. i - 1 \in 1..Len(Tail(tasks[w])) /\ (i - 1) + 1 = i
      BY <1>2, <2>2, <2>5
    <3>2. Tail(tasks[w])[i - 1] = tasks[w][(i - 1) + 1]
      BY <1>2, <3>1
    <3>3. i - 1 \in 1..Len(tasks'[v]) /\ tasks'[v][i - 1] = e
      BY <1>4, <2>2, <2>5, <3>1, <3>2
    <3>. QED
      BY <3>3 DEF Held, Queued
  <2>. QED
    BY <2>3, <2>4, <2>5
<1>11. \A v \in Workers : \A i \in 1..Len(tasks'[v]) : Known(tasks'[v][i])
  <2>1. ASSUME NEW i \in 1..Len(tasks'[w]) PROVE Known(tasks'[w][i])
    <3>1. i + 1 \in 1..Len(tasks[w]) /\ tasks'[w][i] = tasks[w][i + 1]
      BY <1>2, <1>4, <2>1
    <3>. QED
      BY <3>1 DEF Control, Waiting
  <2>. QED
    BY <1>4, <2>1 DEF Control, Waiting
<1>12. \A e \in Events : "active" \in flags[e] => e \in made
  BY DEF Tables
<1>. QED
  BY <1>1, <1>3, <1>4, <1>5, <1>8, <1>9, <1>10, <1>11, <1>12, QuietStep
     DEF dispatch, history, Control, Waiting

LEMMA PauseOrResumeIInv ==
    ASSUME IInv, NEW w \in Workers, PauseOrResume(w)
    PROVE  IInv'
<1>. USE DEF IInv
<1>1. /\ at[w] = "run" /\ at'[w] = "prepare" /\ ev' = ev /\ w \in Threads
      /\ call'[w] \in {"pause", "resume"}
      /\ \A u \in Threads : u # w => at'[u] = at[u] /\ call'[u] = call[u]
      /\ UNCHANGED <<shared, op, seen, dispatch, history>>
  BY EventFacts DEF PauseOrResume, Works, Enter, Goto, TypeOK
<1>2. TypeOK'
  BY <1>1 DEF PauseOrResume, Enter, Goto, TypeOK, shared, dispatch
<1>3. call[w] \in {"none", "pause", "resume"} /\ ev[w] # NULL /\ Known(ev[w])
  BY <1>1 DEF Control, Place
<1>4. \A e : Known(e) => Known(e)'
  BY <1>1, EventFacts DEF Known, Inserting, shared
<1>5. Place(w)'
  BY <1>1, <1>3, <1>4, EventFacts DEF Place
<1>6. \A e : Keeps(w, e) => Held(e)'
  BY <1>1, <1>3 DEF Keeps, RunsTask, Held
<1>7. \A e : Queued(e) => Held(e)'
  BY <1>1 DEF shared, Queued, Held
<1>8. \A v \in Workers : \A i \in 1..Len(tasks'[v]) : Known(tasks'[v][i])
  BY <1>1 DEF shared, Control, Waiting
<1>9. \A e \in Events : "active" \in flags[e] => e \in made
  BY DEF Tables
<1>. QED
  BY <1>1, <1>2, <1>5, <1>6, <1>7, <1>8, <1>9, QuietStep
     DEF shared, dispatch, history, Control, Waiting

LEMMA TaskEndsIInv ==
    ASSUME IInv, NEW w \in Workers, TaskEnds(w)
    PROVE  IInv'
<1>. USE DEF IInv
<1>1. /\ flags' \in [Events -> SUBSET Flags]
      /\ \A e \in Events : flags'[e] \subseteq flags[e]
      /\ \A e \in Events : "registered" \in flags'[e] <=> "registered" \in flags[e]
      /\ \A e \in Events : "active" \in flags'[e] => e # ev[w]
  BY FlagsCleared DEF TaskEnds, Flags
<1>2. /\ at[w] = "run" /\ w \in Threads /\ call[w] \in {"none", "pause", "resume"}
      /\ ev[w] # NULL /\ Known(ev[w])
      /\ UNCHANGED <<slot, made, freed, epoll, count, tasks, op, seen, history>>
  BY EventFacts DEF TaskEnds, Works, Control, Place
<1>3. \/ Return(w)
      \/ /\ at' = [at EXCEPT ![w] = "delete"] /\ call' = [call EXCEPT ![w] = "none"]
         /\ UNCHANGED <<ev, ready, nextEv>>
  BY DEF TaskEnds, Enter, Goto, dispatch
<1>4. TypeOK'
  <2>1. CASE Return(w)
    BY <1>1, <1>2, <2>1, ReturnFacts DEF TypeOK
  <2>2. CASE ~Return(w)
    BY <1>1, <1>2, <1>3, <2>2 DEF TypeOK
  <2>. QED
    BY <2>1, <2>2
<1>5. /\ at'[w] \in {"idle", "delete"} /\ ready' = ready
      /\ \A u \in Threads : u # w =>
            at'[u] = at[u] /\ ev'[u] = ev[u] /\ call'[u] = call[u]
  BY <1>2, <1>3, ReturnFacts, EventFacts DEF TypeOK
<1>6. Place(w)' /\ (nextEv' # NULL => Known(nextEv'))
  <2>1. CASE Return(w)
    BY <1>2, <2>1, ReturnPlace
  <2>2. CASE ~Return(w)
    <3>1. \A e : Known(e) => Known(e)'
      BY <1>2, <1>3, <1>5, <2>2, EventFacts DEF Known, Inserting
    <3>. QED
      BY <1>2, <1>3, <2>2, <3>1, EventFacts DEF Place, TypeOK, Control, Waiting
  <2>. QED
    BY <2>1, <2>2
<1>7. \A e \in Events : "active" \in flags'[e] => e \in made /\ ~Keeps(w, e)
  BY <1>1, <1>2, EventFacts DEF Tables, Keeps, RunsTask
<1>8. \A e : Queued(e) => Held(e)'
  BY <1>2 DEF Queued, Held
<1>9. \A v \in Workers : \A i \in 1..Len(tasks'[v]) : Known(tasks'[v][i])
  BY <1>2 DEF Control, Waiting
<1>. QED
  BY <1>1, <1>2, <1>4, <1>5, <1>6, <1>7, <1>8, <1>9, QuietStep DEF history

LEMMA CrashIInv ==
    ASSUME IInv, NEW t \in Threads, Crash(t)
    PROVE  IInv'
<1>1. UNCHANGED <<shared, local, dispatch, overlapped, replaced, miscounted>>
  BY DEF Crash
<1>2. TypeOK' /\ Tables'
  BY <1>1 DEF IInv, TypeOK, Tables, Live, Inserting, shared, local, dispatch
<1>3. Control'
  BY <1>1 DEF IInv, Control, Waiting, Place, Known, Inserting, shared, local, dispatch
<1>4. InterestKnown'
  <2>1. slot' = slot /\ epoll' = epoll /\ flags' = flags /\ Live' = Live
    BY <1>1 DEF shared, Live
  <2>2. at' = at /\ ev' = ev /\ call' = call /\ op' = op
    BY <1>1 DEF local
  <2>3. \A fd : Registered(fd)' = Registered(fd)
    BY <2>1 DEF Registered, Has
  <2>. QED
    BY <1>1, <1>2, <2>1, <2>2, <2>3, InterestFrame DEF IInv
<1>5. CountMatches'
  BY <1>1, CountFrame DEF IInv, shared, local
<1>6. HeldActive'
  BY <1>1 DEF IInv, HeldActive, Held, Keeps, RunsTask, Pair, SlotsOf, Queued, Orphan,
              Live, shared, local
<1>. QED
  BY <1>2, <1>3, <1>4, <1>5, <1>6 DEF IInv

-----------------------------------------------------------------------------
LEMMA PrepareIInv ==
    ASSUME IInv, NEW t \in Threads, Prepare(t)
    PROVE  IInv'
<1>. USE DEF IInv
<1>1. /\ at[t] = "prepare" /\ ev[t] \notin freed
      /\ UNCHANGED <<shared, ev, call, seen, dispatch, undone, replaced, miscounted>>
      /\ overlapped \subseteq overlapped'
      /\ \/ /\ Activates(t) = Has(ev[t], "registered")
            /\ at' = [at EXCEPT ![t] = OnSuccess(call[t])] /\ op' = op
         \/ /\ at' = [at EXCEPT ![t] = "ctl"]
            /\ op' = [op EXCEPT ![t] =
                         IF Activates(t) THEN ActiveOp(ev[t]) ELSE UnactiveOp(ev[t])]
  BY DEF Prepare, Works, Goto, Dangling
<1>2. /\ call[t] \in {"add", "del", "pause", "resume"} /\ ev[t] # NULL
      /\ ev[t] \in Events /\ Known(ev[t]) /\ (call[t] = "add" => t = Acceptor)
  BY <1>1 DEF Control, Place, TypeOK
<1>3. Registered(ev[t].fd) \subseteq Dirs
  BY DEF Registered
<1>4. ActiveOp(ev[t]) \in Ops /\ UnactiveOp(ev[t]) \in Ops
  BY <1>2, <1>3, EventFacts DEF ActiveOp, UnactiveOp, Ops
<1>5. \/ /\ at'[t] = OnSuccess(call[t])
         /\ at'[t] \in {"release", "free", "run"}
         /\ at'[t] = "release" => call[t] = "add"
         /\ at'[t] = "run" => call[t] \in {"pause", "resume"}
         /\ at'[t] = "free" => call[t] = "del" /\ ~Has(ev[t], "registered")
      \/ /\ at'[t] = "ctl" /\ op'[t] \in Ops
         /\ op'[t] = IF Activates(t) THEN ActiveOp(ev[t]) ELSE UnactiveOp(ev[t])
  BY <1>1, <1>2, <1>4 DEF TypeOK, OnSuccess, Activates
<1>6. \A u \in Threads : u # t => at'[u] = at[u] /\ op'[u] = op[u]
  BY <1>1 DEF TypeOK
<1>7. TypeOK'
  <2>1. at' \in [Threads -> {"idle", "insert", "load", "store", "release",
                             "undo", "prepare", "ctl", "delete", "free", "count",
                             "entry", "hand", "run"}]
    BY <1>1, <1>5 DEF TypeOK
  <2>2. op' \in [Threads -> Ops \union {NULL}]
    BY <1>1, <1>4 DEF TypeOK
  <2>. QED
    BY <1>1, <2>1, <2>2 DEF TypeOK, shared, dispatch
<1>8. \A e : Known(e) => Known(e)'
  BY <1>1, <1>5, <1>6, EventFacts DEF Known, Inserting, shared
<1>9. Place(t)'
  BY <1>1, <1>2, <1>5, <1>8, EventFacts DEF Place
<1>10. InterestKnown'
  <2>. SUFFICES ASSUME NEW fd \in Fds \ (overlapped' \union replaced')
                PROVE  InterestAt(fd)'
    BY DEF InterestKnown
  <2>1. InterestAt(fd)
    BY <1>1 DEF InterestKnown
  <2>2. Registered(fd)' = Registered(fd) /\ epoll'[fd] = epoll[fd] /\ Live' = Live
    BY <1>1 DEF Registered, Has, shared, Live
  <2>3. \A u \in Threads : u # t /\ at[u] \in {"ctl", "free"} /\ ev[u].fd = fd => ev[t].fd # fd
    BY DEF Prepare
  <2>4. \A u, v \in Threads :
           /\ at'[u] \in {"ctl", "free"} /\ ev'[u].fd = fd
           /\ at'[v] \in {"ctl", "free"} /\ ev'[v].fd = fd
           => u = v
    BY <1>1, <1>6, <2>1, <2>3 DEF InterestAt
  <2>5. ASSUME NEW u \in Threads, at'[u] = "ctl", ev'[u] \in Live', ev'[u].fd = fd
        PROVE  op'[u].dirs = IF Activates(u)' THEN Registered(fd)' \union {ev'[u].dir}
                                              ELSE Registered(fd)' \ {ev'[u].dir}
    <3>1. Activates(u)' = Activates(u) /\ ev'[u] = ev[u]
      BY <1>1 DEF Activates
    <3>2. CASE u # t
      BY <1>6, <2>1, <2>2, <2>5, <3>1, <3>2 DEF InterestAt
    <3>3. CASE u = t
      <4>1. ActiveOp(ev[t]).dirs = Registered(fd) \union {ev[t].dir}
        BY <2>5, <3>1, <3>3 DEF ActiveOp
      <4>2. UnactiveOp(ev[t]).dirs = Registered(fd) \ {ev[t].dir}
        <5>1. ev[t].fd = fd /\ ev[t].dir \in Dirs
          BY <1>2, <2>5, <3>1, <3>3, EventFacts
        <5>2. Registered(fd) \ {ev[t].dir} =
                 IF Other(ev[t].dir) \in Registered(fd) THEN {Other(ev[t].dir)} ELSE {}
          BY <1>3, <5>1, EventFacts
        <5>. QED
          BY <5>1, <5>2 DEF UnactiveOp
      <4>. QED
        BY <1>5, <2>2, <2>5, <3>1, <3>3, <4>1, <4>2
    <3>. QED
      BY <3>2, <3>3
  <2>6. ASSUME NEW u \in Threads, at'[u] = "free", ev'[u] \in Live', ev'[u].fd = fd
        PROVE  "registered" \notin flags'[ev'[u]]
    <3>1. CASE u # t
      BY <1>1, <1>6, <2>1, <2>2, <2>6, <3>1 DEF InterestAt, shared
    <3>2. CASE u = t
      BY <1>1, <1>2, <1>5, <2>6, <3>2 DEF Has, shared
    <3>. QED
      BY <3>1, <3>2
  <2>. QED
    BY <2>1, <2>2, <2>4, <2>5, <2>6 DEF InterestAt
<1>11. CountMatches'
  BY <1>1, <1>5, <1>6, CountFrame DEF shared, Adding
<1>12. \A e : Keeps(t, e) => Held(e)'
  <2>1. \A e : Pair(e)' = Pair(e)
    BY <1>1 DEF Pair, SlotsOf, shared
  <2>. QED
    BY <1>1, <1>5, <2>1 DEF Keeps, Held, RunsTask
<1>13. \A e : Queued(e) => Held(e)'
  BY <1>1 DEF shared, Queued, Held
<1>14. \A w \in Workers : \A i \in 1..Len(tasks'[w]) : Known(tasks'[w][i])
  BY <1>1 DEF shared, Control, Waiting
<1>15. \A e \in Events : "active" \in flags[e] => e \in made
  BY DEF Tables
<1>. QED
  BY <1>1, <1>5, <1>6, <1>7, <1>9, <1>10, <1>11, <1>12, <1>13, <1>14, <1>15, LocalStep
     DEF shared, dispatch, Control, Waiting

LEMMA CtlIInv ==
    ASSUME IInv, NEW t \in Threads, Ctl(t)
    PROVE  IInv'
<1>. USE DEF IInv
<1>1. /\ at[t] = "ctl" /\ ev[t] \notin freed
      /\ epoll' = [epoll EXCEPT ![ev[t].fd] = op[t].dirs]
      /\ at' = [at EXCEPT ![t] = OnSuccess(call[t])] /\ op' = [op EXCEPT ![t] = NULL]
      /\ UNCHANGED <<slot, made, freed, count, tasks, ev, call, seen, dispatch, history>>
  BY DEF Ctl, Works, Goto, Dangling
<1>2. /\ call[t] \in {"add", "del", "pause", "resume"} /\ ev[t] # NULL
      /\ ev[t] \in Events /\ Known(ev[t]) /\ (call[t] = "add" => t = Acceptor)
      /\ op[t] \in Ops
  BY <1>1 DEF Control, Place, TypeOK
<1>3. /\ flags' \in [Events -> SUBSET Flags]
      /\ \A e \in Events : flags'[e] \subseteq flags[e] \union {"registered"}
      /\ \A e \in Events : "active" \in flags'[e] <=> "active" \in flags[e]
      /\ \A e \in Events : e # ev[t] => flags'[e] = flags[e]
      /\ "registered" \in flags'[ev[t]] <=> Activates(t)
  <2>1. CASE Activates(t)
    <3>1. flags' = With({ev[t]}, "registered") /\ "registered" \in Flags
      BY <2>1 DEF Ctl, Flags
    <3>2. /\ flags' \in [Events -> SUBSET Flags]
          /\ \A e \in Events : flags'[e] =
                flags[e] \union (IF e \in {ev[t]} THEN {"registered"} ELSE {})
      BY <3>1, FlagsSet
    <3>3. \A e \in Events : IF e = ev[t] THEN flags'[e] = flags[e] \union {"registered"}
                                         ELSE flags'[e] = flags[e]
      BY <3>2
    <3>. QED
      BY <1>2, <2>1, <3>2, <3>3
  <2>2. CASE ~Activates(t)
    <3>1. flags' = Without({ev[t]}, "registered") /\ "registered" \in Flags
      BY <2>2 DEF Ctl, Flags
    <3>2. /\ flags' \in [Events -> SUBSET Flags]
          /\ \A e \in Events : flags'[e] =
                flags[e] \ (IF e \in {ev[t]} THEN {"registered"} ELSE {})
      BY <3>1, FlagsCleared
    <3>3. \A e \in Events : IF e = ev[t] THEN flags'[e] = flags[e] \ {"registered"}
                                         ELSE flags'[e] = flags[e]
      BY <3>2
    <3>. QED
      BY <1>2, <2>2, <3>2, <3>3
  <2>. QED
    BY <2>1, <2>2
<1>4. /\ at'[t] \in {"release", "free", "run"}
      /\ at'[t] = "release" => call[t] = "add"
      /\ at'[t] = "free" => call[t] = "del"
      /\ at'[t] = "run" => call[t] \in {"pause", "resume"}
      /\ \A u \in Threads : u # t => at'[u] = at[u] /\ op'[u] = op[u]
  BY <1>1, <1>2 DEF OnSuccess, TypeOK
<1>5. TypeOK'
  <2>1. epoll' \in [Fds -> SUBSET Dirs]
    BY <1>1, <1>2 DEF TypeOK, Ops
  <2>2. at' \in [Threads -> {"idle", "insert", "load", "store", "release",
                             "undo", "prepare", "ctl", "delete", "free", "count",
                             "entry", "hand", "run"}]
    BY <1>1, <1>4 DEF TypeOK
  <2>3. op' \in [Threads -> Ops \union {NULL}]
    BY <1>1 DEF TypeOK
  <2>. QED
    BY <1>1, <1>3, <2>1, <2>2, <2>3 DEF TypeOK, dispatch
<1>6. \A e : Known(e) => Known(e)'
  BY <1>1, <1>4, EventFacts DEF Known, Inserting
<1>7. Place(t)'
  BY <1>1, <1>2, <1>4, <1>6, EventFacts DEF Place
<1>8. InterestKnown'
  <2>. SUFFICES ASSUME NEW fd \in Fds \ (overlapped \union replaced)
                PROVE  InterestAt(fd)'
    BY <1>1 DEF InterestKnown, history
  <2>1. InterestAt(fd)
    BY DEF InterestKnown
  <2>2. Live' = Live /\ slot' = slot /\ ev' = ev /\ call' = call
    BY <1>1 DEF Live
  <2>3. \A u \in Threads : Activates(u)' = Activates(u)
    BY <1>1 DEF Activates
  <2>4. CASE ev[t].fd # fd
    <3>1. epoll'[fd] = epoll[fd]
      BY <1>1, <2>4 DEF TypeOK
    <3>2. Registered(fd)' = Registered(fd)
      <4>1. \A d \in Dirs : slot[fd][d] # NULL => slot[fd][d] \in Events /\ slot[fd][d] # ev[t]
        BY <2>4 DEF Tables, TypeOK
      <4>2. \A d \in Dirs : Has(slot[fd][d], "registered")' <=> Has(slot[fd][d], "registered")
        BY <1>3, <2>2, <4>1 DEF Has
      <4>. QED
        BY <4>2 DEF Registered
    <3>3. \A u \in Threads : ev[u].fd = fd => at'[u] = at[u] /\ op'[u] = op[u]
      BY <1>4, <2>4
    <3>4. \A u \in Threads : ev[u] \in Live /\ ev[u].fd = fd => flags'[ev[u]] = flags[ev[u]]
      BY <1>3, <2>4 DEF Live, TypeOK
    <3>. QED
      BY <2>1, <2>2, <2>3, <3>1, <3>2, <3>3, <3>4 DEF InterestAt
  <2>5. CASE ev[t].fd = fd
    <3>1. \A u \in Threads : at'[u] \in {"ctl", "free"} /\ ev[u].fd = fd => u = t
      BY <1>1, <1>4, <2>1, <2>5 DEF InterestAt
    <3>2. ev[t] \in Live /\ slot[fd][ev[t].dir] = ev[t] /\ ev[t].dir \in Dirs
      BY <1>1, <1>2, <2>5, EventFacts DEF Live, Known, Tables
    <3>3. epoll'[fd] = IF Activates(t) THEN Registered(fd) \union {ev[t].dir}
                                       ELSE Registered(fd) \ {ev[t].dir}
      BY <1>1, <2>1, <2>5, <3>2 DEF InterestAt, TypeOK
    <3>4. Registered(fd)' = IF Activates(t) THEN Registered(fd) \union {ev[t].dir}
                                            ELSE Registered(fd) \ {ev[t].dir}
      <4>1. ASSUME NEW d \in Dirs, d # ev[t].dir
            PROVE  Has(slot[fd][d], "registered")' <=> Has(slot[fd][d], "registered")
        <5>1. slot[fd][d] # NULL => slot[fd][d] \in Events /\ slot[fd][d] # ev[t]
          BY <4>1 DEF Tables, TypeOK
        <5>. QED
          BY <1>3, <2>2, <5>1 DEF Has
      <4>2. Has(slot[fd][ev[t].dir], "registered")' <=> Activates(t)
        BY <1>2, <1>3, <2>2, <3>2 DEF Has
      <4>3. \A d \in Dirs : d # ev[t].dir =>
               (d \in Registered(fd)' <=> d \in Registered(fd))
        BY <4>1 DEF Registered
      <4>4. ev[t].dir \in Registered(fd)' <=> Activates(t)
        BY <2>2, <3>2, <4>2 DEF Registered
      <4>5. Registered(fd) \subseteq Dirs /\ Registered(fd)' \subseteq Dirs
        BY DEF Registered
      <4>. QED
        BY <3>2, <4>3, <4>4, <4>5
    <3>5. at'[t] = "free" => "registered" \notin flags'[ev[t]]
      BY <1>3, <1>4 DEF Activates
    <3>. QED
      BY <1>4, <2>2, <3>1, <3>3, <3>4, <3>5 DEF InterestAt
  <2>. QED
    BY <2>4, <2>5
<1>9. CountMatches'
  BY <1>1, <1>4, CountFrame DEF history, Adding
<1>10. \A e : Keeps(t, e) => Held(e)'
  <2>1. \A e : Pair(e)' = Pair(e)
    BY <1>1 DEF Pair, SlotsOf
  <2>. QED
    BY <1>1, <1>4, <2>1 DEF Keeps, Held, RunsTask
<1>11. \A e : Queued(e) => Held(e)'
  BY <1>1 DEF Queued, Held
<1>12. \A w \in Workers : \A i \in 1..Len(tasks'[w]) : Known(tasks'[w][i])
  BY <1>1 DEF Control, Waiting
<1>13. \A e \in Events : "active" \in flags[e] => e \in made
  BY DEF Tables
<1>14. \A e \in Events : "registered" \in flags'[e] => "registered" \in flags[e] \/ Known(e)
  BY <1>2, <1>3
<1>. QED
  BY <1>1, <1>3, <1>4, <1>5, <1>7, <1>8, <1>9, <1>10, <1>11, <1>12, <1>13,
     <1>14, LocalStep
     DEF dispatch, Control, Waiting

(* The sets that event_count stands for are finite. *)
LEMMA CountedFinite ==
    ASSUME TypeOK
    PROVE  /\ IsFiniteSet(UNION {SlotsOf(fd) : fd \in Fds})
           /\ Cardinality(UNION {SlotsOf(fd) : fd \in Fds}) \in Nat
           /\ IsFiniteSet({t \in Threads : at[t] = "count"})
           /\ Cardinality({t \in Threads : at[t] = "count"}) \in Nat
           /\ IsFiniteSet({t \in Threads : at[t] \in Adding})
           /\ Cardinality({t \in Threads : at[t] \in Adding}) \in Nat
<1>1. UNION {SlotsOf(fd) : fd \in Fds} \subseteq Events
  BY DEF SlotsOf, TypeOK
<1>2. IsFiniteSet(Threads)
  <2>1. IsFiniteSet({Acceptor}) /\ IsFiniteSet({Main})
    BY FS_Singleton
  <2>2. IsFiniteSet({Acceptor} \union {Main})
    BY <2>1, FS_Union
  <2>3. IsFiniteSet(({Acceptor} \union {Main}) \union Workers)
    BY <2>2, FS_Union, LegacyReactorAssumption
  <2>4. Threads = ({Acceptor} \union {Main}) \union Workers
    BY DEF Threads
  <2>. QED
    BY <2>3, <2>4
<1>3. /\ {t \in Threads : at[t] = "count"} \subseteq Threads
      /\ {t \in Threads : at[t] \in Adding} \subseteq Threads
  OBVIOUS
<1>4. IsFiniteSet(Events)
  BY LegacyReactorAssumption
<1>5. IsFiniteSet(UNION {SlotsOf(fd) : fd \in Fds})
  BY <1>1, <1>4, FS_Subset
<1>6. /\ IsFiniteSet({t \in Threads : at[t] = "count"})
      /\ IsFiniteSet({t \in Threads : at[t] \in Adding})
  BY <1>2, <1>3, FS_Subset
<1>. QED
  BY <1>5, <1>6, FS_CardinalityType

LEMMA CountIInv ==
    ASSUME IInv, NEW t \in Threads, Count(t)
    PROVE  IInv'
<1>. USE DEF IInv
<1>1. /\ at[t] = "count" /\ call[t] = "del" /\ Return(t) /\ count' = seen[t] - 1
      /\ miscounted' = (miscounted \/ count # seen[t])
      /\ seen' = [seen EXCEPT ![t] = 0]
      /\ UNCHANGED <<slot, flags, made, freed, epoll, tasks, op>>
      /\ UNCHANGED <<overlapped, undone, replaced, crashed>>
  BY DEF Count, Control, Place
<1>2. TypeOK'
  <2>1. count' \in Int /\ seen' \in [Threads -> Int]
    BY <1>1 DEF TypeOK
  <2>. QED
    BY <1>1, <2>1, ReturnFacts DEF TypeOK
<1>3. Place(t)' /\ (nextEv' # NULL => Known(nextEv'))
  BY <1>1, ReturnPlace
<1>4. InterestKnown'
  <2>1. \A fd \in Fds : Registered(fd)' = Registered(fd)
    BY <1>1 DEF Registered, Has
  <2>2. \A u \in Threads : at'[u] \in {"ctl", "free"} =>
           at[u] = at'[u] /\ ev'[u] = ev[u] /\ call'[u] = call[u]
    BY <1>1, ReturnFacts
  <2>3. Live' = Live
    BY <1>1 DEF Live
  <2>. QED
    BY <1>1, <1>2, <2>1, <2>2, <2>3, InterestFrame
<1>5. CountMatches'
  <2>. DEFINE S == UNION {SlotsOf(fd) : fd \in Fds}
              C == {u \in Threads : at[u] = "count"}
              A == {u \in Threads : at[u] \in Adding}
  <2>1. S' = S
    BY <1>1 DEF SlotsOf
  <2>2. C' = C \ {t} /\ A' = A
    BY <1>1, ReturnFacts DEF Adding
  <2>3. IsFiniteSet(C) /\ Cardinality(C) \in Nat /\ Cardinality(S) \in Nat /\ t \in C
        /\ Cardinality(A) \in Nat
    BY <1>1, CountedFinite
  <2>4. Cardinality(C') = Cardinality(C) - 1
    BY <2>2, <2>3, FS_RemoveElement
  <2>5. miscounted \/ replaced # {}
        \/ count = Cardinality(S) + Cardinality(C) - Cardinality(A)
    BY DEF CountMatches, Adding
  <2>6. miscounted' \/ replaced' # {}
        \/ count' = Cardinality(S)' + Cardinality(C)' - Cardinality(A)'
    <3>1. seen[t] \in Int /\ count \in Int
      BY DEF TypeOK
    <3>. HIDE DEF S, C, A
    <3>2. CASE ~miscounted /\ count = seen[t] /\ replaced = {}
      BY <1>1, <2>1, <2>2, <2>3, <2>4, <2>5, <3>1, <3>2
    <3>3. CASE miscounted \/ count # seen[t] \/ replaced # {}
      BY <1>1, <3>3
    <3>. QED
      BY <3>2, <3>3
  <2>. QED
    BY <2>6 DEF CountMatches, Adding
<1>6. \A e : ~Keeps(t, e)
  BY <1>1 DEF Keeps, RunsTask
<1>7. \A e : Queued(e) => Held(e)'
  BY <1>1 DEF Queued, Held
<1>8. \A w \in Workers : \A i \in 1..Len(tasks'[w]) : Known(tasks'[w][i])
  BY <1>1 DEF Control, Waiting
<1>9. \A e \in Events : "active" \in flags[e] => e \in made
  BY DEF Tables
<1>. QED
  BY <1>1, <1>2, <1>3, <1>4, <1>5, <1>6, <1>7, <1>8, <1>9, ReturnFacts, LocalStep

LEMMA FreeIInv ==
    ASSUME IInv, NEW t \in Threads, Free(t)
    PROVE  IInv'
<1>. USE DEF IInv
<1>. DEFINE x == ev[t]
<1>1. /\ at[t] = "free" /\ call[t] = "del" /\ x \notin freed /\ x # NULL
      /\ x \in Events /\ Known(x) /\ x \in Live /\ x.fd \in Fds /\ x.dir \in Dirs
  BY EventFacts DEF Free, Works, Dangling, Control, Place, TypeOK, Known, Live
<1>2. slot[x.fd][x.dir] = x
  BY <1>1 DEF Tables, Known
<1>3. /\ slot' = [slot EXCEPT ![x.fd][x.dir] = NULL] /\ freed' = freed \union {x}
      /\ at' = [at EXCEPT ![t] = "count"] /\ seen' = [seen EXCEPT ![t] = count]
      /\ UNCHANGED <<flags, made, epoll, count, tasks, ev, call, op, dispatch, history>>
  BY DEF Free, Goto
<1>4. /\ slot'[x.fd][x.dir] = NULL
      /\ \A fd \in Fds, d \in Dirs :
            fd # x.fd \/ d # x.dir => slot'[fd][d] = slot[fd][d]
      /\ slot' \in [Fds -> [Dirs -> Events \union {NULL}]]
  BY <1>1, <1>3 DEF TypeOK
<1>5. at'[t] = "count" /\ \A u \in Threads : u # t => at'[u] = at[u]
  BY <1>3 DEF TypeOK
<1>. HIDE DEF x
<1>6. TypeOK'
  <2>1. freed' \subseteq made'
    BY <1>1, <1>3 DEF TypeOK, Known
  <2>2. seen' \in [Threads -> Int]
    BY <1>3 DEF TypeOK
  <2>3. at' \in [Threads -> {"idle", "insert", "load", "store", "release",
                             "undo", "prepare", "ctl", "delete", "free", "count",
                             "entry", "hand", "run"}]
    BY <1>3 DEF TypeOK
  <2>. QED
    BY <1>3, <1>4, <2>1, <2>2, <2>3 DEF TypeOK, dispatch
<1>7. \A e : Inserting(e)' <=> Inserting(e)
  BY <1>1, <1>3, <1>5, EventFacts DEF Inserting
<1>8. \A e : Known(e) <=> Known(e)'
  BY <1>3, <1>7 DEF Known
<1>9. Control'
  <2>1. Place(t)'
    BY <1>1, <1>3, <1>5, <1>8, EventFacts DEF Place, Control, x
  <2>2. /\ nextEv' # NULL => Known(nextEv)'
        /\ \A w \in Workers : \A i \in 1..Len(tasks[w])' : Known(tasks[w][i])'
    BY <1>3, <1>8 DEF Control, Waiting, dispatch
  <2>. QED
    BY <1>3, <1>5, <1>8, <2>1, <2>2, OthersStay DEF dispatch
<1>10. Live' = Live \ {x}
  BY <1>3 DEF Live
<1>11. Tables'
  <2>1. ASSUME NEW fd \in Fds, NEW d \in Dirs, slot'[fd][d] # NULL
        PROVE  /\ slot'[fd][d] \in Live' /\ ~Inserting(slot[fd][d])'
               /\ slot'[fd][d].fd = fd /\ slot'[fd][d].dir = d
    <3>1. slot'[fd][d] = slot[fd][d] /\ (fd # x.fd \/ d # x.dir)
      BY <1>4, <2>1
    <3>2. slot[fd][d] \in Live /\ ~Inserting(slot[fd][d]) /\ slot[fd][d].fd = fd
          /\ slot[fd][d].dir = d
      BY <2>1, <3>1 DEF Tables
    <3>. QED
      BY <1>7, <1>10, <3>1, <3>2
  <2>2. ASSUME NEW e \in Live', ~Inserting(e)' PROVE slot'[e.fd][e.dir] = e
    <3>1. e \in Events /\ slot[e.fd][e.dir] = e /\ e # x
      BY <1>7, <1>10, <2>2 DEF Tables, Live, TypeOK
    <3>. QED
      BY <1>2, <1>4, <3>1, EventFacts
  <2>3. at'[Acceptor] = "insert" =>
           ev'[Acceptor] \in Live' /\ flags'[ev'[Acceptor]] \subseteq {"active"}
    BY <1>1, <1>3, <1>5, <1>10, EventFacts DEF Tables, Known, Inserting
  <2>4. \A e \in Events \ made' : flags'[e] = {}
    BY <1>3 DEF Tables
  <2>. QED
    BY <2>1, <2>2, <2>3, <2>4 DEF Tables
<1>12. InterestKnown'
  <2>1. ASSUME NEW fd \in Fds \ (overlapped \union replaced)
        PROVE  Registered(fd)' = Registered(fd)
    <3>1. x.fd = fd => "registered" \notin flags[x]
      BY <1>1 DEF InterestKnown, InterestAt, x
    <3>2. \A d \in Dirs : Has(slot[fd][d], "registered")' <=> Has(slot[fd][d], "registered")
      BY <1>2, <1>3, <1>4, <3>1 DEF Has
    <3>. QED
      BY <3>2 DEF Registered
  <2>2. \A u \in Threads : at'[u] \in {"ctl", "free"} => at[u] = at'[u]
    BY <1>5
  <2>. QED
    BY <1>3, <1>6, <1>10, <2>1, <2>2, InterestFrame DEF history
<1>13. CountMatches'
  <2>. DEFINE S == UNION {SlotsOf(fd) : fd \in Fds}
              C == {u \in Threads : at[u] = "count"}
              A == {u \in Threads : at[u] \in Adding}
  <2>1. S' = S \ {x} /\ x \in S
    <3>1. \A e : e \in S <=> e # NULL /\ \E fd \in Fds, d \in Dirs : slot[fd][d] = e
      BY DEF SlotsOf
    <3>2. \A e : e \in S' <=> e # NULL /\ \E fd \in Fds, d \in Dirs : slot'[fd][d] = e
      BY DEF SlotsOf
    <3>3. x \in S
      BY <1>1, <1>2, <3>1
    <3>4. ASSUME NEW e \in S' PROVE e \in S /\ e # x
      <4>1. e # NULL
        BY <3>2, <3>4
      <4>2. PICK fd \in Fds, d \in Dirs : slot'[fd][d] = e
        BY <3>2, <3>4
      <4>3. slot[fd][d] = e /\ (fd # x.fd \/ d # x.dir)
        BY <1>4, <4>1, <4>2
      <4>4. e.fd = fd /\ e.dir = d
        BY <4>1, <4>3 DEF Tables
      <4>. QED
        BY <3>1, <4>1, <4>3, <4>4
    <3>5. ASSUME NEW e \in S, e # x PROVE e \in S'
      BY <1>2, <1>4, <3>1, <3>2, <3>5
    <3>. HIDE DEF S
    <3>. QED
      BY <3>3, <3>4, <3>5
  <2>2. C' = C \union {t} /\ t \notin C /\ A' = A
    BY <1>1, <1>5 DEF Adding
  <2>3. /\ IsFiniteSet(C) /\ Cardinality(C) \in Nat
        /\ IsFiniteSet(S) /\ Cardinality(S) \in Nat
        /\ Cardinality(A) \in Nat
    BY CountedFinite
  <2>4. Cardinality(C') = Cardinality(C) + 1
    BY <2>2, <2>3, FS_AddElement
  <2>5. Cardinality(S') = Cardinality(S) - 1
    BY <2>1, <2>3, FS_RemoveElement
  <2>6. miscounted \/ replaced # {}
        \/ count = Cardinality(S) + Cardinality(C) - Cardinality(A)
    BY DEF CountMatches, Adding
  <2>7. miscounted' \/ replaced' # {}
        \/ count' = Cardinality(S)' + Cardinality(C)' - Cardinality(A)'
    <3>. HIDE DEF S, C, A
    <3>. QED
      BY <1>3, <2>2, <2>3, <2>4, <2>5, <2>6 DEF TypeOK, history
  <2>. QED
    BY <2>7 DEF CountMatches, Adding
<1>14. HeldActive'
  <2>. SUFFICES ASSUME NEW e \in Live', "active" \in flags'[e]
                PROVE  Held(e)'
    BY DEF HeldActive
  <2>1. e \in Live /\ e # x /\ e \in Events /\ Held(e)
    BY <1>3, <1>10 DEF HeldActive, Live, TypeOK
  <2>2. CASE Inserting(e)
    <3>1. call'[Acceptor] = "add" /\ ev'[Acceptor] = e
      BY <1>3, <2>2, EventFacts DEF Inserting, Control, Place
    <3>. QED
      BY <3>1, EventFacts DEF Held, Keeps
  <2>3. CASE ~Inserting(e) /\ e.fd = x.fd
    <3>1. slot[e.fd][e.dir] = e
      BY <2>1, <2>3 DEF Tables
    <3>2. x.dir # e.dir
      BY <1>2, <2>1, <2>3, <3>1
    <3>3. x \in freed' /\ x.fd = e.fd /\ x.dir = Other(e.dir)
      BY <1>1, <1>3, <2>1, <2>3, <3>2, EventFacts
    <3>. QED
      BY <3>3 DEF Held, Orphan
  <2>4. CASE e.fd # x.fd
    <3>1. \A y : y.fd = e.fd => Pair(y)' = Pair(y)
      <4>. SUFFICES ASSUME NEW y, y.fd = e.fd PROVE Pair(y)' = Pair(y)
        OBVIOUS
      <4>1. \A d \in Dirs : slot'[y.fd][d] = slot[y.fd][d]
        BY <1>4, <2>1, <2>4, EventFacts
      <4>2. SlotsOf(y.fd)' = SlotsOf(y.fd)
        BY <4>1 DEF SlotsOf
      <4>. QED
        BY <4>1, <4>2 DEF Pair
    <3>2. \A u \in Threads : ev[u] # NULL /\ e \in Pair(ev[u]) => ev[u].fd = e.fd
      BY PairFacts DEF TypeOK
    <3>3. ~Keeps(t, e)
      BY <1>1, <2>1, <2>4, <3>2 DEF Keeps, RunsTask, x
    <3>4. ASSUME NEW u \in Threads, Keeps(u, e) PROVE Keeps(u, e)'
      <4>1. u # t
        BY <3>3, <3>4
      <4>2. at'[u] = at[u] /\ ev'[u] = ev[u] /\ call'[u] = call[u]
        BY <1>3, <1>5, <4>1
      <4>3. at[u] = "insert" \/ (call[u] = "del" /\ at[u] # "count") => ev[u] # NULL
        BY DEF Control, Place
      <4>. QED
        BY <3>1, <3>2, <3>4, <4>2, <4>3 DEF Keeps, RunsTask
    <3>5. Queued(e) => Queued(e)'
      BY <1>3 DEF Queued
    <3>6. Orphan(e) => Orphan(e)'
      BY <1>3 DEF Orphan
    <3>. QED
      BY <2>1, <3>4, <3>5, <3>6 DEF Held
  <2>. QED
    BY <2>2, <2>3, <2>4
<1>. QED
  BY <1>6, <1>9, <1>11, <1>12, <1>13, <1>14

LEMMA InsertIInv ==
    ASSUME IInv, NEW t \in Threads, Insert(t)
    PROVE  IInv'
<1>. USE DEF IInv
<1>. DEFINE x == ev[t]
            old == slot[x.fd][x.dir]
<1>1. /\ at[t] = "insert" /\ call[t] = "add" /\ t = Acceptor /\ x # NULL
      /\ x \in Events /\ x \in Live /\ Inserting(x) /\ flags[x] \subseteq {"active"}
      /\ x.fd \in Fds /\ x.dir \in Dirs
  BY EventFacts DEF Insert, Works, Control, Place, TypeOK, Tables, Inserting
<1>2. /\ flags' = [flags EXCEPT ![x] = flags[x] \union {"inserted"}]
      /\ slot' = [slot EXCEPT ![x.fd][x.dir] = x]
      /\ freed' = freed \union ({old} \ {NULL})
      /\ replaced' = replaced \union (IF old = NULL THEN {} ELSE {x.fd})
      /\ at' = [at EXCEPT ![t] = "load"]
      /\ UNCHANGED <<made, epoll, count, tasks, ev, call, op, seen, dispatch>>
      /\ UNCHANGED <<overlapped, undone, miscounted, crashed>>
  BY DEF Insert, EventQueueInsert, Goto
<1>3. /\ slot'[x.fd][x.dir] = x
      /\ \A fd \in Fds, d \in Dirs :
            fd # x.fd \/ d # x.dir => slot'[fd][d] = slot[fd][d]
      /\ slot' \in [Fds -> [Dirs -> Events \union {NULL}]]
  BY <1>1, <1>2 DEF TypeOK
<1>4. /\ at'[t] = "load"
      /\ \A u \in Threads : u # t => at'[u] = at[u]
  BY <1>2 DEF TypeOK
<1>5. /\ flags' \in [Events -> SUBSET Flags]
      /\ \A e \in Events : e # x => flags'[e] = flags[e]
      /\ \A e \in Events : "active" \in flags'[e] <=> "active" \in flags[e]
      /\ \A e \in Events : "registered" \in flags'[e] <=> "registered" \in flags[e]
      /\ "registered" \notin flags'[x]
  BY <1>1, <1>2 DEF TypeOK, Flags
<1>6. old # NULL => /\ old \in Live /\ old # x /\ old \in freed' /\ old \in made
                    /\ old.fd = x.fd /\ old.dir = x.dir
  BY <1>1, <1>2 DEF Tables, Live
<1>7. Live' = Live \ {old}
  <2>1. NULL \notin Live
    BY EventFacts DEF Live, TypeOK
  <2>. HIDE DEF old
  <2>. QED
    BY <1>2, <2>1 DEF Live
<1>8. old \in Events \union {NULL}
  BY <1>1 DEF TypeOK
<1>. HIDE DEF x, old
<1>9. TypeOK'
  <2>1. freed' \subseteq made'
    BY <1>2, <1>6 DEF TypeOK
  <2>2. at' \in [Threads -> {"idle", "insert", "load", "store", "release",
                             "undo", "prepare", "ctl", "delete", "free", "count",
                             "entry", "hand", "run"}]
    BY <1>2 DEF TypeOK
  <2>. QED
    BY <1>2, <1>3, <1>5, <2>1, <2>2 DEF TypeOK, dispatch
<1>10. (\A e : ~Inserting(e)') /\ \A e : Inserting(e) => e = x
  BY <1>1, <1>4, EventFacts DEF Inserting, x
<1>11. \A e : Known(e) => Known(e)'
  BY <1>2, <1>10 DEF Known
<1>12. Control'
  <2>1. Known(x)'
    BY <1>1, <1>2, <1>10 DEF Known, Live, x
  <2>2. Place(t)'
    BY <1>1, <1>2, <1>4, <2>1, EventFacts DEF Place, x
  <2>3. /\ nextEv' # NULL => Known(nextEv)'
        /\ \A w \in Workers : \A i \in 1..Len(tasks[w])' : Known(tasks[w][i])'
    BY <1>2, <1>11 DEF Control, Waiting, dispatch
  <2>. QED
    BY <1>2, <1>4, <1>11, <2>2, <2>3, OthersStay DEF dispatch
<1>13. Tables'
  <2>1. ASSUME NEW fd \in Fds, NEW d \in Dirs, slot'[fd][d] # NULL
        PROVE  /\ slot'[fd][d] \in Live' /\ ~Inserting(slot[fd][d])'
               /\ slot'[fd][d].fd = fd /\ slot'[fd][d].dir = d
    <3>1. CASE fd = x.fd /\ d = x.dir
      BY <1>1, <1>3, <1>6, <1>7, <1>10, <3>1, EventFacts DEF Live
    <3>2. CASE fd # x.fd \/ d # x.dir
      <4>1. slot'[fd][d] = slot[fd][d]
        BY <1>3, <3>2
      <4>2. slot[fd][d] \in Live /\ slot[fd][d].fd = fd /\ slot[fd][d].dir = d
        BY <2>1, <4>1 DEF Tables
      <4>3. slot[fd][d] # old
        BY <1>6, <2>1, <3>2, <4>1, <4>2
      <4>. QED
        BY <1>7, <1>10, <4>1, <4>2, <4>3
    <3>. QED
      BY <3>1, <3>2
  <2>2. ASSUME NEW e \in Live' PROVE slot'[e.fd][e.dir] = e
    <3>1. CASE e = x
      BY <1>3, <3>1
    <3>2. CASE e # x
      <4>1. e \in Events /\ slot[e.fd][e.dir] = e /\ e # old
        BY <1>7, <1>10, <2>2, <3>2 DEF Tables, Live, TypeOK
      <4>2. e.fd # x.fd \/ e.dir # x.dir
        BY <4>1 DEF old
      <4>. QED
        BY <1>3, <4>1, <4>2, EventFacts
    <3>. QED
      BY <3>1, <3>2
  <2>3. at'[Acceptor] # "insert"
    BY <1>1, <1>4
  <2>4. \A e \in Events \ made' : flags'[e] = {}
    BY <1>1, <1>2, <1>5 DEF Tables, Live
  <2>. QED
    BY <2>1, <2>2, <2>3, <2>4 DEF Tables
<1>14. InterestKnown'
  <2>1. ASSUME NEW fd \in Fds \ (overlapped' \union replaced')
        PROVE  Registered(fd)' = Registered(fd)
    <3>1. x.fd = fd => old = NULL
      BY <1>2, <2>1
    <3>2. \A d \in Dirs : slot[fd][d] # NULL => slot[fd][d] \in Events
      BY DEF TypeOK
    <3>3. \A d \in Dirs : Has(slot[fd][d], "registered")' <=> Has(slot[fd][d], "registered")
      BY <1>3, <1>5, <3>1, <3>2 DEF Has, old
    <3>. QED
      BY <3>3 DEF Registered
  <2>2. \A u \in Threads : at'[u] \in {"ctl", "free"} =>
           /\ at[u] = at'[u]
           /\ "registered" \in flags'[ev[u]] => "registered" \in flags[ev[u]]
    <3>1. \A u \in Threads : at'[u] \in {"ctl", "free"} => u # t /\ at[u] = at'[u]
      BY <1>4
    <3>2. \A u \in Threads : at[u] \in {"ctl", "free"} => ev[u] \in Events
      BY DEF Control, Place, TypeOK
    <3>. QED
      BY <1>5, <3>1, <3>2
  <2>3. \A e : e \in Live' => e \in Live
    BY <1>7
  <2>. QED
    BY <1>2, <1>9, <2>1, <2>2, <2>3, InterestFrame DEF history
<1>15. CountMatches'
  <2>1. CASE old # NULL
    BY <1>2, <2>1 DEF CountMatches
  <2>2. CASE old = NULL
    <3>. DEFINE S == UNION {SlotsOf(fd) : fd \in Fds}
                C == {u \in Threads : at[u] = "count"}
                A == {u \in Threads : at[u] \in Adding}
    <3>1. S' = S \union {x} /\ x \notin S
      <4>1. \A e : e \in S <=> e # NULL /\ \E fd \in Fds, d \in Dirs : slot[fd][d] = e
        BY DEF SlotsOf
      <4>2. \A e : e \in S' <=> e # NULL /\ \E fd \in Fds, d \in Dirs : slot'[fd][d] = e
        BY DEF SlotsOf
      <4>3. x \notin S
        BY <1>1, <4>1 DEF Tables
      <4>4. x \in S'
        BY <1>1, <1>3, <4>2
      <4>5. ASSUME NEW e \in S', e # x PROVE e \in S
        <5>1. e # NULL
          BY <4>2, <4>5
        <5>2. PICK fd \in Fds, d \in Dirs : slot'[fd][d] = e
          BY <4>2, <4>5
        <5>3. slot[fd][d] = e
          BY <1>3, <4>5, <5>2
        <5>. QED
          BY <4>1, <5>1, <5>3
      <4>6. ASSUME NEW e \in S PROVE e \in S'
        <5>1. e # NULL
          BY <4>1, <4>6
        <5>2. PICK fd \in Fds, d \in Dirs : slot[fd][d] = e
          BY <4>1, <4>6
        <5>3. fd # x.fd \/ d # x.dir
          BY <2>2, <5>1, <5>2 DEF old
        <5>. QED
          BY <1>3, <4>2, <5>1, <5>2, <5>3
      <4>. HIDE DEF S
      <4>. QED
        BY <4>3, <4>4, <4>5, <4>6
    <3>2. C' = C /\ A' = A \union {t} /\ t \notin A
      BY <1>1, <1>4 DEF Adding
    <3>3. /\ IsFiniteSet(S) /\ Cardinality(S) \in Nat /\ Cardinality(C) \in Nat
          /\ IsFiniteSet(A) /\ Cardinality(A) \in Nat
      BY CountedFinite
    <3>4. Cardinality(S') = Cardinality(S) + 1 /\ Cardinality(A') = Cardinality(A) + 1
      BY <3>1, <3>2, <3>3, FS_AddElement
    <3>5. miscounted \/ replaced # {}
        \/ count = Cardinality(S) + Cardinality(C) - Cardinality(A)
      BY DEF CountMatches, Adding
    <3>6. miscounted' \/ replaced' # {}
        \/ count' = Cardinality(S)' + Cardinality(C)' - Cardinality(A)'
      <4>1. replaced' = replaced /\ count \in Int
        BY <1>2, <2>2 DEF TypeOK
      <4>. HIDE DEF S, C, A
      <4>. QED
        BY <1>2, <3>2, <3>3, <3>4, <3>5, <4>1
    <3>. QED
      BY <3>6 DEF CountMatches, Adding
  <2>. QED
    BY <2>1, <2>2
<1>16. HeldActive'
  <2>. SUFFICES ASSUME NEW e \in Live', "active" \in flags'[e]
                PROVE  Held(e)'
    BY DEF HeldActive
  <2>1. e \in Live /\ e # old /\ e \in Events /\ Held(e)
    BY <1>5, <1>7 DEF HeldActive, Live, TypeOK
  <2>2. CASE e = x
    <3>1. call'[t] = "add" /\ ev'[t] = e
      BY <1>1, <1>2, <2>2 DEF x
    <3>. QED
      BY <3>1 DEF Held, Keeps
  <2>3. CASE e # x
    <3>1. slot[e.fd][e.dir] = e
      BY <1>10, <2>1, <2>3 DEF Tables
    <3>2. ASSUME NEW y \in Events, e \in Pair(y), e # y, y.fd = x.fd PROVE Orphan(e)'
      <4>1. /\ e.fd = x.fd /\ (\A d \in Dirs : slot[x.fd][d] # NULL)
        BY <3>2, PairFacts
      <4>2. old # NULL
        BY <1>1, <4>1 DEF old
      <4>3. e.dir # x.dir
        BY <2>1, <3>1, <4>1 DEF old
      <4>4. old \in freed' /\ old.fd = e.fd /\ old.dir = Other(e.dir)
        BY <1>1, <1>6, <2>1, <4>1, <4>2, <4>3, EventFacts
      <4>. QED
        BY <4>4 DEF Orphan
    <3>3. ASSUME NEW y \in Events, e \in Pair(y), e # y, y.fd # x.fd PROVE e \in Pair(y)'
      <4>1. \A d \in Dirs : slot'[y.fd][d] = slot[y.fd][d]
        BY <1>3, <3>3, EventFacts
      <4>2. SlotsOf(y.fd)' = SlotsOf(y.fd)
        BY <4>1 DEF SlotsOf
      <4>. QED
        BY <3>3, <4>1, <4>2 DEF Pair
    <3>4. ASSUME NEW u \in Threads, Keeps(u, e) PROVE Held(e)'
      <4>1. ~RunsTask(t, e) \/ t \notin Workers
        BY <1>1, EventFacts
      <4>2. CASE u \in Workers /\ RunsTask(u, e)
        <5>1. RunsTask(u, e)'
          BY <1>2, <1>4, <4>1, <4>2 DEF RunsTask
        <5>. QED
          BY <4>2, <5>1 DEF Held, Keeps
      <4>3. CASE call[u] = "add" /\ ev[u] = e
        BY <1>2, <4>3 DEF Held, Keeps
      <4>4. CASE at[u] = "insert" /\ e \in Pair(ev[u])
        <5>1. u = t
          BY <1>1, <4>4 DEF Control, Place
        <5>. QED
          BY <1>1, <2>3, <3>2, <4>4, <5>1 DEF Held, x
      <4>5. CASE call[u] = "del" /\ at[u] # "count" /\ (ev[u] = e \/ e \in Pair(ev[u]))
        <5>1. u # t /\ call'[u] = "del" /\ at'[u] # "count" /\ ev'[u] = ev[u]
          BY <1>1, <1>2, <1>4, <4>5
        <5>2. CASE ev[u] = e
          BY <5>1, <5>2 DEF Held, Keeps
        <5>3. CASE ev[u] # e
          <6>1. ev[u] \in Events
            BY <4>5 DEF Control, Place, TypeOK
          <6>2. CASE ev[u].fd = x.fd
            BY <3>2, <4>5, <5>3, <6>1, <6>2 DEF Held
          <6>3. CASE ev[u].fd # x.fd
            <7>1. e \in Pair(ev[u])'
              BY <1>2, <3>3, <4>5, <5>3, <6>1, <6>3 DEF Pair, SlotsOf
            <7>. QED
              BY <5>1, <7>1 DEF Held, Keeps
          <6>. QED
            BY <6>2, <6>3
        <5>. QED
          BY <5>2, <5>3
      <4>. QED
        BY <3>4, <4>2, <4>3, <4>4, <4>5 DEF Keeps
    <3>5. Queued(e) => Queued(e)'
      BY <1>2 DEF Queued
    <3>6. Orphan(e) => Orphan(e)'
      BY <1>2 DEF Orphan
    <3>. QED
      BY <2>1, <3>4, <3>5, <3>6 DEF Held
  <2>. QED
    BY <2>2, <2>3
<1>. QED
  BY <1>9, <1>12, <1>13, <1>14, <1>15, <1>16

(* A step from one place of add_event to the next that only counts. *)
LEMMA AddingStep ==
    ASSUME IInv, TypeOK', CountMatches', NEW t \in Threads, call[t] = "add",
           at[t] \in Adding, at'[t] \in {"store", "prepare", "release"},
           \A u \in Threads : u # t => at'[u] = at[u],
           UNCHANGED <<slot, flags, made, freed, epoll, tasks, ev, call, op, dispatch>>,
           UNCHANGED <<overlapped, replaced>>
    PROVE  IInv'
<1>. USE DEF IInv
<1>1. t = Acceptor /\ ev[t] # NULL /\ Known(ev[t])
  BY DEF Control, Place, Adding
<1>2. Place(t)'
  <2>1. Known(ev[t])'
    BY <1>1 DEF Known, Inserting
  <2>. QED
    BY <1>1, <2>1, EventFacts DEF Place
<1>3. InterestKnown'
  <2>1. \A fd \in Fds : Registered(fd)' = Registered(fd)
    BY DEF Registered, Has
  <2>2. Live' = Live
    BY DEF Live
  <2>. QED
    BY <2>1, <2>2, InterestFrame
<1>4. \A e : /\ Keeps(t, e) => Held(e)'
             /\ Queued(e) => Held(e)'
  BY <1>1, EventFacts DEF Keeps, Held, Queued, Adding
<1>5. \A e \in Events : "active" \in flags[e] => e \in made
  BY DEF Tables
<1>6. /\ nextEv' # NULL => Known(nextEv')
      /\ \A w \in Workers : \A i \in 1..Len(tasks'[w]) : Known(tasks'[w][i])
  BY DEF Control, Waiting, dispatch
<1>7. ready' = ready /\ at[t] # "insert" /\ at'[t] # "insert"
  BY DEF dispatch, Adding
<1>. QED
  BY <1>2, <1>3, <1>4, <1>5, <1>6, <1>7, LocalStep

(* The count is only loaded; the thread stays where it is in add_event. *)
LEMMA IncrementLoadsIInv ==
    ASSUME IInv, NEW t \in Threads, IncrementLoads(t)
    PROVE  IInv'
<1>. USE DEF IInv
<1>1. /\ at[t] = "load" /\ at'[t] = "store" /\ call[t] = "add" /\ t = Acceptor
      /\ at' = [at EXCEPT ![t] = "store"] /\ seen' = [seen EXCEPT ![t] = count]
      /\ \A u \in Threads : u # t => at'[u] = at[u]
      /\ ev[t] # NULL /\ Known(ev[t])
      /\ UNCHANGED <<shared, ev, call, op, dispatch, history>>
  BY DEF IncrementLoads, Goto, Control, Place, TypeOK
<1>2. TypeOK'
  BY <1>1 DEF TypeOK, shared, dispatch
<1>3. CountMatches'
  BY <1>1, CountFrame DEF shared, history, Adding
<1>. QED
  BY <1>1, <1>2, <1>3, AddingStep DEF shared, history, Adding

(* The count is stored: the event is counted, by one more if nobody has     *)
(* written the count since it was loaded.                                   *)
LEMMA IncrementStoresIInv ==
    ASSUME IInv, NEW t \in Threads, NEW actived \in BOOLEAN, IncrementStores(t, actived)
    PROVE  IInv'
<1>. USE DEF IInv
<1>1. /\ at[t] = "store" /\ at'[t] \in {"prepare", "release"} /\ call[t] = "add"
      /\ t = Acceptor /\ count' = seen[t] + 1
      /\ miscounted' = (miscounted \/ count # seen[t])
      /\ at' = [at EXCEPT ![t] = at'[t]] /\ seen' = [seen EXCEPT ![t] = 0]
      /\ \A u \in Threads : u # t => at'[u] = at[u]
      /\ UNCHANGED <<slot, flags, made, freed, epoll, tasks, ev, call, op, dispatch>>
      /\ UNCHANGED <<overlapped, undone, replaced>>
  BY DEF IncrementStores, Goto, Control, Place, TypeOK
<1>2. TypeOK'
  <2>1. count' \in Int /\ seen' \in [Threads -> Int]
    BY <1>1 DEF TypeOK
  <2>2. at' \in [Threads -> {"idle", "insert", "load", "store", "release",
                             "undo", "prepare", "ctl", "delete", "free", "count",
                             "entry", "hand", "run"}]
    BY <1>1 DEF TypeOK
  <2>. QED
    BY <1>1, <2>1, <2>2 DEF TypeOK, dispatch
<1>3. CountMatches'
  <2>. DEFINE S == UNION {SlotsOf(fd) : fd \in Fds}
              C == {u \in Threads : at[u] = "count"}
              A == {u \in Threads : at[u] \in Adding}
  <2>1. S' = S
    BY <1>1 DEF SlotsOf
  <2>2. C' = C /\ A' = A \ {t} /\ t \in A
    BY <1>1 DEF Adding
  <2>3. /\ Cardinality(C) \in Nat /\ Cardinality(S) \in Nat
        /\ IsFiniteSet(A) /\ Cardinality(A) \in Nat
    BY CountedFinite
  <2>4. Cardinality(A') = Cardinality(A) - 1
    BY <2>2, <2>3, FS_RemoveElement
  <2>5. miscounted \/ replaced # {}
        \/ count = Cardinality(S) + Cardinality(C) - Cardinality(A)
    BY DEF CountMatches, Adding
  <2>6. miscounted' \/ replaced' # {}
        \/ count' = Cardinality(S)' + Cardinality(C)' - Cardinality(A)'
    <3>1. seen[t] \in Int /\ count \in Int
      BY DEF TypeOK
    <3>. HIDE DEF S, C, A
    <3>2. CASE ~miscounted /\ count = seen[t] /\ replaced = {}
      BY <1>1, <2>1, <2>2, <2>3, <2>4, <2>5, <3>1, <3>2
    <3>3. CASE miscounted \/ count # seen[t] \/ replaced # {}
      BY <1>1, <3>3
    <3>. QED
      BY <3>2, <3>3
  <2>. QED
    BY <2>6 DEF CountMatches, Adding
<1>. QED
  BY <1>1, <1>2, <1>3, AddingStep DEF Adding

LEMMA AddEventIInv ==
    ASSUME IInv, NEW t \in Threads, NEW x \in Events, AddEvent(t, x)
    PROVE  IInv'
<1>. USE DEF IInv
<1>1. /\ t = Acceptor /\ at[t] = "idle" /\ call[t] = "none" /\ ev[t] = NULL
      /\ x \notin made /\ x \notin freed /\ flags[x] = {} /\ made' = made \union {x}
      /\ UNCHANGED <<slot, freed, epoll, count, tasks, op, seen, dispatch, history>>
  BY DEF AddEvent, Control, Place, Tables, TypeOK
<1>2. /\ flags' = With(Pair(x), "active")
      /\ at' = [at EXCEPT ![t] = "insert"] /\ call' = [call EXCEPT ![t] = "add"]
      /\ ev' = [ev EXCEPT ![t] = x]
  BY DEF AddEvent, Enter, Goto
<1>3. /\ \A u \in Threads : u # t =>
            at'[u] = at[u] /\ ev'[u] = ev[u] /\ call'[u] = call[u]
      /\ at'[t] = "insert" /\ ev'[t] = x /\ call'[t] = "add" /\ x \in Live'
      /\ Live' \subseteq Live \union {x} /\ Live \subseteq Live' /\ x \notin Live
  BY <1>1, <1>2 DEF TypeOK, Live
<1>4. /\ flags' \in [Events -> SUBSET Flags]
      /\ \A e \in Events : flags'[e] \subseteq flags[e] \union {"active"}
      /\ \A e \in Events : "registered" \in flags'[e] <=> "registered" \in flags[e]
      /\ \A e \in Events : flags'[e] # flags[e] =>
            e \in Pair(x) /\ at'[t] = "insert" /\ ev'[t] = x
  <2>1. /\ flags' \in [Events -> SUBSET Flags]
        /\ \A e \in Events : flags'[e] =
              flags[e] \union (IF e \in Pair(x) THEN {"active"} ELSE {})
    BY <1>2, FlagsSet DEF Flags
  <2>2. \A e \in Events : IF e \in Pair(x) THEN flags'[e] = flags[e] \union {"active"}
                                          ELSE flags'[e] = flags[e]
    BY <2>1
  <2>. QED
    BY <1>3, <2>1, <2>2
<1>5. TypeOK'
  <2>1. freed' \subseteq made' /\ made' \subseteq Events
    BY <1>1, <1>2 DEF TypeOK
  <2>2. /\ call' \in [Threads -> {"none", "add", "del", "pause", "resume"}]
        /\ ev' \in [Threads -> Events \union {NULL}]
    BY <1>2 DEF TypeOK
  <2>3. at' \in [Threads -> {"idle", "insert", "load", "store", "release",
                             "undo", "prepare", "ctl", "delete", "free", "count",
                             "entry", "hand", "run"}]
    BY <1>2 DEF TypeOK
  <2>. QED
    BY <1>1, <1>4, <2>1, <2>2, <2>3 DEF TypeOK, dispatch
<1>6. /\ \A e : Inserting(e)' => e = x
      /\ \A e : ~Inserting(e)
      /\ \A e : Known(e) => Known(e)' /\ e # x
  BY <1>1, <1>3, EventFacts DEF Known, Inserting
<1>7. Control'
  <2>1. Place(t)'
    BY <1>1, <1>3, EventFacts DEF Place
  <2>2. /\ nextEv' # NULL => Known(nextEv)'
        /\ \A w \in Workers : \A i \in 1..Len(tasks[w])' : Known(tasks[w][i])'
    BY <1>1, <1>6 DEF Control, Waiting, dispatch
  <2>3. freed \subseteq freed'
    BY <1>1
  <2>. QED
    BY <1>1, <1>3, <1>6, <2>1, <2>2, <2>3, OthersStay DEF dispatch
<1>8. Tables'
  <2>1. \A fd \in Fds, d \in Dirs : slot[fd][d] # NULL =>
           slot[fd][d] \in Live /\ slot[fd][d] # x
    BY <1>3 DEF Tables
  <2>2. \A e \in Live' : ~Inserting(e)' => slot[e.fd][e.dir] = e
    <3>1. x \in Live' => Inserting(x)'
      BY <1>1, <1>3 DEF Inserting
    <3>. QED
      BY <1>3, <1>6, <3>1 DEF Tables
  <2>3. at'[Acceptor] = "insert" =>
           ev'[Acceptor] \in Live' /\ flags'[ev'[Acceptor]] \subseteq {"active"}
    BY <1>1, <1>3, <1>4
  <2>4. \A e \in Events \ made' : flags'[e] = {}
    <3>. SUFFICES ASSUME NEW e \in Events \ made' PROVE flags'[e] = {}
      OBVIOUS
    <3>1. e \notin Pair(x)
      BY <1>1, PairFacts DEF Live
    <3>. QED
      BY <1>1, <1>4, <3>1 DEF Tables
  <2>. QED
    BY <1>1, <1>3, <1>6, <2>1, <2>2, <2>3, <2>4 DEF Tables
<1>9. InterestKnown'
  <2>1. \A fd \in Fds : Registered(fd)' = Registered(fd)
    BY <1>1, <1>4, RegisteredFrame, EventFacts DEF Has
  <2>2. \A u \in Threads : at'[u] \in {"ctl", "free"} =>
           u # t /\ at[u] = at'[u] /\ ev[u] \in Events /\ Known(ev[u])
    BY <1>3 DEF Control, Place, TypeOK
  <2>3. \A u \in Threads : at'[u] \in {"ctl", "free"} /\ ev[u] \in Live' => ev[u] \in Live
    BY <1>3, <1>6, <2>2
  <2>. QED
    BY <1>1, <1>3, <1>4, <1>5, <2>1, <2>2, <2>3, InterestFrame DEF history
<1>10. CountMatches'
  BY <1>1, <1>3, CountFrame DEF history, Adding
<1>11. HeldActive'
  <2>. SUFFICES ASSUME NEW e \in Live', "active" \in flags'[e]
                PROVE  Held(e)'
    BY DEF HeldActive
  <2>1. Pair(x)' = Pair(x) /\ e \in Events
    BY <1>1, <1>5 DEF Pair, SlotsOf, Live, TypeOK
  <2>2. CASE flags'[e] # flags[e]
    <3>1. at'[t] = "insert" /\ e \in Pair(ev[t])'
      BY <1>1, <1>4, <2>1, <2>2 DEF Pair, SlotsOf
    <3>. QED
      BY <3>1 DEF Held, Keeps
  <2>3. CASE flags'[e] = flags[e]
    <3>1. e \in Live /\ Held(e)
      BY <1>1, <1>3, <2>3 DEF HeldActive
    <3>2. ~Keeps(t, e)
      BY <1>1, <2>1, EventFacts DEF Keeps, RunsTask
    <3>3. Queued(e) => Held(e)'
      BY <1>1 DEF Queued, Held
    <3>4. slot' = slot /\ freed \subseteq freed'
      BY <1>1, <1>2
    <3>. QED
      BY <1>3, <3>1, <3>2, <3>3, <3>4, HeldStays
  <2>. QED
    BY <2>2, <2>3
<1>. QED
  BY <1>5, <1>7, <1>8, <1>9, <1>10, <1>11

-----------------------------------------------------------------------------
LEMMA InitIInv ==
    ASSUME Init
    PROVE  IInv
<1>. USE DEF Init
<1>1. TypeOK
  BY DEF TypeOK
<1>2. Control
  BY DEF Control, Waiting, Place
<1>3. Tables
  BY EventFacts DEF Tables, Live
<1>4. InterestKnown
  BY EventFacts DEF InterestKnown, InterestAt, Registered, Has
<1>5. CountMatches
  <2>. DEFINE S == UNION {SlotsOf(fd) : fd \in Fds}
              C == {t \in Threads : at[t] = "count"}
              A == {t \in Threads : at[t] \in Adding}
  <2>1. S = {}
    BY DEF SlotsOf
  <2>2. C = {} /\ A = {}
    BY DEF Adding
  <2>3. Cardinality({}) = 0
    BY FS_EmptySet
  <2>4. count = Cardinality(S) + Cardinality(C) - Cardinality(A)
    <3>1. count = 0
      OBVIOUS
    <3>. HIDE DEF S, C, A, Init
    <3>. QED
      BY <2>1, <2>2, <2>3, <3>1
  <2>. QED
    BY <2>4 DEF CountMatches, Adding
<1>6. HeldActive
  BY DEF HeldActive, Live
<1>. QED
  BY <1>1, <1>2, <1>3, <1>4, <1>5, <1>6 DEF IInv

LEMMA NextIInv ==
    ASSUME IInv, [Next]_vars
    PROVE  IInv'
<1>1. CASE UNCHANGED vars
  <2>1. UNCHANGED <<shared, local, dispatch, history>>
    BY <1>1 DEF vars
  <2>2. TypeOK' /\ Tables'
    BY <2>1 DEF IInv, TypeOK, Tables, Live, Inserting, shared, local, dispatch
  <2>3. Control'
    BY <2>1 DEF IInv, Control, Waiting, Place, Known, Inserting, shared, local, dispatch
  <2>4. InterestKnown'
    <3>1. \A fd : Registered(fd)' = Registered(fd)
      BY <2>1 DEF Registered, Has, shared
    <3>. QED
      BY <2>1, <2>2, <3>1, InterestFrame DEF IInv, Live, shared, local, history
  <2>5. CountMatches'
    BY <2>1, CountFrame DEF IInv, shared, local, history
  <2>6. HeldActive'
    BY <2>1 DEF IInv, HeldActive, Held, Keeps, RunsTask, Pair, SlotsOf, Queued, Orphan,
                Live, shared, local
  <2>. QED
    BY <2>2, <2>3, <2>4, <2>5, <2>6 DEF IInv
<1>2. CASE \E t \in Threads : \E e \in Events : AddEvent(t, e)
  BY <1>2, AddEventIInv
<1>3. CASE \E t \in Threads :
             \/ Insert(t) \/ IncrementLoads(t)
             \/ \E actived \in BOOLEAN : IncrementStores(t, actived)
  BY <1>3, InsertIInv, IncrementLoadsIInv, IncrementStoresIInv
<1>4. CASE \E t \in Threads : Release(t) \/ Undo(t)
  BY <1>4, ReleaseIInv, UndoIInv
<1>5. CASE \E t \in Threads : Prepare(t) \/ Ctl(t) \/ CtlFails(t)
  BY <1>5, PrepareIInv, CtlIInv, CtlFailsIInv
<1>6. CASE \E t \in Threads : DelEvent(t) \/ DelRefused(t) \/ Free(t) \/ Count(t)
  BY <1>6, DelEventIInv, DelRefusedIInv, FreeIInv, CountIInv
<1>7. CASE \E t \in Threads : Crash(t)
  BY <1>7, CrashIInv
<1>8. CASE Wait \/ HangUp \/ Capture \/ NoEvent
  BY <1>8, WaitIInv, HangUpIInv, CaptureIInv, NoEventIInv
<1>9. CASE \E w \in Workers : AddTask(w) \/ Execute(w)
  BY <1>9, AddTaskIInv, ExecuteIInv
<1>10. CASE \E w \in Workers : PauseOrResume(w) \/ TaskEnds(w)
  BY <1>10, PauseOrResumeIInv, TaskEndsIInv
<1>. QED
  BY <1>1, <1>2, <1>3, <1>4, <1>5, <1>6, <1>7, <1>8, <1>9, <1>10 DEF Next

(* The invariant holds in every state of the reactor. *)
THEOREM Invariance == Spec => []IInv
<1>. QED
  BY InitIInv, NextIInv, PTL DEF Spec

(* The tables, flags and threads keep their types. *)
THEOREM TypeCorrect == Spec => []TypeOK
<1>1. IInv => TypeOK
  BY DEF IInv
<1>. QED
  BY <1>1, Invariance, PTL

(* What the kernel waits for is what the events of the descriptor believe   *)
(* to be registered, although epoll_active_event and epoll_unactive_event   *)
(* decide it without a lock: it differs only while a thread is about to     *)
(* tell the kernel, or after two threads were there at once or an event     *)
(* has been replaced.                                                       *)
THEOREM InterestHolds == Spec => []InterestAgrees
<1>1. IInv => InterestAgrees
  BY DEF IInv, InterestKnown, InterestAt, InterestAgrees
<1>. QED
  BY <1>1, Invariance, PTL

(* event_count is the number of events in the slots and on their way out,   *)
(* less one that is on its way in, unless two updates of it have met, of    *)
(* which the decrement of epoll_del_event takes no mutex, or add_event has  *)
(* replaced an event.                                                       *)
THEOREM CountHolds == Spec => []CountMatches
<1>1. IInv => CountMatches
  BY DEF IInv
<1>. QED
  BY <1>1, Invariance, PTL

(* No event stays active with nobody to make it idle, however workers, the  *)
(* dispatcher and the acceptor interleave, except the one that is left      *)
(* behind when the event of the other direction is deleted or replaced.     *)
THEOREM ActiveHolds == Spec => []ActiveIsHeld
<1>1. ASSUME IInv PROVE ActiveIsHeld
  <2>. SUFFICES ASSUME NEW e \in Live, Has(e, "active")
                PROVE  \/ TasksOf(e) # {}
                       \/ \E t \in Threads : call[t] \in {"add", "del"} /\ ev[t] # NULL
                                             /\ (ev[t] = e \/ e \in Pair(ev[t]))
                       \/ \E d \in freed : d.fd = e.fd /\ d.dir = Other(e.dir)
    BY DEF ActiveIsHeld, Live
  <2>1. Held(e) /\ e # NULL
    BY <1>1 DEF IInv, HeldActive, Has
  <2>2. CASE Orphan(e)
    BY <2>2 DEF Orphan
  <2>3. CASE Queued(e)
    <3>1. PICK w \in Workers : \E i \in 1..Len(tasks[w]) : tasks[w][i] = e
      BY <2>3 DEF Queued
    <3>2. PICK i \in 1..Len(tasks[w]) : tasks[w][i] = e
      BY <3>1
    <3>3. <<w, i>> \in {<<w, j>> : j \in {k \in 1..Len(tasks[w]) : tasks[w][k] = e}}
      BY <3>2
    <3>4. <<w, i>> \in TasksOf(e)
      BY <3>3 DEF TasksOf
    <3>. QED
      BY <3>4
  <2>4. ASSUME NEW t \in Threads, Keeps(t, e)
        PROVE  TasksOf(e) # {} \/ (call[t] \in {"add", "del"} /\ ev[t] # NULL
                                   /\ (ev[t] = e \/ e \in Pair(ev[t])))
    <3>1. at[t] = "insert" => call[t] = "add" /\ ev[t] # NULL
      BY <1>1 DEF IInv, Control, Place
    <3>2. call[t] = "del" => ev[t] # NULL
      BY <1>1 DEF IInv, Control, Place
    <3>3. t \in Workers /\ RunsTask(t, e) => TasksOf(e) # {}
      BY DEF TasksOf
    <3>. QED
      BY <2>1, <2>4, <3>1, <3>2, <3>3 DEF Keeps
  <2>. QED
    BY <2>1, <2>2, <2>3, <2>4 DEF Held
<1>. QED
  BY <1>1, Invariance, PTL

-----------------------------------------------------------------------------
(* One task for an event at a time.                                        *)
(*                                                                         *)
(* As long as the kernel has a descriptor whose events believe to be       *)
(* registered, an event is used by one thread or waits once in one queue,  *)
(* and is then active.  A delete that fails takes the flag from events     *)
(* that are in use.  But it can fail only when the kernel has lost the     *)
(* descriptor; that is for ever, so that at most one more task can follow: *)
(* the one for an entry that the dispatcher had before.                    *)
LiveAt(fd) == {e \in Live : e.fd = fd}
Lost(fd) == epoll[fd] = {} /\ Registered(fd) # {}
Stale(fd) == at[Main] \in {"entry", "hand"} /\ ready.fd = fd

(* Thread t works on e; the dispatcher in AddTask and a thread that is     *)
(* about to call del_event only know it.                                   *)
Holds(t, e) == ev[t] = e /\ at[t] # "delete" /\ (t # Main \/ at[t] # "hand")
QueuedOnce(e) ==
    \A v, w \in Workers : \A i \in 1..Len(tasks[v]), j \in 1..Len(tasks[w]) :
       tasks[v][i] = e /\ tasks[w][j] = e => v = w /\ i = j
Unique(e) ==
    /\ \A t, u \in Threads : Holds(t, e) /\ Holds(u, e) => t = u
    /\ \A t \in Threads : Holds(t, e) => ~Queued(e)
    /\ QueuedOnce(e)
Busy(e) == Queued(e) \/ \E t \in Threads : Holds(t, e)
OneTask(e) ==
    /\ \A v, w \in Workers : RunsTask(v, e) /\ RunsTask(w, e) => v = w
    /\ \A w \in Workers : RunsTask(w, e) => ~Queued(e)
    /\ QueuedOnce(e)
HasTask(e) == Queued(e) \/ \E w \in Workers : RunsTask(w, e)

(* What the kernel will say to a thread that is about to call it, or has   *)
(* said.                                                                   *)
KernelAt(t, fd) ==
    ev[t] \in LiveAt(fd) =>
       /\ at[t] = "ctl" =>
             /\ ~Activates(t) => "registered" \in flags[ev[t]]
             /\ Activates(t) => op[t].dirs # {}
             /\ op[t].cmd = "ADD" =>
                   /\ Activates(t) /\ "registered" \notin flags[ev[t]]
                   /\ Registered(fd) # {} => epoll[fd] # {}
       /\ at[t] = "free" => "registered" \notin flags[ev[t]]
       /\ at[t] = "undo" /\ call[t] = "del" => Lost(fd)

(* A delete that is going to call the kernel, or has failed there: beside  *)
(* it nobody takes the last direction away.                                *)
Deleting(t) ==
    /\ call[t] = "del"
    /\ \/ at[t] = "undo"
       \/ at[t] \in {"prepare", "ctl"} /\ Has(ev[t], "registered")
LeavesDeletes(u, fd) ==
    at[u] = "ctl" /\ ev[u] \in LiveAt(fd) /\ op[u].dirs = {} =>
       \A t \in Threads : ev[t] \in LiveAt(fd) /\ Deleting(t) => t = u

InUse(e) == Unique(e) /\ (Busy(e) /\ ~Inserting(e) => "active" \in flags[e])
LastTask(e) == HasTask(e) => Unique(e) /\ "active" \in flags[e]

(* add_event makes the event active that it is about to replace, and not   *)
(* the new one.                                                            *)
InsertsActive(fd) ==
    at[Acceptor] = "insert" /\ ev[Acceptor].fd = fd =>
       LET old == slot[fd][ev[Acceptor].dir]
       IN  \/ "active" \in flags[ev[Acceptor]]
           \/ old # NULL /\ "active" \in flags[old] /\ ~Busy(old)

Sound(fd) ==
    /\ \A e \in LiveAt(fd) : InUse(e)
    /\ \A t \in Threads : LeavesDeletes(t, fd)
    /\ InsertsActive(fd)
Ending(fd) ==
    /\ \A e \in LiveAt(fd) : LastTask(e)
    /\ \A t \in Threads : ev[t] \in LiveAt(fd) /\ Deleting(t) =>
          \A e \in LiveAt(fd) : ~HasTask(e)
Once(fd) ==
    /\ \A e \in LiveAt(fd) : OneTask(e)
    /\ \A t \in Threads : KernelAt(t, fd)
    /\ ~Lost(fd) => Sound(fd)
    /\ Lost(fd) /\ Stale(fd) => Ending(fd)
OnceInv ==
    /\ \A fd \in Fds \ (undone \union replaced) : Once(fd)
    /\ at[Main] = "hand" /\ ev[Main] # NULL => ev[Main].fd = ready.fd

(* What the tables say of the events of a descriptor. *)
LEMMA LiveFacts ==
    ASSUME IInv, NEW fd \in Fds
    PROVE  /\ \A e \in LiveAt(fd) : /\ e \in Events /\ e \in Live /\ e # NULL
                                    /\ e.fd = fd /\ e.dir \in Dirs
                                    /\ Inserting(e) \/ (Known(e) /\ slot[fd][e.dir] = e)
           /\ \A d \in Dirs : slot[fd][d] # NULL =>
                 /\ slot[fd][d] \in LiveAt(fd) /\ slot[fd][d].dir = d
                 /\ ~Inserting(slot[fd][d])
           /\ \A d \in Registered(fd) :
                 /\ d \in Dirs /\ slot[fd][d] \in LiveAt(fd)
                 /\ slot[fd][d].dir = d /\ "registered" \in flags[slot[fd][d]]
           /\ \A e \in LiveAt(fd) : "registered" \in flags[e] => e.dir \in Registered(fd)
<1>. USE DEF IInv
<1>1. \A e \in LiveAt(fd) : e \in Events /\ e \in Live /\ e # NULL
                            /\ e.fd = fd /\ e.dir \in Dirs
  BY EventFacts DEF LiveAt, Live, TypeOK
<1>2. \A e \in LiveAt(fd) : ~Inserting(e) => Known(e) /\ slot[fd][e.dir] = e
  BY <1>1 DEF Tables, Known, Live
<1>3. \A d \in Dirs : slot[fd][d] # NULL =>
         /\ slot[fd][d] \in LiveAt(fd) /\ slot[fd][d].dir = d
         /\ ~Inserting(slot[fd][d])
  BY DEF Tables, LiveAt
<1>4. \A d \in Registered(fd) :
         /\ d \in Dirs /\ slot[fd][d] \in LiveAt(fd)
         /\ slot[fd][d].dir = d /\ "registered" \in flags[slot[fd][d]]
  BY <1>3 DEF Registered, Has
<1>5. ASSUME NEW e \in LiveAt(fd), "registered" \in flags[e]
      PROVE  e.dir \in Registered(fd)
  <2>1. ~Inserting(e)
    BY <1>5 DEF Tables, Inserting
  <2>. QED
    BY <1>1, <1>2, <1>5, <2>1 DEF Registered, Has
<1>. QED
  BY <1>1, <1>2, <1>3, <1>4, <1>5

LEMMA LiveEvents ==
    ASSUME IInv
    PROVE  \A fd : LiveAt(fd) \subseteq Events /\ NULL \notin LiveAt(fd)
<1>. QED
  BY EventFacts DEF IInv, LiveAt, Live, TypeOK

(* What a thread knows has been through add_event; a task is one way to    *)
(* work on an event.                                                       *)
LEMMA UserFacts ==
    ASSUME IInv
    PROVE  /\ \A t \in Threads : ev[t] # NULL =>
                 ev[t] \in Events /\ (Known(ev[t]) \/ (t = Acceptor /\ Inserting(ev[t])))
           /\ \A w \in Workers, e \in Events : RunsTask(w, e) => Holds(w, e)
           /\ \A e \in Events : HasTask(e) => Busy(e) /\ Known(e)
           /\ \A e \in Events : Unique(e) => OneTask(e)
           /\ \A e \in Events : Unique(e) /\ HasTask(e) =>
                 \A t \in Threads : Holds(t, e) => t \in Workers /\ call[t] # "del"
<1>. USE DEF IInv
<1>1. ASSUME NEW t \in Threads, ev[t] # NULL
      PROVE  ev[t] \in Events /\ (Known(ev[t]) \/ (t = Acceptor /\ Inserting(ev[t])))
  <2>1. ev[t] \in Events
    BY <1>1 DEF TypeOK
  <2>2. at[t] = "insert" => call[t] = "add" /\ t = Acceptor
    BY DEF Control, Place
  <2>. QED
    BY <1>1, <2>1, <2>2 DEF Control, Place, Inserting
<1>2. \A w \in Workers, e \in Events : RunsTask(w, e) => Holds(w, e)
  BY EventFacts DEF RunsTask, Holds
<1>3. \A e \in Events : HasTask(e) => Busy(e)
  BY <1>2, EventFacts DEF HasTask, Busy
<1>4. ASSUME NEW e \in Events, HasTask(e)
      PROVE  Known(e)
  <2>1. Queued(e) => Known(e)
    BY DEF Queued, Control, Waiting
  <2>2. ASSUME NEW w \in Workers, RunsTask(w, e) PROVE Known(e)
    BY <1>1, <2>2, EventFacts DEF RunsTask
  <2>. QED
    BY <1>4, <2>1, <2>2 DEF HasTask
<1>5. \A e \in Events : Unique(e) => OneTask(e)
  BY <1>2, EventFacts DEF Unique, OneTask
<1>6. ASSUME NEW e \in Events, Unique(e), HasTask(e), NEW t \in Threads, Holds(t, e)
      PROVE  t \in Workers /\ call[t] # "del"
  <2>1. PICK w \in Workers : RunsTask(w, e)
    BY <1>6 DEF HasTask, Unique
  <2>2. t = w
    BY <1>2, <1>6, <2>1, EventFacts DEF Unique
  <2>. QED
    BY <2>1, <2>2 DEF RunsTask
<1>. QED
  BY <1>1, <1>2, <1>3, <1>4, <1>5, <1>6

(* The queues as they are and no thread that starts to work on an event.   *)
LEMMA NoNewUser ==
    ASSUME NEW t \in Threads, NEW e \in Events, tasks' = tasks,
           \A u \in Threads : u # t =>
              at'[u] = at[u] /\ ev'[u] = ev[u] /\ call'[u] = call[u],
           Holds(t, e)' => Holds(t, e),
           t \in Workers /\ RunsTask(t, e)' => RunsTask(t, e)
    PROVE  /\ Unique(e) => Unique(e)'
           /\ OneTask(e) => OneTask(e)'
           /\ Busy(e)' => Busy(e)
           /\ HasTask(e)' => HasTask(e)
<1>1. \A u \in Threads : Holds(u, e)' => Holds(u, e)
  BY DEF Holds
<1>2. \A w \in Workers : RunsTask(w, e)' => RunsTask(w, e)
  BY EventFacts DEF RunsTask
<1>3. (Queued(e)' <=> Queued(e)) /\ (QueuedOnce(e)' <=> QueuedOnce(e))
  BY DEF Queued, QueuedOnce
<1>. QED
  BY <1>1, <1>2, <1>3 DEF Unique, OneTask, Busy, HasTask

(* What the kernel has and what is registered decide whether it is lost.   *)
LEMMA LostFrame ==
    ASSUME slot' = slot, TypeOK, TypeOK',
           \A e \in Events : "registered" \in flags'[e] <=> "registered" \in flags[e]
    PROVE  \A fd \in Fds : Registered(fd)' = Registered(fd)
<1>1. \A e \in Events \union {NULL} : Has(e, "registered")' <=> Has(e, "registered")
  BY EventFacts DEF Has
<1>. QED
  BY <1>1, RegisteredFrame

(* Somebody else who calls the kernel sees what he saw before. *)
LEMMA KernelFrame ==
    ASSUME NEW fd, NEW u \in Threads, KernelAt(u, fd),
           Registered(fd)' = Registered(fd), epoll'[fd] = epoll[fd],
           ev'[u] = ev[u], at'[u] = at[u], call'[u] = call[u], op'[u] = op[u],
           ev[u] \in LiveAt(fd)' =>
              /\ ev[u] \in LiveAt(fd)
              /\ "registered" \in flags'[ev[u]] <=> "registered" \in flags[ev[u]]
    PROVE  KernelAt(u, fd)'
<1>1. Lost(fd)' <=> Lost(fd)
  BY DEF Lost
<1>2. Activates(u)' <=> Activates(u)
  BY DEF Activates
<1>. QED
  BY <1>1, <1>2 DEF KernelAt

(* What a step of thread t has to keep, for each event of a descriptor and *)
(* for itself, if it moves no event and tells the kernel nothing.          *)
EventStep(fd, e) ==
    /\ OneTask(e)'
    /\ ~Lost(fd) =>
          /\ Unique(e)'
          /\ Busy(e)' => Busy(e) \/ "active" \in flags'[e]
          /\ "active" \in flags[e] =>
                /\ Busy(e)' => Busy(e)
                /\ "active" \in flags'[e] \/ (Busy(e) /\ ~Busy(e)')
    /\ Lost(fd) /\ Stale(fd)' /\ HasTask(e)' =>
          /\ HasTask(e)
          /\ Unique(e) => Unique(e)'
          /\ "active" \in flags[e] => "active" \in flags'[e]
ThreadStep(t, fd) ==
    /\ KernelAt(t, fd)'
    /\ ~Lost(fd) => LeavesDeletes(t, fd)'
    /\ Lost(fd) /\ Stale(fd)' => Stale(fd)
    /\ Deleting(t)' /\ ev'[t] \in LiveAt(fd) =>
          \/ Deleting(t) /\ ev'[t] = ev[t]
          \/ /\ ~Lost(fd) => \A u \in Threads : u # t /\ at[u] = "ctl"
                                 /\ ev[u] \in LiveAt(fd) => op[u].dirs # {}
             /\ Lost(fd) /\ Stale(fd)' => \A e \in LiveAt(fd) : ~HasTask(e)'

LEMMA OnceStep ==
    ASSUME IInv, IInv', OnceInv, NEW t \in Threads,
           UNCHANGED <<slot, made, freed, epoll>>,
           undone \subseteq undone', replaced \subseteq replaced',
           \A e \in Events : "registered" \in flags'[e] <=> "registered" \in flags[e],
           \A u \in Threads : u # t =>
              at'[u] = at[u] /\ ev'[u] = ev[u] /\ call'[u] = call[u] /\ op'[u] = op[u],
           at'[t] = "insert" <=> at[t] = "insert",
           at[t] = "insert" => ev'[t] = ev[t],
           at'[Main] = "hand" /\ ev'[Main] # NULL => ev'[Main].fd = ready'.fd,
           \A fd \in Fds \ (undone' \union replaced') :
              ThreadStep(t, fd) /\ \A e \in LiveAt(fd) : EventStep(fd, e)
    PROVE  OnceInv'
<1>. SUFFICES ASSUME NEW fd \in Fds, fd \notin undone' \union replaced'
              PROVE  Once(fd)'
  BY DEF OnceInv
<1>1. Once(fd) /\ ThreadStep(t, fd) /\ \A e \in LiveAt(fd) : EventStep(fd, e)
  BY DEF OnceInv
<1>2. LiveAt(fd)' = LiveAt(fd) /\ LiveAt(fd) \subseteq Events /\ NULL \notin LiveAt(fd)
  <2>1. LiveAt(fd)' = LiveAt(fd)
    BY DEF LiveAt, Live
  <2>. QED
    BY <2>1, LiveEvents
<1>3. Registered(fd)' = Registered(fd) /\ (Lost(fd)' <=> Lost(fd))
  BY LostFrame DEF Lost, IInv
<1>4. \A e : Inserting(e)' <=> Inserting(e)
  BY EventFacts DEF Inserting
<1>5. \A u \in Threads : u # t => (Deleting(u)' /\ ev'[u] \in LiveAt(fd) => Deleting(u))
  BY <1>2 DEF Deleting, Has
<1>6. ASSUME NEW u \in Threads
      PROVE  KernelAt(u, fd)'
  <2>1. KernelAt(u, fd) /\ epoll'[fd] = epoll[fd]
    BY <1>1 DEF Once
  <2>2. ev[u] \in LiveAt(fd) =>
           ("registered" \in flags'[ev[u]] <=> "registered" \in flags[ev[u]])
    BY <1>2
  <2>3. CASE u # t
    BY <1>2, <1>3, <2>1, <2>2, <2>3, KernelFrame
  <2>. QED
    BY <1>1, <2>3 DEF ThreadStep
<1>7. ASSUME ~Lost(fd) PROVE Sound(fd)'
  <2>1. Sound(fd)
    BY <1>1, <1>7 DEF Once
  <2>2. ASSUME NEW e \in LiveAt(fd) PROVE InUse(e)'
    <3>1. InUse(e) /\ EventStep(fd, e)
      BY <1>1, <2>1 DEF Sound
    <3>. QED
      BY <1>4, <1>7, <3>1 DEF InUse, EventStep
  <2>3. ASSUME NEW u \in Threads, NEW v \in Threads,
               at'[u] = "ctl", ev'[u] \in LiveAt(fd), op'[u].dirs = {},
               ev'[v] \in LiveAt(fd), Deleting(v)'
        PROVE  v = u
    <3>1. CASE u = t
      BY <1>1, <1>2, <1>7, <2>3, <3>1 DEF ThreadStep, LeavesDeletes
    <3>2. CASE u # t /\ v # t
      BY <1>5, <2>1, <2>3, <3>2 DEF Sound, LeavesDeletes
    <3>3. CASE u # t /\ v = t
      <4>1. at[u] = "ctl" /\ ev[u] \in LiveAt(fd) /\ op[u].dirs = {}
        BY <2>3, <3>3
      <4>2. Deleting(t) /\ ev'[t] = ev[t]
        BY <1>1, <1>7, <2>3, <3>3, <4>1 DEF ThreadStep
      <4>. QED
        BY <2>1, <2>3, <3>3, <4>1, <4>2 DEF Sound, LeavesDeletes
    <3>. QED
      BY <3>1, <3>2, <3>3
  <2>4. InsertsActive(fd)'
    <3>. SUFFICES ASSUME at'[Acceptor] = "insert", ev'[Acceptor].fd = fd
                  PROVE  LET old == slot[fd][ev[Acceptor].dir]
                         IN  \/ "active" \in flags'[ev[Acceptor]]
                             \/ old # NULL /\ "active" \in flags'[old] /\ ~Busy(old)'
      BY EventFacts DEF InsertsActive
    <3>. DEFINE x == ev[Acceptor]
                old == slot[fd][x.dir]
    <3>1. at[Acceptor] = "insert" /\ ev'[Acceptor] = x
      BY EventFacts
    <3>2. x \in LiveAt(fd) /\ x.dir \in Dirs /\ Acceptor \in Threads
      <4>1. x \in LiveAt(fd)
        BY <3>1 DEF IInv, Tables, LiveAt
      <4>. QED
        BY <1>2, <4>1, EventFacts
    <3>5. EventStep(fd, x)
      BY <1>1, <3>2
    <3>3. CASE "active" \in flags[x]
      <4>1. Busy(x)'
        BY <3>1, EventFacts DEF Busy, Holds
      <4>. QED
        BY <1>7, <3>3, <3>5, <4>1 DEF EventStep
    <3>4. CASE "active" \notin flags[x]
      <4>1. old # NULL /\ "active" \in flags[old] /\ ~Busy(old)
        BY <2>1, <3>1, <3>4 DEF Sound, InsertsActive
      <4>2. old \in LiveAt(fd)
        BY <3>2, <4>1, LiveFacts
      <4>3. EventStep(fd, old)
        BY <1>1, <4>2
      <4>. QED
        BY <1>7, <4>1, <4>3 DEF EventStep
    <3>. QED
      BY <3>3, <3>4
  <2>. QED
    BY <1>2, <2>2, <2>3, <2>4 DEF Sound, LeavesDeletes
<1>8. ASSUME Lost(fd), Stale(fd)' PROVE Ending(fd)'
  <2>1. Ending(fd)
    BY <1>1, <1>8 DEF Once, ThreadStep
  <2>2. ASSUME NEW e \in LiveAt(fd) PROVE LastTask(e)'
    <3>1. LastTask(e) /\ EventStep(fd, e)
      BY <1>1, <2>1 DEF Ending
    <3>. QED
      BY <1>8, <3>1 DEF LastTask, EventStep
  <2>3. ASSUME NEW u \in Threads, ev'[u] \in LiveAt(fd), Deleting(u)',
               NEW e \in LiveAt(fd)
        PROVE  ~HasTask(e)'
    <3>1. HasTask(e)' => HasTask(e)
      BY <1>1, <1>8 DEF EventStep
    <3>2. CASE Deleting(u) /\ ev'[u] = ev[u]
      BY <2>1, <2>3, <3>1, <3>2 DEF Ending
    <3>3. CASE ~(Deleting(u) /\ ev'[u] = ev[u])
      BY <1>1, <1>5, <1>8, <2>3, <3>3 DEF ThreadStep
    <3>. QED
      BY <3>2, <3>3
  <2>. QED
    BY <1>2, <2>2, <2>3 DEF Ending
<1>9. \A e \in LiveAt(fd) : OneTask(e)'
  BY <1>1 DEF EventStep
<1>. QED
  BY <1>2, <1>3, <1>6, <1>7, <1>8, <1>9 DEF Once

(* The same when nobody starts to work on an event.                        *)
LEMMA OnceQuiet ==
    ASSUME IInv, IInv', OnceInv, NEW t \in Threads,
           UNCHANGED <<slot, made, freed, epoll>>,
           undone \subseteq undone', replaced \subseteq replaced',
           \A e \in Events : "registered" \in flags'[e] <=> "registered" \in flags[e],
           \A u \in Threads : u # t =>
              at'[u] = at[u] /\ ev'[u] = ev[u] /\ call'[u] = call[u] /\ op'[u] = op[u],
           at'[t] = "insert" <=> at[t] = "insert",
           at[t] = "insert" => ev'[t] = ev[t],
           at'[Main] = "hand" /\ ev'[Main] # NULL => ev'[Main].fd = ready'.fd,
           \A e \in Events : /\ Unique(e) => Unique(e)'
                             /\ OneTask(e) => OneTask(e)'
                             /\ Busy(e)' => Busy(e)
                             /\ HasTask(e)' => HasTask(e),
           \A fd \in Fds \ (undone' \union replaced') :
              /\ Deleting(t)' /\ ev'[t] \in LiveAt(fd) => Deleting(t) /\ ev'[t] = ev[t]
              /\ KernelAt(t, fd)'
              /\ ~Lost(fd) => LeavesDeletes(t, fd)'
              /\ Lost(fd) /\ Stale(fd)' => Stale(fd)
              /\ \A e \in LiveAt(fd) : "active" \in flags[e] /\ "active" \notin flags'[e] =>
                    /\ ~Lost(fd) => Busy(e) /\ ~Busy(e)'
                    /\ Lost(fd) /\ Stale(fd) => ~HasTask(e)'
    PROVE  OnceInv'
<1>. SUFFICES ASSUME NEW fd \in Fds, fd \notin undone' \union replaced'
              PROVE  ThreadStep(t, fd) /\ \A e \in LiveAt(fd) : EventStep(fd, e)
  BY OnceStep
<1>1. ThreadStep(t, fd)
  BY DEF ThreadStep
<1>2. ASSUME NEW e \in LiveAt(fd) PROVE EventStep(fd, e)
  <2>1. e \in Events
    BY LiveEvents
  <2>2. OneTask(e) /\ (~Lost(fd) => Unique(e))
    BY DEF OnceInv, Once, Sound, InUse
  <2>. QED
    BY <2>1, <2>2 DEF EventStep
<1>. QED
  BY <1>1, <1>2

(* The same when t is then in no call and works on no event.               *)
LEMMA OnceReturn ==
    ASSUME IInv, IInv', OnceInv, NEW t \in Threads,
           UNCHANGED <<slot, made, freed, epoll, tasks>>,
           undone \subseteq undone', replaced \subseteq replaced',
           \A e \in Events : "registered" \in flags'[e] <=> "registered" \in flags[e],
           \A u \in Threads : u # t =>
              at'[u] = at[u] /\ ev'[u] = ev[u] /\ call'[u] = call[u] /\ op'[u] = op[u],
           at[t] # "insert", call'[t] = "none",
           at'[t] \in {"idle", "delete", "entry", "hand"},
           at'[t] \in {"idle", "entry"} => ev'[t] = NULL,
           at'[t] = "hand" => t = Main,
           at'[Main] = "hand" /\ ev'[Main] # NULL => ev'[Main].fd = ready'.fd,
           \A fd \in Fds \ (undone' \union replaced') :
              /\ Lost(fd) /\ Stale(fd)' => Stale(fd)
              /\ \A e \in LiveAt(fd) : "active" \in flags[e] /\ "active" \notin flags'[e] =>
                    /\ ~Lost(fd) => Busy(e) /\ ~Busy(e)'
                    /\ Lost(fd) /\ Stale(fd) => ~HasTask(e)'
    PROVE  OnceInv'
<1>1. ASSUME NEW e \in Events
      PROVE  ~Holds(t, e)' /\ (t \in Workers => ~RunsTask(t, e)')
  BY EventFacts DEF Holds, RunsTask
<1>2. ASSUME NEW e \in Events
      PROVE  /\ Unique(e) => Unique(e)'
             /\ OneTask(e) => OneTask(e)'
             /\ Busy(e)' => Busy(e)
             /\ HasTask(e)' => HasTask(e)
  BY <1>1, NoNewUser
<1>3. ~Deleting(t)'
  BY DEF Deleting
<1>4. \A fd : KernelAt(t, fd)' /\ LeavesDeletes(t, fd)'
  BY DEF KernelAt, LeavesDeletes
<1>. QED
  BY <1>2, <1>3, <1>4, OnceQuiet

(* Once t has stopped working on an event nobody does, if it was alone.    *)
LEMMA UserLeaves ==
    ASSUME IInv, tasks' = tasks, NEW t \in Threads, NEW e \in Events, Unique(e), Holds(t, e),
           \A u \in Threads : u # t =>
              at'[u] = at[u] /\ ev'[u] = ev[u] /\ call'[u] = call[u],
           ~Holds(t, e)', t \in Workers => ~RunsTask(t, e)'
    PROVE  Busy(e) /\ ~Busy(e)' /\ ~HasTask(e)'
<1>1. \A u \in Threads : ~Holds(u, e)'
  BY DEF Holds, Unique
<1>2. ~Queued(e)'
  BY DEF Queued, Unique
<1>3. \A w \in Workers : ~RunsTask(w, e)'
  <2>1. \A w \in Workers : w # t => ~RunsTask(w, e)
    BY UserFacts, EventFacts DEF Unique
  <2>. QED
    BY <2>1, EventFacts DEF RunsTask
<1>. QED
  BY <1>1, <1>2, <1>3 DEF Busy, HasTask

LEMMA ReleaseOnce ==
    ASSUME IInv, IInv', OnceInv, NEW t \in Threads, Release(t)
    PROVE  OnceInv'
<1>1. /\ \A e \in Events : "registered" \in flags'[e] <=> "registered" \in flags[e]
      /\ \A e \in Events : "active" \in flags[e] /\ "active" \notin flags'[e] => e = ev[t]
  BY FlagsCleared DEF Release, Flags, IInv
<1>2. /\ at[t] = "release" /\ t = Acceptor /\ t \notin Workers /\ t # Main
      /\ UNCHANGED <<slot, made, freed, epoll, tasks, op, seen, history>> /\ Return(t)
  BY EventFacts DEF Release, Works, IInv, Control, Place
<1>3. /\ call'[t] = "none" /\ at'[t] = "idle" /\ ev'[t] = NULL
      /\ ready' = ready /\ nextEv' = nextEv
      /\ \A u \in Threads : u # t => at'[u] = at[u] /\ ev'[u] = ev[u] /\ call'[u] = call[u]
  BY <1>2 DEF Return, Goto, IInv, TypeOK
<1>4. \A fd : Stale(fd)' <=> Stale(fd)
  BY <1>2, <1>3, EventFacts DEF Stale
<1>5. at'[Main] = "hand" /\ ev'[Main] # NULL => ev'[Main].fd = ready'.fd
  BY <1>2, <1>3, EventFacts DEF OnceInv
<1>6. ASSUME NEW fd \in Fds, fd \notin undone' \union replaced', NEW e \in LiveAt(fd),
             "active" \in flags[e], "active" \notin flags'[e]
      PROVE  /\ ~Lost(fd) => Busy(e) /\ ~Busy(e)'
             /\ Lost(fd) /\ Stale(fd) => ~HasTask(e)'
  <2>1. e \in Events /\ e # NULL /\ e = ev[t]
    BY <1>1, <1>6, LiveEvents
  <2>2. Holds(t, e) /\ ~Holds(t, e)'
    BY <1>2, <1>3, <2>1 DEF Holds
  <2>3. Unique(e) => Busy(e) /\ ~Busy(e)' /\ ~HasTask(e)'
    BY <1>2, <1>3, <2>1, <2>2, UserLeaves
  <2>4. Once(fd)
    BY <1>2, <1>6 DEF OnceInv, history
  <2>5. ~Lost(fd) => Unique(e)
    BY <2>4 DEF Once, Sound, InUse
  <2>6. Lost(fd) /\ Stale(fd) /\ HasTask(e) => Unique(e)
    BY <2>4 DEF Once, Ending, LastTask
  <2>7. HasTask(e)' => HasTask(e)
    BY <1>2, <1>3, <2>1 DEF HasTask, RunsTask, Queued, Threads
  <2>. QED
    BY <2>3, <2>5, <2>6, <2>7
<1>. QED
  BY <1>1, <1>2, <1>3, <1>4, <1>5, <1>6, OnceReturn DEF history

LEMMA UndoOnce ==
    ASSUME IInv, IInv', OnceInv, NEW t \in Threads, Undo(t)
    PROVE  OnceInv'
<1>1. /\ \A e \in Events : "registered" \in flags'[e] <=> "registered" \in flags[e]
      /\ \A e \in Events : "active" \in flags[e] /\ "active" \notin flags'[e] =>
            e \in Pair(ev[t])
  BY FlagsCleared DEF Undo, Flags, IInv
<1>2. /\ at[t] = "undo" /\ call[t] \in {"add", "del"}
      /\ ev[t] \in Events /\ ev[t] \in Live
      /\ undone' = undone \union (IF call[t] = "add" THEN {ev[t].fd} ELSE {})
      /\ UNCHANGED <<slot, made, freed, epoll, tasks, op, replaced>> /\ Return(t)
  BY DEF Undo, Works, Dangling, IInv, Control, Place, TypeOK, Known, Live
<1>3. /\ call'[t] = "none" /\ at'[t] \in {"idle", "delete"}
      /\ at'[t] = "idle" => ev'[t] = NULL
      /\ t # Main => ready' = ready
      /\ \A u \in Threads : u # t => at'[u] = at[u] /\ ev'[u] = ev[u] /\ call'[u] = call[u]
  BY <1>2, ReturnFacts DEF IInv
<1>4. \A fd : Stale(fd)' => Stale(fd)
  BY <1>3, EventFacts DEF Stale
<1>5. at'[Main] = "hand" /\ ev'[Main] # NULL => ev'[Main].fd = ready'.fd
  BY <1>3, EventFacts DEF OnceInv
<1>6. ASSUME NEW fd \in Fds, fd \notin undone' \union replaced', NEW e \in LiveAt(fd),
             "active" \in flags[e], "active" \notin flags'[e]
      PROVE  /\ ~Lost(fd) => Busy(e) /\ ~Busy(e)'
             /\ Lost(fd) /\ Stale(fd) => ~HasTask(e)'
  <2>1. e \in Events /\ e.fd = fd /\ e \in Pair(ev[t])
    BY <1>1, <1>6, LiveEvents DEF LiveAt
  <2>2. ev[t] \in LiveAt(fd)
    BY <1>2, <2>1, PairFacts DEF LiveAt, IInv
  <2>3. Once(fd)
    BY <1>2, <1>6 DEF OnceInv
  <2>4. call[t] = "del"
    BY <1>2, <1>6, <2>2 DEF LiveAt
  <2>5. Lost(fd)
    BY <1>2, <2>2, <2>3, <2>4 DEF Once, KernelAt
  <2>6. Stale(fd) => ~HasTask(e)
    BY <1>2, <2>2, <2>3, <2>4, <2>5 DEF Once, Ending, Deleting
  <2>7. HasTask(e)' => HasTask(e)
    <3>1. \A w \in Workers : w = t => ~RunsTask(w, e)'
      BY <1>3, <2>1, EventFacts DEF RunsTask
    <3>. QED
      BY <1>2, <1>3, <3>1 DEF HasTask, RunsTask, Queued, Threads
  <2>. QED
    BY <2>5, <2>6, <2>7
<1>. QED
  BY <1>1, <1>2, <1>3, <1>4, <1>5, <1>6, OnceReturn

LEMMA TaskEndsOnce ==
    ASSUME IInv, IInv', OnceInv, NEW w \in Workers, TaskEnds(w)
    PROVE  OnceInv'
<1>1. /\ \A e \in Events : "registered" \in flags'[e] <=> "registered" \in flags[e]
      /\ \A e \in Events : "active" \in flags[e] /\ "active" \notin flags'[e] => e = ev[w]
  BY FlagsCleared DEF TaskEnds, Flags, IInv
<1>2. /\ at[w] = "run" /\ w \in Threads /\ w # Main
      /\ UNCHANGED <<slot, made, freed, epoll, tasks, op, history>>
  BY EventFacts DEF TaskEnds, Works
<1>3. \/ Return(w)
      \/ /\ at' = [at EXCEPT ![w] = "delete"] /\ call' = [call EXCEPT ![w] = "none"]
         /\ UNCHANGED <<ev, ready, nextEv>>
  BY DEF TaskEnds, Enter, Goto, dispatch
<1>4. /\ at'[w] \in {"idle", "delete"} /\ call'[w] = "none" /\ ready' = ready
      /\ at'[w] = "idle" => ev'[w] = NULL
      /\ \A u \in Threads : u # w =>
            at'[u] = at[u] /\ ev'[u] = ev[u] /\ call'[u] = call[u]
  BY <1>2, <1>3, ReturnFacts DEF IInv, TypeOK
<1>5. \A fd : Stale(fd)' <=> Stale(fd)
  BY <1>2, <1>4, EventFacts DEF Stale
<1>6. at'[Main] = "hand" /\ ev'[Main] # NULL => ev'[Main].fd = ready'.fd
  BY <1>2, <1>4, EventFacts DEF OnceInv
<1>7. ASSUME NEW fd \in Fds, fd \notin undone' \union replaced', NEW e \in LiveAt(fd),
             "active" \in flags[e], "active" \notin flags'[e]
      PROVE  /\ ~Lost(fd) => Busy(e) /\ ~Busy(e)'
             /\ Lost(fd) /\ Stale(fd) => ~HasTask(e)'
  <2>1. e \in Events /\ e # NULL /\ e = ev[w]
    BY <1>1, <1>7, LiveEvents
  <2>2. Holds(w, e) /\ ~Holds(w, e)' /\ ~RunsTask(w, e)' /\ RunsTask(w, e)
    <3>1. call[w] # "del"
      BY <1>2 DEF IInv, Control, Place
    <3>. QED
      BY <1>2, <1>4, <2>1, <3>1 DEF Holds, RunsTask
  <2>3. Unique(e) => Busy(e) /\ ~Busy(e)' /\ ~HasTask(e)'
    BY <1>2, <1>4, <2>1, <2>2, UserLeaves
  <2>4. Once(fd)
    BY <1>2, <1>7 DEF OnceInv, history
  <2>5. ~Lost(fd) => Unique(e)
    BY <2>4 DEF Once, Sound, InUse
  <2>6. Lost(fd) /\ Stale(fd) => Unique(e)
    BY <2>2, <2>4 DEF Once, Ending, LastTask, HasTask
  <2>. QED
    BY <2>3, <2>5, <2>6
<1>. QED
  BY <1>1, <1>2, <1>4, <1>5, <1>6, <1>7, OnceReturn DEF history

(* A return that leaves the flags alone.                                   *)
LEMMA PlainReturnOnce ==
    ASSUME IInv, IInv', OnceInv, NEW t \in Threads, Return(t), at[t] # "insert",
           UNCHANGED <<slot, flags, made, freed, epoll, tasks>>, op' = op,
           undone' = undone, replaced' = replaced
    PROVE  OnceInv'
<1>1. /\ call'[t] = "none" /\ at'[t] \in {"idle", "delete"}
      /\ at'[t] = "idle" => ev'[t] = NULL
      /\ t # Main => ready' = ready
      /\ \A u \in Threads : u # t => at'[u] = at[u] /\ ev'[u] = ev[u] /\ call'[u] = call[u]
  BY ReturnFacts DEF IInv
<1>2. \A fd : Stale(fd)' => Stale(fd)
  BY <1>1, EventFacts DEF Stale
<1>3. at'[Main] = "hand" /\ ev'[Main] # NULL => ev'[Main].fd = ready'.fd
  BY <1>1, EventFacts DEF OnceInv
<1>. QED
  BY <1>1, <1>2, <1>3, OnceReturn

LEMMA DelRefusedOnce ==
    ASSUME IInv, IInv', OnceInv, NEW t \in Threads, DelRefused(t)
    PROVE  OnceInv'
<1>. QED
  BY PlainReturnOnce DEF DelRefused, Works, shared, history

LEMMA NoEventOnce ==
    ASSUME IInv, IInv', OnceInv, NoEvent
    PROVE  OnceInv'
<1>. QED
  BY PlainReturnOnce, EventFacts DEF NoEvent, shared, history

LEMMA CountOnce ==
    ASSUME IInv, IInv', OnceInv, NEW t \in Threads, Count(t)
    PROVE  OnceInv'
<1>. QED
  BY PlainReturnOnce DEF Count

(* The dispatcher waits for descriptors that the kernel has. *)
LEMMA WaitOnce ==
    ASSUME IInv, IInv', OnceInv, Wait
    PROVE  OnceInv'
<1>1. /\ at[Main] = "idle" /\ at'[Main] = "entry" /\ ev' = ev /\ call' = call
      /\ \A u \in Threads : u # Main => at'[u] = at[u]
      /\ UNCHANGED <<shared, op, seen, nextEv, history>>
      /\ epoll[ready'.fd] # {}
  BY EventFacts DEF Wait, Goto, IInv, TypeOK
<1>2. call[Main] = "none" /\ ev[Main] = NULL
  BY <1>1, EventFacts DEF IInv, Control, Place
<1>3. \A fd : Stale(fd)' => ~Lost(fd)
  BY <1>1 DEF Stale, Lost
<1>. QED
  BY <1>1, <1>2, <1>3, OnceReturn, EventFacts DEF shared, history

LEMMA HangUpOnce ==
    ASSUME IInv, IInv', OnceInv, HangUp
    PROVE  OnceInv'
<1>1. /\ at[Main] = "entry" /\ call[Main] = "none" /\ Main \in Threads
      /\ UNCHANGED <<shared, op, seen, history>>
  BY EventFacts DEF HangUp, IInv, Control, Place
<1>2. CASE Return(Main)
  BY <1>1, <1>2, PlainReturnOnce DEF shared, history
<1>3. CASE ~Return(Main)
  <2>1. /\ at'[Main] = "delete" /\ call' = call
        /\ \A u \in Threads : u # Main => at'[u] = at[u] /\ ev'[u] = ev[u]
    BY <1>1, <1>3 DEF HangUp, Goto, IInv, TypeOK
  <2>2. \A fd : ~Stale(fd)'
    BY <2>1 DEF Stale
  <2>. QED
    BY <1>1, <2>1, <2>2, OnceReturn DEF shared, history
<1>. QED
  BY <1>2, <1>3

LEMMA CaptureOnce ==
    ASSUME IInv, IInv', OnceInv, Capture
    PROVE  OnceInv'
<1>1. /\ at[Main] = "entry" /\ at'[Main] = "hand" /\ call' = call /\ Main \in Threads
      /\ ev'[Main] = slot[ready.fd][ready.why] /\ ready.why # "error"
      /\ \A u \in Threads : u # Main => at'[u] = at[u] /\ ev'[u] = ev[u]
      /\ UNCHANGED <<shared, op, seen, dispatch, history>>
  BY EventFacts DEF Capture, Goto, IInv, TypeOK
<1>2. call[Main] = "none" /\ ready.fd \in Fds /\ ready.why \in Dirs
  BY <1>1, EventFacts DEF IInv, Control, Place
<1>3. \A fd : Stale(fd)' => Stale(fd)
  BY <1>1 DEF Stale, dispatch
<1>4. ev'[Main] # NULL => ev'[Main].fd = ready'.fd
  BY <1>1, <1>2 DEF IInv, Tables, dispatch
<1>. QED
  BY <1>1, <1>2, <1>3, <1>4, OnceReturn DEF shared, history

(* Nothing happens to the events, the threads and the kernel. *)
LEMMA StutterOnce ==
    ASSUME OnceInv,
           UNCHANGED <<slot, flags, epoll, tasks, at, ev, call, op, ready>>,
           UNCHANGED <<undone, replaced>>, Live' = Live
    PROVE  OnceInv'
<1>1. \A fd : Once(fd)' <=> Once(fd)
  <2>1. \A e : /\ Queued(e)' <=> Queued(e)
               /\ QueuedOnce(e)' <=> QueuedOnce(e)
               /\ Inserting(e)' <=> Inserting(e)
    BY DEF Queued, QueuedOnce, Inserting
  <2>2. \A t : \A e : (Holds(t, e)' <=> Holds(t, e)) /\ (RunsTask(t, e)' <=> RunsTask(t, e))
    BY DEF Holds, RunsTask
  <2>3. \A e : /\ Unique(e)' <=> Unique(e)
               /\ Busy(e)' <=> Busy(e)
               /\ OneTask(e)' <=> OneTask(e)
               /\ HasTask(e)' <=> HasTask(e)
    BY <2>1, <2>2 DEF Unique, Busy, OneTask, HasTask
  <2>4. \A fd : /\ LiveAt(fd)' = LiveAt(fd) /\ Registered(fd)' = Registered(fd)
                /\ Lost(fd)' <=> Lost(fd)
                /\ Stale(fd)' <=> Stale(fd)
    BY DEF LiveAt, Registered, Has, Lost, Stale
  <2>5. \A t : Activates(t)' = Activates(t) /\ (Deleting(t)' <=> Deleting(t))
    BY DEF Activates, Deleting, Has
  <2>6. \A fd : \A t : /\ KernelAt(t, fd)' <=> KernelAt(t, fd)
                       /\ LeavesDeletes(t, fd)' <=> LeavesDeletes(t, fd)
    BY <2>4, <2>5 DEF KernelAt, LeavesDeletes
  <2>7. \A fd : InsertsActive(fd)' <=> InsertsActive(fd)
    BY <2>3 DEF InsertsActive
  <2>8. \A fd : (Sound(fd)' <=> Sound(fd)) /\ (Ending(fd)' <=> Ending(fd))
    BY <2>1, <2>3, <2>4, <2>5, <2>6, <2>7 DEF Sound, Ending, InUse, LastTask
  <2>. QED
    BY <2>3, <2>4, <2>6, <2>8 DEF Once
<1>. QED
  BY <1>1 DEF OnceInv

-----------------------------------------------------------------------------
(* A thread that works on a live event works on one that is in its slot.   *)
LEMMA CallerFacts ==
    ASSUME IInv, NEW t \in Threads, Works(t, at[t]),
           at[t] \notin {"idle", "insert", "load", "store", "entry", "hand", "count"}
    PROVE  /\ ev[t] \in Events /\ Known(ev[t]) /\ ev[t] \in Live
           /\ ev[t].fd \in Fds /\ ev[t].dir \in Dirs
           /\ slot[ev[t].fd][ev[t].dir] = ev[t] /\ ev[t] # NULL
           /\ at[t] # "delete" => Holds(t, ev[t])
<1>1. ev[t] \in Events /\ Known(ev[t]) /\ ev[t] # NULL
  BY DEF IInv, Control, Place, TypeOK
<1>2. ev[t] \in Live
  BY <1>1 DEF Works, Dangling, Known, Live
<1>3. slot[ev[t].fd][ev[t].dir] = ev[t]
  BY <1>1, <1>2 DEF IInv, Tables, Known
<1>. QED
  BY <1>1, <1>2, <1>3, EventFacts DEF Holds

LEMMA PauseOrResumeOnce ==
    ASSUME IInv, IInv', OnceInv, NEW w \in Workers, PauseOrResume(w)
    PROVE  OnceInv'
<1>1. /\ at[w] = "run" /\ at'[w] = "prepare" /\ ev' = ev /\ w \in Threads /\ w # Main
      /\ call'[w] \in {"pause", "resume"}
      /\ \A u \in Threads : u # w => at'[u] = at[u] /\ call'[u] = call[u]
      /\ UNCHANGED <<shared, op, seen, dispatch, history>>
  BY EventFacts DEF PauseOrResume, Works, Enter, Goto, IInv, TypeOK
<1>2. call[w] # "del"
  BY <1>1 DEF IInv, Control, Place
<1>3. ASSUME NEW e \in Events
      PROVE  /\ Unique(e) => Unique(e)'
             /\ OneTask(e) => OneTask(e)'
             /\ Busy(e)' => Busy(e)
             /\ HasTask(e)' => HasTask(e)
  <2>1. (Holds(w, e)' => Holds(w, e)) /\ (RunsTask(w, e)' => RunsTask(w, e))
    BY <1>1, <1>2 DEF Holds, RunsTask
  <2>. QED
    BY <1>1, <2>1, NoNewUser DEF shared
<1>4. ~Deleting(w)' /\ \A fd : KernelAt(w, fd)' /\ LeavesDeletes(w, fd)'
  BY <1>1 DEF Deleting, KernelAt, LeavesDeletes
<1>5. \A fd : Stale(fd)' <=> Stale(fd)
  BY <1>1, EventFacts DEF Stale, dispatch
<1>6. at'[Main] = "hand" /\ ev'[Main] # NULL => ev'[Main].fd = ready'.fd
  BY <1>1, EventFacts DEF OnceInv, dispatch
<1>. QED
  BY <1>1, <1>3, <1>4, <1>5, <1>6, OnceQuiet DEF shared, history

(* A call of the kernel for a delete fails only if it has lost the         *)
(* descriptor.                                                             *)
LEMMA CtlFailsOnce ==
    ASSUME IInv, IInv', OnceInv, NEW t \in Threads, CtlFails(t)
    PROVE  OnceInv'
<1>1. /\ at[t] = "ctl" /\ Works(t, at[t]) /\ ev' = ev /\ call' = call
      /\ at'[t] = IF call[t] \in {"add", "del"} THEN "undo" ELSE "run"
      /\ \A u \in Threads : u # t => at'[u] = at[u] /\ op'[u] = op[u]
      /\ UNCHANGED <<shared, dispatch, history>>
  BY DEF CtlFails, Works, Goto, OnFailure, IInv, TypeOK
<1>2. /\ ev[t] \in Events /\ ev[t] \in Live /\ ev[t] # NULL
      /\ ev[t].fd \in Fds /\ ev[t].dir \in Dirs
      /\ slot[ev[t].fd][ev[t].dir] = ev[t]
  BY <1>1, CallerFacts
<1>3. ASSUME NEW e \in Events
      PROVE  /\ Unique(e) => Unique(e)'
             /\ OneTask(e) => OneTask(e)'
             /\ Busy(e)' => Busy(e)
             /\ HasTask(e)' => HasTask(e)
  <2>1. (Holds(t, e)' => Holds(t, e)) /\ (RunsTask(t, e)' => RunsTask(t, e))
    BY <1>1 DEF Holds, RunsTask
  <2>. QED
    BY <1>1, <2>1, NoNewUser DEF shared
<1>4. ASSUME NEW fd \in Fds, fd \notin undone' \union replaced',
             call[t] = "del", ev[t] \in LiveAt(fd)
      PROVE  Lost(fd)' /\ Lost(fd) /\ Deleting(t)
  <2>1. KernelAt(t, fd)
    BY <1>1, <1>4 DEF OnceInv, Once, history
  <2>2. "registered" \in flags[ev[t]] /\ op[t].cmd # "ADD"
    BY <1>1, <1>4, <2>1 DEF KernelAt, Activates
  <2>3. ev[t].fd = fd
    BY <1>4 DEF LiveAt
  <2>4. epoll[fd] = {}
    BY <2>2, <2>3 DEF CtlFails, CtlWorks
  <2>5. ev[t].dir \in Registered(fd)
    BY <1>2, <2>2, <2>3 DEF Registered, Has
  <2>6. Registered(fd)' = Registered(fd) /\ epoll' = epoll
    BY <1>1 DEF Registered, Has, shared
  <2>. QED
    BY <1>1, <1>2, <1>4, <2>2, <2>4, <2>5, <2>6 DEF Lost, Deleting, Has
<1>5. ASSUME NEW fd \in Fds, fd \notin undone' \union replaced'
      PROVE  /\ KernelAt(t, fd)' /\ LeavesDeletes(t, fd)'
             /\ Stale(fd)' <=> Stale(fd)
  <2>1. LiveAt(fd)' = LiveAt(fd)
    BY <1>1 DEF LiveAt, Live, shared
  <2>2. at'[t] # "ctl" /\ at'[t] # "free"
    BY <1>1
  <2>3. KernelAt(t, fd)'
    BY <1>1, <1>4, <1>5, <2>1, <2>2 DEF KernelAt
  <2>4. LeavesDeletes(t, fd)'
    BY <2>2 DEF LeavesDeletes
  <2>5. at'[t] \notin {"entry", "hand"}
    BY <1>1
  <2>. QED
    BY <1>1, <2>3, <2>4, <2>5, EventFacts DEF Stale, dispatch
<1>6. ASSUME NEW fd \in Fds, fd \notin undone' \union replaced',
             Deleting(t)', ev'[t] \in LiveAt(fd)
      PROVE  Deleting(t) /\ ev'[t] = ev[t]
  BY <1>1, <1>4, <1>6 DEF Deleting
<1>7. at'[Main] = "hand" /\ ev'[Main] # NULL => ev'[Main].fd = ready'.fd
  BY <1>1, EventFacts DEF OnceInv, dispatch
<1>8. flags' = flags
  BY <1>1 DEF shared
<1>. QED
  BY <1>1, <1>3, <1>5, <1>6, <1>7, <1>8, OnceQuiet DEF shared, history

LEMMA PrepareOnce ==
    ASSUME IInv, IInv', OnceInv, NEW t \in Threads, Prepare(t)
    PROVE  OnceInv'
<1>1. /\ at[t] = "prepare" /\ Works(t, at[t])
      /\ UNCHANGED <<shared, ev, call, seen, dispatch, undone, replaced, miscounted>>
      /\ \/ /\ Activates(t) = Has(ev[t], "registered")
            /\ at' = [at EXCEPT ![t] = OnSuccess(call[t])] /\ op' = op
         \/ /\ Activates(t) # Has(ev[t], "registered")
            /\ at' = [at EXCEPT ![t] = "ctl"]
            /\ op' = [op EXCEPT ![t] =
                         IF Activates(t) THEN ActiveOp(ev[t]) ELSE UnactiveOp(ev[t])]
  BY DEF Prepare, Works, Goto
<1>2. /\ call[t] \in {"add", "del", "pause", "resume"} /\ ev[t] # NULL
      /\ ev[t] \in Events /\ ev[t] \in Live /\ Holds(t, ev[t])
      /\ ev[t].fd \in Fds /\ ev[t].dir \in Dirs
  BY <1>1, CallerFacts DEF IInv, Control, Place, TypeOK
<1>3. \/ /\ at'[t] = OnSuccess(call[t])
         /\ at'[t] \in {"release", "free", "run"}
         /\ at'[t] = "free" => call[t] = "del" /\ "registered" \notin flags[ev[t]]
      \/ /\ at'[t] = "ctl"
         /\ Activates(t) => "registered" \notin flags[ev[t]] /\ op'[t] = ActiveOp(ev[t])
         /\ ~Activates(t) => "registered" \in flags[ev[t]] /\ op'[t] = UnactiveOp(ev[t])
  BY <1>1, <1>2 DEF IInv, TypeOK, OnSuccess, Activates, Has
<1>4. \A u \in Threads : u # t => at'[u] = at[u] /\ op'[u] = op[u]
  BY <1>1 DEF IInv, TypeOK
<1>5. ASSUME NEW e \in Events
      PROVE  /\ Unique(e) => Unique(e)'
             /\ OneTask(e) => OneTask(e)'
             /\ Busy(e)' => Busy(e)
             /\ HasTask(e)' => HasTask(e)
  <2>1. (Holds(t, e)' => Holds(t, e)) /\ (RunsTask(t, e)' => RunsTask(t, e))
    BY <1>1 DEF Holds, RunsTask
  <2>. QED
    BY <1>1, <1>4, <2>1, NoNewUser DEF shared
<1>6. Deleting(t)' => Deleting(t) /\ ev'[t] = ev[t]
  BY <1>1, <1>3 DEF Deleting, Has, shared
<1>7. ASSUME NEW fd \in Fds
      PROVE  LiveAt(fd)' = LiveAt(fd) /\ Registered(fd)' = Registered(fd)
             /\ epoll' = epoll
  BY <1>1 DEF LiveAt, Live, Registered, Has, shared
<1>8. ASSUME NEW fd \in Fds PROVE KernelAt(t, fd)'
  <2>. SUFFICES ASSUME ev[t] \in LiveAt(fd)
                PROVE  KernelAt(t, fd)'
    BY <1>1, <1>7 DEF KernelAt
  <2>1. ev[t].fd = fd /\ (Activates(t)' <=> Activates(t)) /\ ev' = ev /\ flags' = flags
    BY <1>1 DEF LiveAt, Activates, shared
  <2>2. CASE at'[t] # "ctl"
    BY <1>3, <2>1, <2>2 DEF KernelAt
  <2>3. CASE at'[t] = "ctl"
    <3>1. CASE Activates(t)
      <4>1. op'[t] = ActiveOp(ev[t]) /\ "registered" \notin flags[ev[t]]
        BY <1>3, <2>3, <3>1
      <4>2. op'[t].dirs # {} /\ (op'[t].cmd = "ADD" => Registered(fd) = {})
        BY <2>1, <4>1 DEF ActiveOp
      <4>. QED
        BY <1>7, <2>1, <2>3, <3>1, <4>1, <4>2 DEF KernelAt
    <3>2. CASE ~Activates(t)
      <4>1. op'[t] = UnactiveOp(ev[t]) /\ "registered" \in flags[ev[t]]
        BY <1>3, <2>3, <3>2
      <4>2. op'[t].cmd # "ADD"
        BY <4>1 DEF UnactiveOp
      <4>. QED
        BY <2>1, <2>3, <3>2, <4>1, <4>2 DEF KernelAt
    <3>. QED
      BY <3>1, <3>2
  <2>. QED
    BY <2>2, <2>3
<1>9. ASSUME NEW fd \in Fds, fd \notin undone' \union replaced', ~Lost(fd)
      PROVE  LeavesDeletes(t, fd)'
  <2>. SUFFICES ASSUME at'[t] = "ctl", ev[t] \in LiveAt(fd), op'[t].dirs = {},
                       NEW u \in Threads, ev[u] \in LiveAt(fd), Deleting(u), u # t
                PROVE  FALSE
    <3>1. \A u \in Threads : u # t => (Deleting(u)' => Deleting(u))
      BY <1>1, <1>4 DEF Deleting, Has, shared
    <3>. QED
      BY <1>1, <1>7, <3>1 DEF LeavesDeletes
  <2>1. Sound(fd) /\ KernelAt(u, fd)
    BY <1>1, <1>9 DEF OnceInv, Once
  <2>2. at[u] # "undo"
    BY <1>9, <2>1 DEF KernelAt, Deleting
  <2>3. "registered" \in flags[ev[u]] /\ at[u] \in {"prepare", "ctl"}
    BY <2>2 DEF Deleting, Has
  <2>4. ev[u].dir \in Registered(fd) /\ ev[u].fd = fd /\ ev[t].fd = fd
    <3>1. ev[u].fd = fd /\ ev[t].fd = fd
      BY DEF LiveAt
    <3>2. \A e \in LiveAt(fd) : "registered" \in flags[e] => e.dir \in Registered(fd)
      BY LiveFacts
    <3>. QED
      BY <2>3, <3>1, <3>2
  <2>5. ev[u] # ev[t]
    <3>1. Holds(u, ev[u])
      BY <2>3 DEF Holds
    <3>. QED
      BY <1>2, <2>1, <3>1 DEF Sound, InUse, Unique
  <2>6. ev[u].dir # ev[t].dir
    <3>1. ~Inserting(ev[u])
      BY <2>3, EventFacts DEF IInv, Tables, Inserting
    <3>2. slot[fd][ev[u].dir] = ev[u]
      BY <3>1, LiveFacts
    <3>3. slot[fd][ev[t].dir] = ev[t]
      BY <1>1, <2>4, CallerFacts
    <3>. QED
      BY <2>5, <3>2, <3>3
  <2>7. ev[u].dir = Other(ev[t].dir)
    BY <1>2, <2>4, <2>6, EventFacts DEF Registered
  <2>8. op'[t] = ActiveOp(ev[t]) \/ op'[t] = UnactiveOp(ev[t])
    BY <1>3
  <2>9. ActiveOp(ev[t]).dirs # {}
    BY DEF ActiveOp
  <2>10. UnactiveOp(ev[t]).dirs # {}
    BY <2>4, <2>7 DEF UnactiveOp
  <2>. QED
    BY <2>8, <2>9, <2>10
<1>10. \A fd : Stale(fd)' => Stale(fd)
  BY <1>1, <1>3, <1>4, EventFacts DEF Stale, dispatch
<1>11. at'[Main] = "hand" /\ ev'[Main] # NULL => ev'[Main].fd = ready'.fd
  BY <1>1, <1>3, <1>4, EventFacts DEF OnceInv, dispatch
<1>12. flags' = flags /\ at'[t] # "insert"
  BY <1>1, <1>3 DEF shared
<1>. QED
  BY <1>1, <1>4, <1>5, <1>6, <1>8, <1>9, <1>10, <1>11, <1>12, OnceQuiet DEF shared

(* del_event begins only where nobody works on the events of the           *)
(* descriptor, as far as they are in its slots.                            *)
LEMMA DelEventOnce ==
    ASSUME IInv, IInv', OnceInv, NEW t \in Threads, DelEvent(t)
    PROVE  OnceInv'
<1>0. at[t] = "delete" /\ Works(t, at[t])
  BY DEF DelEvent, Works
<1>p. PICK o \in Events : o = ev[t]
  BY <1>0, CallerFacts
<1>1. /\ at[t] = "delete" /\ o = ev[t] /\ ev' = ev /\ at'[t] = "prepare" /\ call'[t] = "del"
      /\ Works(t, at[t]) /\ MayActivate(o)
      /\ \A u \in Threads : u # t => at'[u] = at[u] /\ call'[u] = call[u]
      /\ UNCHANGED <<slot, made, freed, epoll, count, tasks, op, dispatch, history>>
  BY <1>0, <1>p DEF DelEvent, Works, Enter, Goto, IInv, TypeOK
<1>2. /\ o \in Events /\ Known(o) /\ o \in Live /\ o # NULL
      /\ o.fd \in Fds /\ o.dir \in Dirs /\ slot[o.fd][o.dir] = o
  BY <1>1, CallerFacts
<1>3. /\ \A e \in Events : flags[e] \ {"inserted"} \subseteq flags'[e]
      /\ \A e \in Events : "registered" \in flags'[e] <=> "registered" \in flags[e]
      /\ "active" \in flags'[o]
  <2>. DEFINE F == With(Pair(o), "active")
  <2>1. /\ F \in [Events -> SUBSET Flags]
        /\ \A e \in Events : F[e] =
              flags[e] \union (IF e \in Pair(o) THEN {"active"} ELSE {})
    BY FlagsSet DEF Flags, IInv
  <2>2. flags' = [F EXCEPT ![o] = F[o] \ {"inserted"}]
    BY <1>1 DEF DelEvent, EventQueueRemove
  <2>3. o \in Pair(o)
    BY <1>2, PairFacts DEF IInv
  <2>. HIDE DEF F
  <2>. QED
    BY <1>2, <2>1, <2>2, <2>3
<1>4. \A p \in Pair(o) : "active" \notin flags[p]
  <2>1. \A p \in Pair(o) : p # NULL
    BY <1>2, EventFacts, PairFacts DEF IInv, Live, TypeOK
  <2>. QED
    BY <1>1, <2>1 DEF MayActivate, Has
<1>5. o \in Pair(o) /\ \A e \in LiveAt(o.fd) : Known(e) => e \in Pair(o)
  <2>1. o \in Pair(o)
    BY <1>2, PairFacts DEF IInv
  <2>2. ASSUME NEW e \in LiveAt(o.fd), Known(e), e # o PROVE e \in Pair(o)
    <3>1. slot[o.fd][e.dir] = e /\ e.dir \in Dirs /\ e # NULL
      <4>1. ~Inserting(e) /\ e.dir \in Dirs /\ e # NULL
        BY <1>2, <2>2, EventFacts, LiveEvents DEF Known
      <4>2. slot[o.fd][e.dir] = e
        BY <1>2, <4>1, LiveFacts
      <4>. QED
        BY <4>1, <4>2
    <3>2. e.dir # o.dir
      BY <1>2, <2>2, <3>1
    <3>3. \A d \in Dirs : slot[o.fd][d] # NULL
      BY <1>2, <3>1, <3>2, EventFacts
    <3>. QED
      BY <3>1, <3>3 DEF Pair, SlotsOf
  <2>. QED
    BY <2>1, <2>2
<1>6. ASSUME NEW e \in Events, e # o
      PROVE  /\ Unique(e) => Unique(e)'
             /\ OneTask(e) => OneTask(e)'
             /\ Busy(e)' => Busy(e)
             /\ HasTask(e)' => HasTask(e)
  <2>1. ~Holds(t, e)' /\ ~RunsTask(t, e)'
    BY <1>1, <1>6 DEF Holds, RunsTask
  <2>. QED
    BY <1>1, <2>1, NoNewUser
<1>7. /\ OneTask(o) => OneTask(o)'
      /\ HasTask(o)' => HasTask(o)
      /\ ~Busy(o) /\ Unique(o) => Unique(o)'
  <2>1. \A w \in Workers : RunsTask(w, o)' => RunsTask(w, o)
    BY <1>1, EventFacts DEF RunsTask
  <2>2. (Queued(o)' <=> Queued(o)) /\ (QueuedOnce(o)' <=> QueuedOnce(o))
    BY <1>1 DEF Queued, QueuedOnce
  <2>3. \A u \in Threads : u # t => (Holds(u, o)' => Holds(u, o))
    BY <1>1 DEF Holds
  <2>. QED
    BY <2>1, <2>2, <2>3 DEF OneTask, HasTask, Unique, Busy
<1>8. ~Inserting(o)
  BY <1>2 DEF Known
<1>9. \A fd : Stale(fd)' <=> Stale(fd)
  <2>1. Main # t => at'[Main] = at[Main]
    BY <1>1, EventFacts
  <2>. QED
    BY <1>1, <2>1 DEF Stale, dispatch
<1>10. at'[Main] = "hand" /\ ev'[Main] # NULL => ev'[Main].fd = ready'.fd
  BY <1>1, EventFacts DEF OnceInv, dispatch
<1>11. ASSUME NEW fd \in Fds, fd \notin undone' \union replaced', NEW e \in LiveAt(fd)
       PROVE  EventStep(fd, e)
  <2>1. Once(fd) /\ e \in Events
    BY <1>1, <1>11, LiveEvents DEF OnceInv, history
  <2>2. OneTask(e)'
    BY <1>6, <1>7, <2>1 DEF Once
  <2>3. ~Lost(fd) => InUse(e)
    BY <2>1 DEF Once, Sound
  <2>4. e = o => "active" \notin flags[e]
    BY <1>4, <1>5
  <2>5. CASE e # o
    BY <1>3, <1>6, <2>1, <2>2, <2>3, <2>5 DEF EventStep, InUse
  <2>6. CASE e = o
    <3>1. ~Lost(fd) => Unique(e) /\ ~Busy(e)
      BY <1>8, <2>3, <2>4, <2>6 DEF InUse
    <3>2. Lost(fd) /\ Stale(fd)' => ~HasTask(e)'
      BY <1>7, <1>9, <2>1, <2>4, <2>6 DEF Once, Ending, LastTask
    <3>. QED
      BY <1>3, <1>7, <2>2, <2>4, <2>6, <3>1, <3>2 DEF EventStep
  <2>. QED
    BY <2>5, <2>6
<1>12. ASSUME NEW fd \in Fds, fd \notin undone' \union replaced'
       PROVE  ThreadStep(t, fd)
  <2>1. Once(fd)
    BY <1>1, <1>12 DEF OnceInv, history
  <2>2. KernelAt(t, fd)' /\ LeavesDeletes(t, fd)'
    BY <1>1 DEF KernelAt, LeavesDeletes
  <2>3. ASSUME o \in LiveAt(fd), ~Lost(fd),
               NEW u \in Threads, u # t, at[u] = "ctl", ev[u] \in LiveAt(fd)
        PROVE  FALSE
    <3>1. Holds(u, ev[u]) /\ ~Inserting(ev[u])
      <4>1. Known(ev[u])
        BY <2>3 DEF IInv, Control, Place
      <4>. QED
        BY <2>3, <4>1 DEF Holds, Known
    <3>2. InUse(ev[u])
      BY <2>1, <2>3 DEF Once, Sound
    <3>3. "active" \in flags[ev[u]]
      BY <3>1, <3>2 DEF InUse, Busy
    <3>4. ev[u] \in Pair(o)
      BY <1>5, <2>3, <3>1 DEF LiveAt, Live, Known
    <3>. QED
      BY <1>4, <3>3, <3>4
  <2>4. ASSUME o \in LiveAt(fd), Lost(fd), Stale(fd)', NEW e \in LiveAt(fd)
        PROVE  ~HasTask(e)'
    <3>1. e \in Events
      BY LiveEvents
    <3>2. CASE Known(e)
      <4>1. "active" \notin flags[e]
        BY <1>4, <1>5, <2>4, <3>2 DEF LiveAt
      <4>2. ~HasTask(e)
        BY <1>9, <2>1, <2>4, <4>1 DEF Once, Ending, LastTask
      <4>. QED
        BY <1>6, <1>7, <3>1, <4>2
    <3>3. CASE ~Known(e)
      <4>1. ~HasTask(e)
        BY <3>1, <3>3, UserFacts
      <4>. QED
        BY <1>6, <1>7, <3>1, <4>1
    <3>. QED
      BY <3>2, <3>3
  <2>. QED
    BY <1>1, <1>9, <2>2, <2>3, <2>4 DEF ThreadStep
<1>. QED
  BY <1>1, <1>3, <1>10, <1>11, <1>12, OnceStep DEF history

-----------------------------------------------------------------------------
(* What an append and a take do to an event's places in the queues.        *)
LEMMA Appended ==
    ASSUME TypeOK, NEW w \in Workers, NEW o \in Events, NEW e \in Events,
           tasks' = [tasks EXCEPT ![w] = Append(tasks[w], o)]
    PROVE  /\ e # o => (Queued(e)' => Queued(e)) /\ (QueuedOnce(e) => QueuedOnce(e)')
           /\ e = o /\ ~Queued(e) => QueuedOnce(e)'
<1>1. tasks[w] \in Seq(Events) /\ Len(tasks[w]) \in Nat
  BY DEF TypeOK
<1>2. /\ \A v \in Workers : v # w => tasks'[v] = tasks[v]
      /\ Len(tasks'[w]) = Len(tasks[w]) + 1
      /\ \A i \in 1..Len(tasks[w]) : tasks'[w][i] = tasks[w][i]
      /\ tasks'[w][Len(tasks[w]) + 1] = o
  <2>1. /\ Len(Append(tasks[w], o)) = Len(tasks[w]) + 1
        /\ \A i \in 1..Len(tasks[w]) : Append(tasks[w], o)[i] = tasks[w][i]
        /\ Append(tasks[w], o)[Len(tasks[w]) + 1] = o
    BY <1>1
  <2>2. tasks'[w] = Append(tasks[w], o) /\ \A v \in Workers : v # w => tasks'[v] = tasks[v]
    BY DEF TypeOK
  <2>. QED
    BY <2>1, <2>2
<1>3. ASSUME NEW v \in Workers, NEW i \in 1..Len(tasks'[v]), tasks'[v][i] = e
      PROVE  \/ i \in 1..Len(tasks[v]) /\ tasks[v][i] = e
             \/ v = w /\ i = Len(tasks[w]) + 1 /\ e = o
  <2>1. CASE v = w
    BY <1>1, <1>2, <1>3, <2>1
  <2>2. CASE v # w
    BY <1>2, <1>3, <2>2
  <2>. QED
    BY <2>1, <2>2
<1>4. CASE e # o
  BY <1>3, <1>4 DEF Queued, QueuedOnce
<1>5. CASE e = o
  BY <1>3, <1>5 DEF Queued, QueuedOnce
<1>. QED
  BY <1>4, <1>5

LEMMA Taken ==
    ASSUME TypeOK, NEW w \in Workers, tasks[w] # <<>>, NEW e \in Events,
           tasks' = [tasks EXCEPT ![w] = Tail(tasks[w])]
    PROVE  /\ Queued(e)' => Queued(e)
           /\ QueuedOnce(e) => QueuedOnce(e)'
           /\ tasks[w][1] = e => Queued(e) /\ (QueuedOnce(e) => ~Queued(e)')
<1>1. /\ tasks[w] \in Seq(Events) /\ Len(tasks[w]) \in Nat /\ Len(tasks[w]) > 0
      /\ Len(Tail(tasks[w])) = Len(tasks[w]) - 1
      /\ \A i \in 1..Len(Tail(tasks[w])) : Tail(tasks[w])[i] = tasks[w][i + 1]
  <2>1. tasks[w] \in Seq(Events)
    BY DEF TypeOK
  <2>. QED
    BY <2>1, HeadTailProperties
<1>2. tasks'[w] = Tail(tasks[w]) /\ \A v \in Workers : v # w => tasks'[v] = tasks[v]
  BY DEF TypeOK
<1>. DEFINE Old(v, i) == IF v = w THEN i + 1 ELSE i
<1>3. ASSUME NEW v \in Workers, NEW i \in 1..Len(tasks'[v])
      PROVE  /\ Old(v, i) \in 1..Len(tasks[v]) /\ tasks'[v][i] = tasks[v][Old(v, i)]
             /\ v = w => Old(v, i) # 1
  <2>1. CASE v = w
    <3>1. i \in 1..(Len(tasks[w]) - 1) /\ tasks'[v][i] = tasks[w][i + 1]
      BY <1>1, <1>2, <1>3, <2>1
    <3>2. i + 1 \in 1..Len(tasks[w]) /\ i + 1 # 1
      BY <1>1, <3>1
    <3>. QED
      BY <2>1, <3>1, <3>2
  <2>2. CASE v # w
    BY <1>2, <1>3, <2>2
  <2>. QED
    BY <2>1, <2>2
<1>4. \A v \in Workers : \A i, j \in 1..Len(tasks'[v]) : Old(v, i) = Old(v, j) => i = j
  OBVIOUS
<1>. HIDE DEF Old
<1>5. Queued(e)' => Queued(e)
  BY <1>3 DEF Queued
<1>6. ASSUME QueuedOnce(e), NEW u \in Workers, NEW v \in Workers,
             NEW i \in 1..Len(tasks'[u]), NEW j \in 1..Len(tasks'[v]),
             tasks'[u][i] = e, tasks'[v][j] = e
      PROVE  u = v /\ i = j
  <2>1. /\ Old(u, i) \in 1..Len(tasks[u]) /\ tasks[u][Old(u, i)] = e
        /\ Old(v, j) \in 1..Len(tasks[v]) /\ tasks[v][Old(v, j)] = e
    BY <1>3, <1>6
  <2>2. u = v /\ Old(u, i) = Old(v, j)
    BY <1>6, <2>1 DEF QueuedOnce
  <2>. QED
    BY <1>4, <2>2
<1>7. 1 \in 1..Len(tasks[w])
  BY <1>1
<1>8. tasks[w][1] = e => Queued(e)
  BY <1>7 DEF Queued
<1>9. ASSUME tasks[w][1] = e, QueuedOnce(e), Queued(e)' PROVE FALSE
  <2>1. PICK v \in Workers : \E i \in 1..Len(tasks'[v]) : tasks'[v][i] = e
    BY <1>9 DEF Queued
  <2>2. PICK i \in 1..Len(tasks'[v]) : tasks'[v][i] = e
    BY <2>1
  <2>3. Old(v, i) \in 1..Len(tasks[v]) /\ tasks[v][Old(v, i)] = e /\ (v = w => Old(v, i) # 1)
    BY <1>3, <2>2
  <2>4. v = w /\ Old(v, i) = 1
    BY <1>7, <1>9, <2>3 DEF QueuedOnce
  <2>. QED
    BY <2>3, <2>4
<1>10. QueuedOnce(e) => QueuedOnce(e)'
  BY <1>6 DEF QueuedOnce
<1>. QED
  BY <1>5, <1>8, <1>9, <1>10

LEMMA ExecuteOnce ==
    ASSUME IInv, IInv', OnceInv, NEW w \in Workers, Execute(w)
    PROVE  OnceInv'
<1>1. /\ at[w] = "idle" /\ call[w] = "none" /\ ev[w] = NULL /\ tasks[w] # <<>>
      /\ tasks[w] \in Seq(Events) /\ w \in Threads /\ w # Main
  BY EventFacts DEF Execute, IInv, Control, Place, TypeOK
<1>2. /\ tasks' = [tasks EXCEPT ![w] = Tail(tasks[w])]
      /\ at'[w] = "run" /\ ev'[w] = Head(tasks[w]) /\ call' = call
      /\ \A u \in Threads : u # w => at'[u] = at[u] /\ ev'[u] = ev[u]
      /\ UNCHANGED <<slot, flags, made, freed, epoll, count, op, seen, dispatch, history>>
  BY <1>1 DEF Execute, Goto, IInv, TypeOK
<1>3. Head(tasks[w]) = tasks[w][1] /\ Head(tasks[w]) \in Events
  BY <1>1, HeadTailProperties
<1>4. ASSUME NEW e \in Events
      PROVE  /\ Unique(e) => Unique(e)'
             /\ OneTask(e) => OneTask(e)'
             /\ Busy(e)' => Busy(e)
             /\ HasTask(e)' => HasTask(e)
  <2>1. /\ Queued(e)' => Queued(e)
        /\ QueuedOnce(e) => QueuedOnce(e)'
        /\ tasks[w][1] = e => Queued(e) /\ (QueuedOnce(e) => ~Queued(e)')
    BY <1>1, <1>2, Taken DEF IInv
  <2>2. \A u \in Threads : u # w => (Holds(u, e)' <=> Holds(u, e))
    BY <1>2 DEF Holds
  <2>3. \A v \in Workers : v # w => (RunsTask(v, e)' <=> RunsTask(v, e))
    BY <1>2, EventFacts DEF RunsTask
  <2>4. ~Holds(w, e) /\ ~RunsTask(w, e)
    BY <1>1, EventFacts DEF Holds, RunsTask
  <2>5. (Holds(w, e)' => tasks[w][1] = e) /\ (RunsTask(w, e)' => tasks[w][1] = e)
    BY <1>2, <1>3 DEF Holds, RunsTask
  <2>6. CASE tasks[w][1] = e
    BY <1>1, <2>1, <2>2, <2>3, <2>6 DEF Unique, OneTask, Busy, HasTask
  <2>7. CASE tasks[w][1] # e
    BY <1>1, <2>1, <2>2, <2>3, <2>5, <2>7 DEF Unique, OneTask, Busy, HasTask
  <2>. QED
    BY <2>6, <2>7
<1>5. ~Deleting(w)' /\ \A fd : KernelAt(w, fd)' /\ LeavesDeletes(w, fd)'
  BY <1>1, <1>2 DEF Deleting, KernelAt, LeavesDeletes
<1>6. \A fd : Stale(fd)' <=> Stale(fd)
  BY <1>1, <1>2, EventFacts DEF Stale, dispatch
<1>7. at'[Main] = "hand" /\ ev'[Main] # NULL => ev'[Main].fd = ready'.fd
  BY <1>1, <1>2, EventFacts DEF OnceInv, dispatch
<1>. QED
  BY <1>1, <1>2, <1>4, <1>5, <1>6, <1>7, OnceQuiet DEF history

(* A task is made only for an event that nobody works on; where the kernel *)
(* has lost the descriptor it is the last.                                 *)
LEMMA AddTaskOnce ==
    ASSUME IInv, IInv', OnceInv, NEW w \in Workers, AddTask(w)
    PROVE  OnceInv'
<1>p. PICK o \in Events : o = ev[Main]
  BY EventFacts DEF AddTask, IInv, TypeOK
<1>1. /\ at[Main] = "hand" /\ o = ev[Main] /\ "active" \notin flags[o] /\ o # NULL
      /\ tasks' = [tasks EXCEPT ![w] = Append(tasks[w], o)]
      /\ Return(Main) /\ Main \in Threads /\ Main \notin Workers
      /\ UNCHANGED <<slot, made, freed, epoll, count, op, seen, history>>
      /\ flags' = With({o}, "active")
  BY <1>p, EventFacts DEF AddTask, PushTask, Works, Has
<1>2. /\ call'[Main] = "none" /\ at'[Main] \in {"idle", "delete"}
      /\ at'[Main] = "idle" => ev'[Main] = NULL
      /\ \A u \in Threads : u # Main => at'[u] = at[u] /\ ev'[u] = ev[u] /\ call'[u] = call[u]
  BY <1>1, ReturnFacts DEF IInv
<1>3. /\ \A e \in Events : "registered" \in flags'[e] <=> "registered" \in flags[e]
      /\ \A e \in Events : flags[e] \subseteq flags'[e]
      /\ "active" \in flags'[o]
  BY <1>1, FlagsSet DEF Flags, IInv
<1>4. Known(o) /\ o.fd = ready.fd /\ ~Inserting(o)
  BY <1>1, EventFacts DEF OnceInv, IInv, Control, Place, Known
<1>5. \A fd : ~Stale(fd)'
  BY <1>2 DEF Stale
<1>6. ASSUME NEW e \in Events
      PROVE  /\ e # o => /\ Unique(e) => Unique(e)'
                         /\ OneTask(e) => OneTask(e)'
                         /\ Busy(e)' => Busy(e)
             /\ e = o => /\ ~Busy(e) => Unique(e)'
                         /\ OneTask(e) /\ ~HasTask(e) => OneTask(e)'
  <2>1. /\ e # o => (Queued(e)' => Queued(e)) /\ (QueuedOnce(e) => QueuedOnce(e)')
        /\ e = o /\ ~Queued(e) => QueuedOnce(e)'
    BY <1>1, Appended DEF IInv
  <2>2. ~Holds(Main, e)'
    BY <1>2, EventFacts DEF Holds
  <2>3. \A u \in Threads : Holds(u, e)' => Holds(u, e)
    BY <1>2, <2>2 DEF Holds
  <2>4. \A v \in Workers : RunsTask(v, e)' => RunsTask(v, e)
    BY <1>1, <1>2, EventFacts DEF RunsTask
  <2>5. CASE e # o
    BY <2>1, <2>3, <2>4, <2>5 DEF Unique, OneTask, Busy
  <2>6. CASE e = o
    <3>1. ~Busy(e) => Unique(e)'
      BY <2>1, <2>3, <2>6 DEF Unique, Busy
    <3>2. ~HasTask(e) => OneTask(e)'
      BY <2>1, <2>4, <2>6 DEF OneTask, HasTask
    <3>. QED
      BY <2>6, <3>1, <3>2
  <2>. QED
    BY <2>5, <2>6
<1>7. ASSUME NEW fd \in Fds, fd \notin undone' \union replaced', NEW e \in LiveAt(fd)
      PROVE  EventStep(fd, e)
  <2>1. Once(fd) /\ e \in Events /\ e.fd = fd
    BY <1>1, <1>7, LiveEvents DEF OnceInv, history, LiveAt
  <2>2. OneTask(e) /\ (~Lost(fd) => InUse(e))
    BY <2>1 DEF Once, Sound
  <2>3. CASE e # o
    <3>1. OneTask(e)' /\ (~Lost(fd) => Unique(e)' /\ (Busy(e)' => Busy(e)))
      BY <1>6, <2>1, <2>2, <2>3 DEF InUse
    <3>2. flags[e] \subseteq flags'[e]
      BY <1>3, <2>1
    <3>. QED
      BY <1>5, <3>1, <3>2 DEF EventStep
  <2>4. CASE e = o
    <3>1. ~Lost(fd) => ~Busy(e)
      BY <1>1, <1>4, <2>2, <2>4 DEF InUse
    <3>2. Lost(fd) => ~HasTask(e)
      <4>1. Stale(fd)
        BY <1>1, <1>4, <2>1, <2>4 DEF Stale
      <4>. QED
        BY <1>1, <2>1, <2>4, <4>1 DEF Once, Ending, LastTask
    <3>3. ~Lost(fd) => Unique(e)' /\ ~HasTask(e)
      BY <1>6, <2>1, <2>4, <3>1, UserFacts
    <3>4. OneTask(e)'
      BY <1>6, <2>1, <2>2, <2>4, <3>2, <3>3
    <3>. QED
      BY <1>1, <1>3, <1>5, <2>4, <3>3, <3>4 DEF EventStep
  <2>. QED
    BY <2>3, <2>4
<1>8. ~Deleting(Main)' /\ \A fd : KernelAt(Main, fd)' /\ LeavesDeletes(Main, fd)'
  BY <1>2 DEF Deleting, KernelAt, LeavesDeletes
<1>9. \A fd : ThreadStep(Main, fd)
  BY <1>5, <1>8 DEF ThreadStep
<1>. QED
  BY <1>1, <1>2, <1>3, <1>7, <1>9, OnceStep DEF history

LEMMA CrashOnce ==
    ASSUME OnceInv, NEW t \in Threads, Crash(t)
    PROVE  OnceInv'
<1>. QED
  BY StutterOnce DEF Crash, shared, local, dispatch, Live

-----------------------------------------------------------------------------
(* A step of a thread that goes on with its event, at the same call: who   *)
(* works on what stays as it is.                                           *)
LEMMA GoesOn ==
    ASSUME NEW t \in Threads, ev' = ev, call' = call, tasks' = tasks,
           at[t] \notin {"delete", "hand"}, at'[t] \notin {"delete", "hand"},
           \A u \in Threads : u # t => at'[u] = at[u], NEW e \in Events
    PROVE  /\ Unique(e)' <=> Unique(e)
           /\ OneTask(e)' <=> OneTask(e)
           /\ Busy(e)' <=> Busy(e)
           /\ HasTask(e)' <=> HasTask(e)
<1>1. \A u \in Threads : Holds(u, e)' <=> Holds(u, e)
  BY DEF Holds
<1>2. \A w \in Workers : RunsTask(w, e)' <=> RunsTask(w, e)
  BY EventFacts DEF RunsTask
<1>3. (Queued(e)' <=> Queued(e)) /\ (QueuedOnce(e)' <=> QueuedOnce(e))
  BY DEF Queued, QueuedOnce
<1>. QED
  BY <1>1, <1>2, <1>3 DEF Unique, OneTask, Busy, HasTask

(* The kernel does what a thread asks for only if it has not lost the      *)
(* descriptor; it loses it with a DEL beside a registered event, and then  *)
(* no delete is under way.                                                 *)
LEMMA CtlOnce ==
    ASSUME IInv, IInv', OnceInv, NEW t \in Threads, Ctl(t)
    PROVE  OnceInv'
<1>0. at[t] = "ctl" /\ Works(t, at[t])
  BY DEF Ctl, Works
<1>p. PICK o \in Events : o = ev[t]
  BY <1>0, CallerFacts
<1>1. /\ at[t] = "ctl" /\ o = ev[t] /\ ev' = ev /\ call' = call
      /\ at'[t] \in {"release", "free", "run"}
      /\ at'[t] = "free" => call[t] = "del"
      /\ \A u \in Threads : u # t => at'[u] = at[u] /\ op'[u] = op[u]
      /\ UNCHANGED <<slot, made, freed, count, tasks, seen, dispatch, history>>
      /\ epoll'[o.fd] = op[t].dirs /\ \A fd \in Fds : fd # o.fd => epoll'[fd] = epoll[fd]
      /\ CtlWorks(o.fd, op[t])
  <2>1. o.fd \in Fds
    BY EventFacts
  <2>2. at' = [at EXCEPT ![t] = OnSuccess(call[t])] /\ OnSuccess(call[t]) \in {"release", "free", "run"}
        /\ (OnSuccess(call[t]) = "free" => call[t] = "del")
    BY <1>0, <1>p DEF Ctl, Goto, OnSuccess, IInv, TypeOK
  <2>. QED
    BY <1>0, <1>p, <2>1, <2>2 DEF Ctl, IInv, TypeOK
<1>2. /\ Known(o) /\ o \in Live /\ o # NULL /\ o.fd \in Fds /\ o.dir \in Dirs
      /\ slot[o.fd][o.dir] = o /\ Holds(t, o) /\ o \in LiveAt(o.fd)
  BY <1>0, <1>p, CallerFacts DEF LiveAt
<1>3. /\ \A e \in Events : e # o => flags'[e] = flags[e]
      /\ \A e \in Events : "active" \in flags'[e] <=> "active" \in flags[e]
      /\ "registered" \in flags'[o] <=> Activates(t)
  <2>1. CASE Activates(t)
    <3>1. flags' = With({o}, "registered")
      BY <1>p, <2>1 DEF Ctl
    <3>2. \A e \in Events : flags'[e] =
             flags[e] \union (IF e \in {o} THEN {"registered"} ELSE {})
      BY <3>1, FlagsSet DEF Flags, IInv
    <3>3. "registered" \in flags'[o]
      BY <3>2
    <3>4. \A e \in Events : "active" \in flags'[e] <=> "active" \in flags[e]
      BY <3>2
    <3>. QED
      BY <2>1, <3>2, <3>3, <3>4
  <2>2. CASE ~Activates(t)
    <3>1. flags' = Without({o}, "registered")
      BY <1>p, <2>2 DEF Ctl
    <3>2. \A e \in Events : flags'[e] =
             flags[e] \ (IF e \in {o} THEN {"registered"} ELSE {})
      BY <3>1, FlagsCleared DEF Flags, IInv
    <3>. QED
      BY <2>2, <3>2
  <2>. QED
    BY <2>1, <2>2
<1>4. ASSUME NEW e \in Events
      PROVE  /\ Unique(e)' <=> Unique(e)
             /\ OneTask(e)' <=> OneTask(e)
             /\ Busy(e)' <=> Busy(e)
             /\ HasTask(e)' <=> HasTask(e)
  BY <1>1, GoesOn
<1>5. \A e : Inserting(e)' <=> Inserting(e)
  BY <1>1, EventFacts DEF Inserting
<1>6. /\ \A fd \in Fds : LiveAt(fd)' = LiveAt(fd) /\ LiveAt(fd) \subseteq Events
                         /\ NULL \notin LiveAt(fd)
      /\ \A fd : Stale(fd)' <=> Stale(fd)
  <2>1. \A fd : LiveAt(fd)' = LiveAt(fd)
    BY <1>1 DEF LiveAt, Live
  <2>2. \A fd : Stale(fd)' <=> Stale(fd)
    BY <1>1, EventFacts DEF Stale, dispatch
  <2>. QED
    BY <2>1, <2>2, LiveEvents
<1>7. ASSUME NEW e \in Events
      PROVE  (InUse(e)' <=> InUse(e)) /\ (LastTask(e)' <=> LastTask(e))
  BY <1>3, <1>4, <1>5 DEF InUse, LastTask
<1>8. ASSUME NEW fd \in Fds, InsertsActive(fd) PROVE InsertsActive(fd)'
  <2>. SUFFICES ASSUME at'[Acceptor] = "insert", ev'[Acceptor].fd = fd
                PROVE  LET old == slot[fd][ev[Acceptor].dir]
                       IN  \/ "active" \in flags'[ev[Acceptor]]
                           \/ old # NULL /\ "active" \in flags'[old] /\ ~Busy(old)'
    BY <1>1 DEF InsertsActive
  <2>1. at[Acceptor] = "insert" /\ ev[Acceptor].fd = fd /\ ev[Acceptor] \in Events
    BY <1>1, EventFacts DEF IInv, Tables, Live, TypeOK
  <2>2. slot[fd][ev[Acceptor].dir] \in Events \union {NULL}
    BY <2>1, EventFacts DEF IInv, TypeOK
  <2>3. CASE "active" \in flags[ev[Acceptor]]
    BY <1>3, <2>1, <2>3
  <2>4. CASE "active" \notin flags[ev[Acceptor]]
    <3>. DEFINE old == slot[fd][ev[Acceptor].dir]
    <3>1. old # NULL /\ "active" \in flags[old] /\ ~Busy(old)
      BY <1>8, <2>1, <2>4 DEF InsertsActive
    <3>2. old \in Events /\ "active" \in flags'[old]
      BY <1>3, <2>2, <3>1
    <3>3. PICK y \in Events : y = old
      BY <3>2
    <3>4. ~Busy(y)'
      BY <1>4, <3>1, <3>3
    <3>5. slot'[fd][ev'[Acceptor].dir] = y
      BY <1>1, <3>3
    <3>6. ~Busy(slot[fd][ev[Acceptor].dir])'
      BY <3>4, <3>5 DEF Busy, Queued, Holds
    <3>. QED
      BY <3>1, <3>2, <3>6
  <2>. QED
    BY <2>3, <2>4
<1>9. ~Deleting(t)'
  BY <1>1 DEF Deleting
<1>10. \A u \in Threads : Deleting(u)' /\ ev[u] \in Events /\ ev[u] # o => Deleting(u)
  BY <1>1, <1>3, <1>9 DEF Deleting, Has
<1>. SUFFICES ASSUME NEW fd \in Fds, fd \notin undone \union replaced
              PROVE  Once(fd)'
  <2>1. at'[Main] = "hand" /\ ev'[Main] # NULL => ev'[Main].fd = ready'.fd
    BY <1>1, EventFacts DEF OnceInv, dispatch
  <2>. QED
    BY <1>1, <2>1 DEF OnceInv, history
<1>11. Once(fd) /\ \A e \in LiveAt(fd) : OneTask(e)'
  <2>1. Once(fd)
    BY DEF OnceInv
  <2>. QED
    BY <1>4, <1>6, <2>1 DEF Once
<1>12. CASE fd # o.fd
  <2>1. o \notin LiveAt(fd)
    BY <1>12 DEF LiveAt
  <2>2. Registered(fd)' = Registered(fd) /\ epoll'[fd] = epoll[fd]
    <3>1. \A d \in Dirs : slot[fd][d] # NULL => slot[fd][d] \in Events /\ slot[fd][d] # o
      BY <1>6, <2>1, LiveFacts
    <3>. QED
      BY <1>1, <1>3, <1>12, <3>1 DEF Registered, Has
  <2>3. Lost(fd)' <=> Lost(fd)
    BY <2>2 DEF Lost
  <2>4. ASSUME NEW u \in Threads PROVE KernelAt(u, fd)'
    <3>1. CASE u = t
      BY <1>1, <1>6, <2>1, <3>1 DEF KernelAt
    <3>2. CASE u # t
      <4>1. KernelAt(u, fd)
        BY <1>11 DEF Once
      <4>2. ev[u] \in LiveAt(fd) =>
               ("registered" \in flags'[ev[u]] <=> "registered" \in flags[ev[u]])
        BY <1>3, <1>6, <2>1
      <4>. QED
        BY <1>1, <1>6, <2>2, <3>2, <4>1, <4>2, KernelFrame
    <3>. QED
      BY <3>1, <3>2
  <2>5. \A u \in Threads : Deleting(u)' /\ ev[u] \in LiveAt(fd) => Deleting(u)
    BY <1>6, <1>10, <2>1
  <2>6. ASSUME ~Lost(fd) PROVE Sound(fd)'
    <3>1. Sound(fd)
      BY <1>11, <2>6 DEF Once
    <3>2. \A u \in Threads : LeavesDeletes(u, fd)'
      BY <1>1, <1>6, <2>5, <3>1 DEF Sound, LeavesDeletes
    <3>. QED
      BY <1>6, <1>7, <1>8, <3>1, <3>2 DEF Sound
  <2>7. ASSUME Lost(fd), Stale(fd) PROVE Ending(fd)'
    <3>1. Ending(fd)
      BY <1>11, <2>7 DEF Once
    <3>. QED
      BY <1>1, <1>4, <1>6, <1>7, <2>5, <3>1 DEF Ending
  <2>. QED
    BY <1>6, <1>11, <2>3, <2>4, <2>6, <2>7 DEF Once
<1>13. CASE fd = o.fd
  <2>1. KernelAt(t, fd) /\ o \in LiveAt(fd)
    BY <1>2, <1>11, <1>13 DEF Once
  <2>2. /\ ~Activates(t) => "registered" \in flags[o]
        /\ Activates(t) => op[t].dirs # {}
        /\ op[t].cmd = "ADD" => Activates(t) /\ (Registered(fd) # {} => epoll[fd] # {})
    BY <1>1, <2>1 DEF KernelAt
  <2>3. ~Lost(fd)
    BY <1>1, <1>13, <2>2 DEF Lost, CtlWorks
  <2>4. Sound(fd)
    BY <1>11, <2>3 DEF Once
  <2>5. Unique(o)
    BY <2>1, <2>4 DEF Sound, InUse
  <2>6. \A u \in Threads : u # t /\ at[u] \in {"prepare", "ctl", "free", "undo"} => ev[u] # o
    BY <1>2, <2>5 DEF Unique, Holds
  <2>7. \A u \in Threads : Deleting(u)' /\ ev[u] \in LiveAt(fd) => Deleting(u) /\ u # t
    <3>1. \A u \in Threads : Deleting(u)' => u # t /\ at[u] \in {"prepare", "ctl", "undo"}
      BY <1>1, <1>9 DEF Deleting
    <3>. QED
      BY <1>6, <1>10, <2>6, <3>1
  <2>8. Lost(fd)' => ~Activates(t) /\ op[t].dirs = {}
    BY <1>1, <1>13, <2>2 DEF Lost
  <2>9. ASSUME NEW u \in Threads, u # t PROVE KernelAt(u, fd)'
    <3>. SUFFICES ASSUME ev[u] \in LiveAt(fd) PROVE KernelAt(u, fd)'
      BY <1>1, <1>6 DEF KernelAt
    <3>1. KernelAt(u, fd) /\ (Activates(u)' <=> Activates(u))
      BY <1>1, <1>11 DEF Once, Activates
    <3>2. /\ at'[u] = at[u] /\ op'[u] = op[u] /\ ev'[u] = ev[u] /\ call'[u] = call[u]
          /\ ev[u] \in Events
      BY <1>1, <1>6, <2>9
    <3>3. ~(at[u] = "undo" /\ call[u] = "del")
      BY <2>3, <3>1 DEF KernelAt
    <3>4. CASE at[u] = "free"
      <4>1. flags'[ev[u]] = flags[ev[u]]
        BY <1>3, <2>6, <2>9, <3>2, <3>4
      <4>. QED
        BY <3>1, <3>2, <3>4, <4>1 DEF KernelAt
    <3>5. CASE at[u] = "ctl"
      <4>1. flags'[ev[u]] = flags[ev[u]] /\ ev[u] # o
        BY <1>3, <2>6, <2>9, <3>2, <3>5
      <4>2. ASSUME op[u].cmd = "ADD", Registered(fd)' # {} PROVE epoll'[fd] # {}
        <5>1. "registered" \notin flags[ev[u]]
          BY <3>1, <3>5, <4>2 DEF KernelAt
        <5>2. CASE Activates(t)
          BY <1>1, <1>13, <2>2, <5>2
        <5>3. CASE ~Activates(t)
          <6>1. ~Inserting(ev[u]) /\ ev[u].dir \in Dirs /\ ev[u] # NULL
            BY <3>2, <3>5, EventFacts DEF IInv, Control, Place, Known
          <6>2. slot[fd][ev[u].dir] = ev[u] /\ slot[fd][o.dir] = o
            BY <1>2, <1>13, <6>1, LiveFacts
          <6>3. ev[u].dir # o.dir /\ Dirs = {ev[u].dir, o.dir}
            BY <1>2, <4>1, <6>1, <6>2, EventFacts
          <6>4. \A d \in Dirs : ~Has(slot[fd][d], "registered")'
            BY <1>1, <1>3, <4>1, <5>1, <5>3, <6>2, <6>3 DEF Has
          <6>. QED
            BY <4>2, <6>4 DEF Registered
        <5>. QED
          BY <5>2, <5>3
      <4>. QED
        BY <3>1, <3>2, <3>5, <4>1, <4>2 DEF KernelAt
    <3>. QED
      BY <3>2, <3>3, <3>4, <3>5 DEF KernelAt
  <2>10. KernelAt(t, fd)'
    <3>1. at'[t] = "free" => ~Activates(t)
      BY <1>1 DEF Activates
    <3>. QED
      BY <1>1, <1>3, <3>1 DEF KernelAt
  <2>11. Sound(fd)'
    <3>1. \A u \in Threads : LeavesDeletes(u, fd)'
      BY <1>1, <1>6, <2>4, <2>7 DEF Sound, LeavesDeletes
    <3>. QED
      BY <1>6, <1>7, <1>8, <2>4, <3>1 DEF Sound
  <2>12. ASSUME Lost(fd)' PROVE Ending(fd)'
    <3>1. ASSUME NEW e \in LiveAt(fd) PROVE LastTask(e)
      <4>1. HasTask(e) => Busy(e) /\ ~Inserting(e)
        BY <1>6, <3>1, UserFacts DEF Known
      <4>. QED
        BY <2>4, <3>1, <4>1 DEF Sound, InUse, LastTask
    <3>2. LeavesDeletes(t, fd)
      BY <2>4 DEF Sound
    <3>3. \A u \in Threads : ev[u] \in LiveAt(fd) => ~Deleting(u)'
      BY <1>1, <2>1, <2>7, <2>8, <2>12, <3>2 DEF LeavesDeletes
    <3>. QED
      BY <1>1, <1>6, <1>7, <3>1, <3>3 DEF Ending
  <2>. QED
    BY <1>6, <1>11, <2>9, <2>10, <2>11, <2>12 DEF Once
<1>. QED
  BY <1>12, <1>13

(* Only an event that is not registered is taken out of its slot, and not  *)
(* one that add_event relies on.                                           *)
LEMMA FreeOnce ==
    ASSUME IInv, IInv', OnceInv, NEW t \in Threads, Free(t)
    PROVE  OnceInv'
<1>0. at[t] = "free" /\ Works(t, at[t])
  BY DEF Free, Works
<1>p. PICK o \in Events : o = ev[t]
  BY <1>0, CallerFacts
<1>1. /\ at[t] = "free" /\ o = ev[t] /\ ev' = ev /\ call' = call /\ at'[t] = "count"
      /\ \A u \in Threads : u # t => at'[u] = at[u]
      /\ freed' = freed \union {o}
      /\ slot'[o.fd][o.dir] = NULL
      /\ \A fd \in Fds, d \in Dirs :
            fd # o.fd \/ d # o.dir => slot'[fd][d] = slot[fd][d]
      /\ UNCHANGED <<flags, made, epoll, tasks, op, dispatch, history>>
  <2>1. o.fd \in Fds /\ o.dir \in Dirs
    BY EventFacts
  <2>. QED
    BY <1>0, <1>p, <2>1 DEF Free, Goto, IInv, TypeOK
<1>2. /\ Known(o) /\ o \in Live /\ o # NULL /\ o.fd \in Fds /\ o.dir \in Dirs
      /\ slot[o.fd][o.dir] = o /\ Holds(t, o) /\ o \in LiveAt(o.fd)
  BY <1>0, <1>p, CallerFacts DEF LiveAt
<1>3. ASSUME NEW e \in Events
      PROVE  /\ Unique(e)' <=> Unique(e)
             /\ OneTask(e)' <=> OneTask(e)
             /\ Busy(e)' <=> Busy(e)
             /\ HasTask(e)' <=> HasTask(e)
  BY <1>1, GoesOn
<1>4. \A e : Inserting(e)' <=> Inserting(e)
  BY <1>1, EventFacts DEF Inserting
<1>5. \A fd : /\ LiveAt(fd)' \subseteq LiveAt(fd) /\ LiveAt(fd) \subseteq Events
              /\ Stale(fd)' <=> Stale(fd)
  <2>1. \A fd : LiveAt(fd)' \subseteq LiveAt(fd)
    BY <1>1 DEF LiveAt, Live
  <2>2. \A fd : Stale(fd)' <=> Stale(fd)
    BY <1>1, EventFacts DEF Stale, dispatch
  <2>. QED
    BY <2>1, <2>2, LiveEvents
<1>6. ASSUME NEW e \in Events
      PROVE  (InUse(e)' <=> InUse(e)) /\ (LastTask(e)' <=> LastTask(e))
  BY <1>1, <1>3, <1>4 DEF InUse, LastTask
<1>7. \A u \in Threads : Deleting(u)' => Deleting(u)
  BY <1>1 DEF Deleting, Has
<1>. SUFFICES ASSUME NEW fd \in Fds, fd \notin undone \union replaced
              PROVE  Once(fd)'
  <2>1. at'[Main] = "hand" /\ ev'[Main] # NULL => ev'[Main].fd = ready'.fd
    BY <1>1, EventFacts DEF OnceInv, dispatch
  <2>. QED
    BY <1>1, <2>1 DEF OnceInv, history
<1>8. Once(fd)
  BY DEF OnceInv
<1>9. Registered(fd)' = Registered(fd) /\ (Lost(fd)' <=> Lost(fd))
  <2>1. fd = o.fd => "registered" \notin flags[o]
    BY <1>1, <1>2, <1>8 DEF Once, KernelAt
  <2>2. \A d \in Dirs : Has(slot[fd][d], "registered")' <=> Has(slot[fd][d], "registered")
    BY <1>1, <1>2, <2>1 DEF Has
  <2>3. Registered(fd)' = Registered(fd)
    BY <2>2 DEF Registered
  <2>. QED
    BY <1>1, <2>3 DEF Lost
<1>10. ASSUME NEW u \in Threads PROVE KernelAt(u, fd)'
  <2>1. CASE u = t
    BY <1>1, <2>1 DEF KernelAt
  <2>2. CASE u # t
    <3>1. KernelAt(u, fd)
      BY <1>8 DEF Once
    <3>. QED
      BY <1>1, <1>5, <1>9, <2>2, <3>1, KernelFrame
  <2>. QED
    BY <2>1, <2>2
<1>11. ASSUME ~Lost(fd) PROVE Sound(fd)'
  <2>1. Sound(fd)
    BY <1>8, <1>11 DEF Once
  <2>2. \A u \in Threads : LeavesDeletes(u, fd)'
    BY <1>1, <1>5, <1>7, <2>1 DEF Sound, LeavesDeletes
  <2>3. InsertsActive(fd)'
    <3>. SUFFICES ASSUME at'[Acceptor] = "insert", ev'[Acceptor].fd = fd
                  PROVE  InsertsActive(fd)'
      BY DEF InsertsActive
    <3>1. /\ at[Acceptor] = "insert" /\ ev[Acceptor].fd = fd
          /\ ev[Acceptor] \in Events /\ ev[Acceptor].dir \in Dirs
      BY <1>1, EventFacts DEF IInv, Tables, Live, TypeOK
    <3>2. CASE "active" \in flags[ev[Acceptor]]
      BY <1>1, <3>2 DEF InsertsActive
    <3>3. CASE "active" \notin flags[ev[Acceptor]]
      <4>. DEFINE old == slot[fd][ev[Acceptor].dir]
      <4>1. old # NULL /\ "active" \in flags[old] /\ ~Busy(old)
        BY <2>1, <3>1, <3>3 DEF Sound, InsertsActive
      <4>2. old \in Events
        BY <3>1, <4>1 DEF IInv, TypeOK
      <4>3. PICK y \in Events : y = old
        BY <4>2
      <4>4. y # o
        BY <1>2, <4>1, <4>3 DEF Busy
      <4>5. slot'[fd][ev'[Acceptor].dir] = y
        BY <1>1, <1>2, <3>1, <4>3, <4>4
      <4>6. ~Busy(y)' /\ "active" \in flags'[y]
        BY <1>1, <1>3, <4>1, <4>3
      <4>7. ~Busy(slot[fd][ev[Acceptor].dir])'
        BY <4>5, <4>6 DEF Busy, Queued, Holds
      <4>. QED
        BY <4>1, <4>3, <4>5, <4>6, <4>7 DEF InsertsActive
    <3>. QED
      BY <3>2, <3>3
  <2>. QED
    BY <1>5, <1>6, <2>1, <2>2, <2>3 DEF Sound
<1>12. ASSUME Lost(fd), Stale(fd) PROVE Ending(fd)'
  <2>1. Ending(fd)
    BY <1>8, <1>12 DEF Once
  <2>. QED
    BY <1>1, <1>3, <1>5, <1>6, <1>7, <2>1 DEF Ending
<1>13. \A e \in LiveAt(fd) : OneTask(e)'
  BY <1>3, <1>5, <1>8 DEF Once
<1>. QED
  BY <1>5, <1>9, <1>10, <1>11, <1>12, <1>13 DEF Once

(* An event that replaces none is active when it comes into its slot.      *)
LEMMA InsertOnce ==
    ASSUME IInv, IInv', OnceInv, NEW t \in Threads, Insert(t)
    PROVE  OnceInv'
<1>0. at[t] = "insert" /\ t = Acceptor /\ call[t] = "add" /\ ev[t] \in Live
  BY DEF Insert, Works, IInv, Control, Place, Tables
<1>p. PICK o \in Events : o = ev[t]
  BY <1>0 DEF Live, IInv, TypeOK
<1>. DEFINE old == slot[o.fd][o.dir]
<1>1. /\ at[t] = "insert" /\ o = ev[t] /\ o \in Live /\ ev' = ev /\ call' = call
      /\ at'[t] = "load" /\ t = Acceptor /\ call[t] = "add"
      /\ \A u \in Threads : u # t => at'[u] = at[u]
      /\ freed' = freed \union ({old} \ {NULL})
      /\ replaced' = replaced \union (IF old = NULL THEN {} ELSE {o.fd})
      /\ slot'[o.fd][o.dir] = o
      /\ \A fd \in Fds, d \in Dirs :
            fd # o.fd \/ d # o.dir => slot'[fd][d] = slot[fd][d]
      /\ \A e \in Events : /\ "registered" \in flags'[e] <=> "registered" \in flags[e]
                           /\ "active" \in flags'[e] <=> "active" \in flags[e]
      /\ UNCHANGED <<made, epoll, tasks, op, dispatch, undone>>
  <2>1. o.fd \in Fds /\ o.dir \in Dirs
    BY EventFacts
  <2>2. flags' = [flags EXCEPT ![o] = flags[o] \union {"inserted"}]
    BY <1>p DEF Insert, EventQueueInsert
  <2>3. \A e \in Events : /\ "registered" \in flags'[e] <=> "registered" \in flags[e]
                          /\ "active" \in flags'[e] <=> "active" \in flags[e]
    BY <2>2 DEF IInv, TypeOK
  <2>. QED
    BY <1>0, <1>p, <2>1, <2>3 DEF Insert, Goto, IInv, TypeOK
<1>2. o.fd \in Fds /\ o.dir \in Dirs /\ "registered" \notin flags[o]
  BY <1>1, EventFacts DEF IInv, Tables
<1>3. ASSUME NEW e \in Events
      PROVE  /\ Unique(e)' <=> Unique(e)
             /\ OneTask(e)' <=> OneTask(e)
             /\ Busy(e)' <=> Busy(e)
             /\ HasTask(e)' <=> HasTask(e)
  BY <1>1, GoesOn
<1>4. \A e : (Inserting(e) => e = o) /\ ~Inserting(e)'
  BY <1>1 DEF Inserting
<1>5. \A fd : Stale(fd)' <=> Stale(fd)
  BY <1>1, EventFacts DEF Stale, dispatch
<1>. SUFFICES ASSUME NEW fd \in Fds, fd \notin undone \union replaced'
              PROVE  Once(fd)'
  <2>1. at'[Main] = "hand" /\ ev'[Main] # NULL => ev'[Main].fd = ready'.fd
    BY <1>1, EventFacts DEF OnceInv, dispatch
  <2>. QED
    BY <1>1, <2>1 DEF OnceInv
<1>6. Once(fd) /\ (fd = o.fd => old = NULL)
  BY <1>1 DEF OnceInv
<1>7. LiveAt(fd)' = LiveAt(fd) /\ LiveAt(fd) \subseteq Events
  <2>1. old # NULL => old.fd = o.fd
    BY <1>2 DEF IInv, Tables
  <2>2. LiveAt(fd)' = LiveAt(fd)
    BY <1>1, <1>6, <2>1 DEF LiveAt, Live
  <2>. QED
    BY <2>2, LiveEvents
<1>8. Registered(fd)' = Registered(fd) /\ (Lost(fd)' <=> Lost(fd))
  <2>1. ASSUME NEW d \in Dirs
        PROVE  Has(slot[fd][d], "registered")' <=> Has(slot[fd][d], "registered")
    <3>1. CASE fd = o.fd /\ d = o.dir
      BY <1>1, <1>2, <1>6, <3>1 DEF Has
    <3>2. CASE ~(fd = o.fd /\ d = o.dir)
      <4>1. slot[fd][d] \in Events \union {NULL} /\ slot'[fd][d] = slot[fd][d]
        BY <1>1, <3>2 DEF IInv, TypeOK
      <4>. QED
        BY <1>1, <4>1 DEF Has
    <3>. QED
      BY <3>1, <3>2
  <2>2. Registered(fd)' = Registered(fd)
    BY <2>1 DEF Registered
  <2>. QED
    BY <1>1, <2>2 DEF Lost
<1>9. \A u \in Threads : Deleting(u)' /\ ev[u] \in LiveAt(fd) => Deleting(u)
  BY <1>1, <1>7 DEF Deleting, Has
<1>10. ASSUME NEW u \in Threads PROVE KernelAt(u, fd)'
  <2>1. CASE u = t
    BY <1>1, <2>1 DEF KernelAt
  <2>2. CASE u # t
    <3>1. KernelAt(u, fd)
      BY <1>6 DEF Once
    <3>2. ev[u] \in LiveAt(fd) =>
             ("registered" \in flags'[ev[u]] <=> "registered" \in flags[ev[u]])
      BY <1>1, <1>7
    <3>. QED
      BY <1>1, <1>7, <1>8, <2>2, <3>1, <3>2, KernelFrame
  <2>. QED
    BY <2>1, <2>2
<1>11. ASSUME ~Lost(fd) PROVE Sound(fd)'
  <2>1. Sound(fd)
    BY <1>6, <1>11 DEF Once
  <2>2. \A u \in Threads : LeavesDeletes(u, fd)'
    BY <1>1, <1>7, <1>9, <2>1 DEF Sound, LeavesDeletes
  <2>3. InsertsActive(fd)'
    BY <1>1 DEF InsertsActive
  <2>4. ASSUME NEW e \in LiveAt(fd) PROVE InUse(e)'
    <3>1. InUse(e) /\ e \in Events /\ e.fd = fd
      BY <1>7, <2>1 DEF Sound, LiveAt
    <3>2. e = o => "active" \in flags[e]
      BY <1>1, <1>6, <2>1, <3>1 DEF Sound, InsertsActive
    <3>. QED
      BY <1>1, <1>3, <1>4, <3>1, <3>2 DEF InUse
  <2>. QED
    BY <1>7, <2>2, <2>3, <2>4 DEF Sound
<1>12. ASSUME Lost(fd), Stale(fd) PROVE Ending(fd)'
  <2>1. Ending(fd)
    BY <1>6, <1>12 DEF Once
  <2>2. ASSUME NEW e \in LiveAt(fd) PROVE LastTask(e)'
    BY <1>1, <1>3, <1>7, <2>1 DEF Ending, LastTask
  <2>. QED
    BY <1>1, <1>3, <1>7, <1>9, <2>1, <2>2 DEF Ending
<1>13. \A e \in LiveAt(fd) : OneTask(e)'
  BY <1>3, <1>6, <1>7 DEF Once
<1>. QED
  BY <1>5, <1>7, <1>8, <1>10, <1>11, <1>12, <1>13 DEF Once

(* While its event is counted, nothing changes but the place of the thread *)
(* in add_event.                                                           *)
LEMMA IncrementOnce ==
    ASSUME IInv, IInv', OnceInv, NEW t \in Threads,
           IncrementLoads(t) \/ \E actived \in BOOLEAN : IncrementStores(t, actived)
    PROVE  OnceInv'
<1>1. /\ at[t] \in {"load", "store"} /\ at'[t] \in {"store", "prepare", "release"}
      /\ \A u \in Threads : u # t => at'[u] = at[u]
      /\ UNCHANGED <<slot, flags, made, freed, epoll, tasks, ev, call, op, dispatch>>
      /\ UNCHANGED <<overlapped, undone, replaced>>
  BY DEF IncrementLoads, IncrementStores, Goto, IInv, TypeOK, shared, history
<1>2. call[t] = "add" /\ t = Acceptor /\ t # Main /\ t \notin Workers
  BY <1>1, EventFacts DEF IInv, Control, Place
<1>3. ASSUME NEW e \in Events
      PROVE  /\ Unique(e) => Unique(e)'
             /\ OneTask(e) => OneTask(e)'
             /\ Busy(e)' => Busy(e)
             /\ HasTask(e)' => HasTask(e)
  <2>1. Holds(t, e)' => Holds(t, e)
    BY <1>1, <1>2 DEF Holds
  <2>. QED
    BY <1>1, <1>2, <2>1, NoNewUser
<1>4. ~Deleting(t)' /\ \A fd : KernelAt(t, fd)' /\ LeavesDeletes(t, fd)'
  BY <1>1, <1>2 DEF Deleting, KernelAt, LeavesDeletes
<1>5. \A fd : Stale(fd)' <=> Stale(fd)
  BY <1>1, <1>2, EventFacts DEF Stale, dispatch
<1>6. at'[Main] = "hand" /\ ev'[Main] # NULL => ev'[Main].fd = ready'.fd
  BY <1>1, <1>2, EventFacts DEF OnceInv, dispatch
<1>. QED
  BY <1>1, <1>3, <1>4, <1>5, <1>6, OnceQuiet

(* An event that is added is new to all threads; it or the event whose     *)
(* place it takes has been idle and is active now.                         *)
LEMMA AddEventOnce ==
    ASSUME IInv, IInv', OnceInv, NEW t \in Threads, NEW x \in Events, AddEvent(t, x)
    PROVE  OnceInv'
<1>1. /\ at[t] = "idle" /\ t = Acceptor /\ x \notin made /\ ev[t] = NULL
      /\ at'[t] = "insert" /\ ev'[t] = x /\ call'[t] = "add"
      /\ \A u \in Threads : u # t => at'[u] = at[u] /\ ev'[u] = ev[u] /\ call'[u] = call[u]
      /\ made' = made \union {x} /\ flags' = With(Pair(x), "active")
      /\ UNCHANGED <<slot, freed, epoll, tasks, op, dispatch, history>>
  BY DEF AddEvent, Enter, Goto, IInv, TypeOK, Control, Place
<1>2. /\ \A e \in Events : "registered" \in flags'[e] <=> "registered" \in flags[e]
      /\ \A e \in Events : flags[e] \subseteq flags'[e]
      /\ \A e \in Events : e \in Pair(x) => "active" \in flags'[e]
  BY <1>1, FlagsSet DEF Flags, IInv
<1>3. /\ x \notin Live /\ ~Known(x) /\ ~Inserting(x)
      /\ \A e : Inserting(e)' <=> e = x
      /\ \A e : ~Inserting(e)
  BY <1>1 DEF Live, Known, Inserting, IInv, TypeOK
<1>4. \A u \in Threads : u # t => ev[u] # x
  BY <1>1, <1>3, UserFacts, EventFacts
<1>5. ~Busy(x) /\ ~HasTask(x)
  <2>1. ~Queued(x)
    BY <1>3 DEF Queued, IInv, Control, Waiting
  <2>2. \A u \in Threads : ~Holds(u, x)
    BY <1>1, <1>4, EventFacts DEF Holds
  <2>3. \A w \in Workers : ~RunsTask(w, x)
    BY <2>2, UserFacts, EventFacts
  <2>. QED
    BY <2>1, <2>2, <2>3 DEF Busy, HasTask
<1>6. ASSUME NEW e \in Events, e # x
      PROVE  /\ Unique(e) => Unique(e)'
             /\ OneTask(e) => OneTask(e)'
             /\ Busy(e)' => Busy(e)
             /\ HasTask(e)' => HasTask(e)
  <2>1. ~Holds(t, e)' /\ ~RunsTask(t, e)'
    BY <1>1, <1>6 DEF Holds, RunsTask
  <2>. QED
    BY <1>1, <2>1, NoNewUser
<1>7. Unique(x)' /\ OneTask(x)' /\ ~HasTask(x)'
  <2>1. ~Queued(x)'
    BY <1>1, <1>5 DEF Queued, Busy
  <2>2. \A u \in Threads : u # t => ~Holds(u, x)'
    BY <1>1, <1>4 DEF Holds
  <2>3. \A w \in Workers : ~RunsTask(w, x)'
    BY <1>1, <1>4, EventFacts DEF RunsTask
  <2>4. QueuedOnce(x)'
    BY <2>1 DEF Queued, QueuedOnce
  <2>. QED
    BY <2>1, <2>2, <2>3, <2>4 DEF Unique, OneTask, HasTask
<1>8. \A fd : /\ LiveAt(fd) \subseteq Events /\ NULL \notin LiveAt(fd)
              /\ x \notin LiveAt(fd)
              /\ LiveAt(fd)' \subseteq LiveAt(fd) \union {x}
              /\ Stale(fd)' <=> Stale(fd)
  <2>1. \A fd : /\ x \notin LiveAt(fd) /\ LiveAt(fd)' \subseteq LiveAt(fd) \union {x}
    BY <1>1, <1>3 DEF LiveAt, Live
  <2>2. \A fd : Stale(fd)' <=> Stale(fd)
    BY <1>1, EventFacts DEF Stale, dispatch
  <2>. QED
    BY <2>1, <2>2, LiveEvents
<1>. SUFFICES ASSUME NEW fd \in Fds, fd \notin undone \union replaced
              PROVE  Once(fd)'
  <2>1. at'[Main] = "hand" /\ ev'[Main] # NULL => ev'[Main].fd = ready'.fd
    BY <1>1, EventFacts DEF OnceInv, dispatch
  <2>. QED
    BY <1>1, <2>1 DEF OnceInv, history
<1>9. Once(fd)
  BY DEF OnceInv
<1>10. Registered(fd)' = Registered(fd) /\ (Lost(fd)' <=> Lost(fd))
  <2>1. Registered(fd)' = Registered(fd)
    BY <1>1, <1>2, LostFrame DEF IInv
  <2>. QED
    BY <1>1, <2>1 DEF Lost
<1>11. \A u \in Threads : u # t /\ ev'[u] \in LiveAt(fd)' => ev[u] \in LiveAt(fd)
  BY <1>1, <1>4, <1>8
<1>12. \A u \in Threads : Deleting(u)' /\ ev'[u] \in LiveAt(fd)' =>
          Deleting(u) /\ u # t
  BY <1>1, <1>2, <1>8, <1>11 DEF Deleting, Has
<1>13. ASSUME NEW u \in Threads PROVE KernelAt(u, fd)'
  <2>1. CASE u = t
    BY <1>1, <2>1 DEF KernelAt
  <2>2. CASE u # t
    <3>1. KernelAt(u, fd)
      BY <1>9 DEF Once
    <3>2. ev[u] \in LiveAt(fd)' => ev[u] \in LiveAt(fd)
             /\ ("registered" \in flags'[ev[u]] <=> "registered" \in flags[ev[u]])
      BY <1>1, <1>2, <1>8, <1>11, <2>2
    <3>. QED
      BY <1>1, <1>10, <2>2, <3>1, <3>2, KernelFrame
  <2>. QED
    BY <2>1, <2>2
<1>14. ASSUME ~Lost(fd) PROVE Sound(fd)'
  <2>1. Sound(fd)
    BY <1>9, <1>14 DEF Once
  <2>2. \A u \in Threads : LeavesDeletes(u, fd)'
    BY <1>1, <1>11, <1>12, <2>1 DEF Sound, LeavesDeletes
  <2>3. ASSUME NEW e \in LiveAt(fd) PROVE InUse(e)'
    <3>1. InUse(e) /\ e \in Events /\ e # x
      BY <1>8, <2>1, <2>3 DEF Sound
    <3>. QED
      BY <1>2, <1>3, <1>6, <3>1 DEF InUse
  <2>4. InUse(x)'
    BY <1>3, <1>7 DEF InUse
  <2>5. ASSUME x.fd = fd, "active" \notin flags'[x]
        PROVE  InsertsActive(fd)'
    <3>1. Pair(x) = SlotsOf(fd) /\ \A d \in Dirs : slot[fd][d] # NULL
      BY <1>2, <2>5 DEF Pair
    <3>2. x.dir \in Dirs
      BY EventFacts
    <3>3. PICK y \in Events : y = slot[fd][x.dir]
      BY <3>1, <3>2 DEF IInv, TypeOK
    <3>4. y \in Pair(x) /\ y # NULL
      BY <3>1, <3>2, <3>3 DEF SlotsOf
    <3>5. "active" \notin flags[y] /\ "active" \in flags'[y]
      BY <1>2, <3>4 DEF AddEvent, MayActivate, Has
    <3>6. y \in LiveAt(fd) /\ y # x
      BY <1>8, <3>2, <3>3, <3>4, LiveFacts
    <3>7. ~Busy(y)'
      BY <1>3, <1>6, <2>1, <3>5, <3>6 DEF Sound, InUse
    <3>8. slot'[fd][ev'[Acceptor].dir] = y
      BY <1>1, <3>3
    <3>9. ~Busy(slot[fd][ev[Acceptor].dir])'
      BY <3>7, <3>8 DEF Busy, Queued, Holds
    <3>. QED
      BY <3>4, <3>5, <3>8, <3>9 DEF InsertsActive
  <2>6. InsertsActive(fd)'
    <3>1. CASE x.fd = fd /\ "active" \notin flags'[x]
      BY <2>5, <3>1
    <3>2. CASE ~(x.fd = fd /\ "active" \notin flags'[x])
      BY <1>1, <3>2 DEF InsertsActive
    <3>. QED
      BY <3>1, <3>2
  <2>. QED
    BY <1>8, <2>2, <2>3, <2>4, <2>6 DEF Sound
<1>15. ASSUME Lost(fd), Stale(fd) PROVE Ending(fd)'
  <2>1. Ending(fd)
    BY <1>9, <1>15 DEF Once
  <2>2. ASSUME NEW e \in LiveAt(fd) PROVE LastTask(e)'
    <3>1. LastTask(e) /\ e \in Events /\ e # x
      BY <1>8, <2>1, <2>2 DEF Ending
    <3>. QED
      BY <1>2, <1>6, <3>1 DEF LastTask
  <2>3. LastTask(x)'
    BY <1>7 DEF LastTask
  <2>4. ASSUME NEW u \in Threads, ev'[u] \in LiveAt(fd)', Deleting(u)',
               NEW e \in LiveAt(fd) \union {x}
        PROVE  ~HasTask(e)'
    <3>1. CASE e = x
      BY <1>7, <3>1
    <3>2. CASE e # x
      <4>1. ~HasTask(e)
        BY <1>11, <1>12, <2>1, <2>4, <3>2 DEF Ending
      <4>. QED
        BY <1>6, <1>8, <2>4, <3>2, <4>1
    <3>. QED
      BY <3>1, <3>2
  <2>. QED
    BY <1>8, <2>2, <2>3, <2>4 DEF Ending
<1>16. \A e \in LiveAt(fd)' : OneTask(e)'
  BY <1>6, <1>7, <1>8, <1>9 DEF Once
<1>. QED
  BY <1>8, <1>10, <1>13, <1>14, <1>15, <1>16 DEF Once

-----------------------------------------------------------------------------
LEMMA OnceInit ==
    ASSUME Init
    PROVE  OnceInv
<1>1. \A fd \in Fds : LiveAt(fd) = {} /\ Registered(fd) = {}
  BY DEF Init, LiveAt, Live, Registered, Has
<1>2. at[Main] = "idle" /\ at[Acceptor] = "idle"
  BY EventFacts DEF Init
<1>3. \A fd \in Fds : Sound(fd)
  BY <1>1, <1>2 DEF Sound, LeavesDeletes, InsertsActive
<1>. QED
  BY <1>1, <1>2, <1>3 DEF OnceInv, Once, KernelAt, Lost

LEMMA OnceNext ==
    ASSUME IInv, IInv', OnceInv, [Next]_vars
    PROVE  OnceInv'
<1>1. ASSUME NEW t \in Threads, NEW e \in Events, AddEvent(t, e) PROVE OnceInv'
  BY <1>1, AddEventOnce
<1>2. ASSUME NEW t \in Threads,
             \/ Insert(t) \/ IncrementLoads(t)
             \/ \E actived \in BOOLEAN : IncrementStores(t, actived)
      PROVE  OnceInv'
  BY <1>2, InsertOnce, IncrementOnce
<1>3. ASSUME NEW t \in Threads,
             \/ Release(t) \/ Undo(t) \/ Prepare(t) \/ Ctl(t) \/ CtlFails(t)
      PROVE  OnceInv'
  BY <1>3, ReleaseOnce, UndoOnce, PrepareOnce, CtlOnce, CtlFailsOnce
<1>4. ASSUME NEW t \in Threads,
             DelEvent(t) \/ DelRefused(t) \/ Free(t) \/ Count(t) \/ Crash(t)
      PROVE  OnceInv'
  BY <1>4, DelEventOnce, DelRefusedOnce, FreeOnce, CountOnce, CrashOnce
<1>5. CASE Wait \/ HangUp \/ Capture \/ NoEvent
  BY <1>5, WaitOnce, HangUpOnce, CaptureOnce, NoEventOnce
<1>6. ASSUME NEW w \in Workers,
             AddTask(w) \/ Execute(w) \/ PauseOrResume(w) \/ TaskEnds(w)
      PROVE  OnceInv'
  BY <1>6, AddTaskOnce, ExecuteOnce, PauseOrResumeOnce, TaskEndsOnce
<1>7. CASE UNCHANGED vars
  BY <1>7, StutterOnce DEF vars, shared, local, dispatch, history, Live
<1>. QED
  BY <1>1, <1>2, <1>3, <1>4, <1>5, <1>6, <1>7 DEF Next

(* Events keep to one thread where no add has failed and none has been     *)
(* replaced.                                                               *)
LEMMA OnceInvariance == Spec => []OnceInv
<1>1. Init => OnceInv
  BY OnceInit
<1>2. IInv /\ IInv' /\ OnceInv /\ [Next]_vars => OnceInv'
  BY OnceNext
<1>3. Spec => []IInv
  BY Invariance
<1>. QED
  BY <1>1, <1>2, <1>3, PTL DEF Spec

LEMMA OneTaskCounts ==
    ASSUME IInv, OnceInv
    PROVE  OneTaskEach
<1>. SUFFICES ASSUME NEW e \in made \ freed, e.fd \notin undone \union replaced
              PROVE  Cardinality(TasksOf(e)) < 2
  BY DEF OneTaskEach
<1>1. e \in Events /\ e.fd \in Fds /\ e \in LiveAt(e.fd)
  BY EventFacts DEF IInv, TypeOK, LiveAt, Live
<1>2. OneTask(e)
  BY <1>1 DEF OnceInv, Once
<1>3. \A a \in TasksOf(e) :
         \/ \E w \in Workers : a = <<w, 0>> /\ RunsTask(w, e)
         \/ \E w \in Workers : \E i \in 1..Len(tasks[w]) :
               a = <<w, i>> /\ tasks[w][i] = e
  BY DEF TasksOf
<1>4. \A a, b \in TasksOf(e) : a = b
  BY <1>2, <1>3 DEF OneTask, QueuedOnce, Queued
<1>5. CASE TasksOf(e) = {}
  BY <1>5, FS_EmptySet
<1>6. CASE TasksOf(e) # {}
  <2>1. PICK a \in TasksOf(e) : TasksOf(e) = {a}
    BY <1>4, <1>6
  <2>2. Cardinality({a}) = 1
    BY FS_Singleton
  <2>. QED
    BY <2>1, <2>2
<1>. QED
  BY <1>5, <1>6

(* excute event ("this read event can not excute again"): as long as no    *)
(* add of the descriptor has failed and none of its events has been        *)
(* replaced, there is at most one task for an event, queued or running.    *)
THEOREM OneTaskHolds == Spec => []OneTaskEach
<1>1. IInv /\ OnceInv => OneTaskEach
  BY OneTaskCounts
<1>. QED
  BY <1>1, Invariance, OnceInvariance, PTL

-----------------------------------------------------------------------------
(* What is registered changes only where the kernel is called and where an *)
(* event comes into a slot or leaves it.                                   *)
LEMMA RegisteredStays ==
    ASSUME IInv, IInv', Next, ~(\E t \in Threads : Ctl(t) \/ Free(t)),
           ~(\E t \in Threads : Insert(t))
    PROVE  epoll' = epoll /\ \A fd \in Fds : Registered(fd)' = Registered(fd)
<1>1. SUFFICES /\ slot' = slot /\ epoll' = epoll
               /\ \A e \in Events : "registered" \in flags'[e] <=> "registered" \in flags[e]
  BY <1>1, LostFrame DEF IInv
<1>2. ASSUME NEW E, flags' = With(E, "active") \/ flags' = Without(E, "active")
      PROVE  \A e \in Events : "registered" \in flags'[e] <=> "registered" \in flags[e]
  BY <1>2, FlagsSet, FlagsCleared DEF Flags, IInv
<1>3. ASSUME NEW t \in Threads, NEW e \in Events, AddEvent(t, e)
      PROVE  /\ slot' = slot /\ epoll' = epoll
             /\ \A x \in Events : "registered" \in flags'[x] <=> "registered" \in flags[x]
  <2>1. slot' = slot /\ epoll' = epoll /\ flags' = With(Pair(e), "active")
    BY <1>3 DEF AddEvent
  <2>. QED
    BY <1>2, <2>1
<1>4. ASSUME NEW t \in Threads, Release(t) \/ Undo(t)
      PROVE  /\ slot' = slot /\ epoll' = epoll
             /\ \A x \in Events : "registered" \in flags'[x] <=> "registered" \in flags[x]
  <2>1. /\ slot' = slot /\ epoll' = epoll
        /\ flags' = Without({ev[t]}, "active") \/ flags' = Without(Pair(ev[t]), "active")
    BY <1>4 DEF Release, Undo
  <2>. QED
    BY <1>2, <2>1
<1>5. ASSUME NEW t \in Threads, DelEvent(t)
      PROVE  /\ slot' = slot /\ epoll' = epoll
             /\ \A x \in Events : "registered" \in flags'[x] <=> "registered" \in flags[x]
  <2>. DEFINE F == With(Pair(ev[t]), "active")
  <2>1. /\ F \in [Events -> SUBSET Flags]
        /\ \A e \in Events : "registered" \in F[e] <=> "registered" \in flags[e]
    BY FlagsSet DEF Flags, IInv
  <2>2. /\ slot' = slot /\ epoll' = epoll
        /\ flags' = [F EXCEPT ![ev[t]] = F[ev[t]] \ {"inserted"}]
    BY <1>5 DEF DelEvent, EventQueueRemove
  <2>. HIDE DEF F
  <2>. QED
    BY <2>1, <2>2
<1>6. ASSUME NEW w \in Workers, AddTask(w) \/ TaskEnds(w)
      PROVE  /\ slot' = slot /\ epoll' = epoll
             /\ \A x \in Events : "registered" \in flags'[x] <=> "registered" \in flags[x]
  <2>1. /\ slot' = slot /\ epoll' = epoll
        /\ flags' = With({ev[Main]}, "active") \/ flags' = Without({ev[w]}, "active")
    BY <1>6 DEF AddTask, TaskEnds
  <2>. QED
    BY <1>2, <2>1
<1>7. ASSUME NEW t \in Threads,
             Prepare(t) \/ CtlFails(t) \/ DelRefused(t) \/ Count(t) \/ Crash(t)
      PROVE  UNCHANGED <<slot, epoll, flags>>
  BY <1>7 DEF Prepare, CtlFails, DelRefused, Count, Crash, shared
<1>8. ASSUME NEW w \in Workers, Execute(w) \/ PauseOrResume(w)
      PROVE  UNCHANGED <<slot, epoll, flags>>
  BY <1>8 DEF Execute, PauseOrResume, shared
<1>9. Wait \/ HangUp \/ Capture \/ NoEvent => UNCHANGED <<slot, epoll, flags>>
  BY DEF Wait, HangUp, Capture, NoEvent, shared
<1>10. ASSUME NEW t \in Threads,
              IncrementLoads(t) \/ \E actived \in BOOLEAN : IncrementStores(t, actived)
       PROVE  UNCHANGED <<slot, epoll, flags>>
  BY <1>10 DEF IncrementLoads, IncrementStores, shared
<1>. QED
  BY <1>3, <1>4, <1>5, <1>6, <1>7, <1>8, <1>9, <1>10 DEF Next

LEMMA LostStays ==
    ASSUME IInv, IInv', OnceInv, [Next]_vars,
           NEW fd \in Fds, fd \notin undone' \union replaced', Lost(fd)
    PROVE  Lost(fd)'
<1>1. ASSUME NEW t \in Threads, Ctl(t) PROVE Lost(fd)'
  <2>1. /\ at[t] = "ctl" /\ Works(t, at[t]) /\ CtlWorks(ev[t].fd, op[t])
        /\ slot' = slot /\ undone' = undone /\ replaced' = replaced
    BY <1>1 DEF Ctl, Works, history
  <2>p. PICK o \in Events : o = ev[t]
    BY <2>1, CallerFacts
  <2>2. o \in LiveAt(o.fd) /\ o.fd \in Fds
    BY <2>1, <2>p, CallerFacts DEF LiveAt
  <2>3. fd # o.fd
    <3>. SUFFICES ASSUME fd = o.fd PROVE FALSE
      OBVIOUS
    <3>1. KernelAt(t, fd)
      BY <2>1 DEF OnceInv, Once
    <3>2. op[t].cmd = "ADD" => epoll[fd] # {}
      BY <2>1, <2>2, <2>p, <3>1 DEF KernelAt, Lost
    <3>. QED
      BY <2>1, <2>p, <3>2 DEF CtlWorks, Lost
  <2>4. epoll'[fd] = epoll[fd]
    BY <1>1, <2>3, <2>p DEF Ctl, IInv, TypeOK
  <2>5. \A e \in Events :
           e # o => ("registered" \in flags'[e] <=> "registered" \in flags[e])
    <3>1. flags' = With({o}, "registered") \/ flags' = Without({o}, "registered")
      BY <1>1, <2>p DEF Ctl
    <3>2. \A e \in Events : e # o =>
             ("registered" \in With({o}, "registered")[e] <=> "registered" \in flags[e])
      BY FlagsSet DEF Flags, IInv
    <3>3. \A e \in Events : e # o =>
             ("registered" \in Without({o}, "registered")[e] <=> "registered" \in flags[e])
      BY FlagsCleared DEF Flags, IInv
    <3>. QED
      BY <3>1, <3>2, <3>3
  <2>6. \A d \in Dirs : slot[fd][d] # NULL => slot[fd][d] \in Events /\ slot[fd][d] # o
    <3>1. \A d \in Dirs : slot[fd][d] # NULL => slot[fd][d] \in LiveAt(fd)
      BY LiveFacts
    <3>2. o \notin LiveAt(fd)
      BY <2>3 DEF LiveAt
    <3>. QED
      BY <3>1, <3>2, LiveEvents
  <2>7. Registered(fd)' = Registered(fd)
    BY <2>1, <2>5, <2>6 DEF Registered, Has
  <2>. QED
    BY <2>4, <2>7 DEF Lost
<1>2. ASSUME NEW t \in Threads, Free(t) PROVE Lost(fd)'
  <2>1. /\ at[t] = "free" /\ Works(t, at[t]) /\ undone' = undone /\ replaced' = replaced
        /\ flags' = flags /\ epoll' = epoll
    BY <1>2 DEF Free, Works, history
  <2>p. PICK o \in Events : o = ev[t]
    BY <2>1, CallerFacts
  <2>2. /\ o \in LiveAt(o.fd) /\ o.fd \in Fds /\ o.dir \in Dirs
        /\ slot[o.fd][o.dir] = o
    BY <2>1, <2>p, CallerFacts DEF LiveAt
  <2>3. fd = o.fd => "registered" \notin flags[o]
    BY <2>1, <2>2, <2>p DEF OnceInv, Once, KernelAt
  <2>4. \A d \in Dirs : slot'[fd][d] = slot[fd][d]
                        \/ (slot'[fd][d] = NULL /\ slot[fd][d] = o /\ fd = o.fd)
    BY <1>2, <2>2, <2>p DEF Free, IInv, TypeOK
  <2>5. Registered(fd)' = Registered(fd)
    BY <2>1, <2>3, <2>4 DEF Registered, Has
  <2>. QED
    BY <2>1, <2>5 DEF Lost
<1>3. ASSUME NEW t \in Threads, Insert(t)
      PROVE  Lost(fd)'
  <2>1. /\ at[t] = "insert" /\ t = Acceptor /\ ev[t] \in Live
        /\ flags[ev[t]] \subseteq {"active"}
    BY <1>3 DEF Insert, Works, IInv, Control, Place, Tables
  <2>p. PICK o \in Events : o = ev[t]
    BY <2>1 DEF Live, IInv, TypeOK
  <2>2. /\ o.fd \in Fds /\ o.dir \in Dirs /\ "registered" \notin flags[o]
        /\ epoll' = epoll
        /\ fd = o.fd => slot[o.fd][o.dir] = NULL
        /\ slot' = [slot EXCEPT ![o.fd][o.dir] = o]
    BY <1>3, <2>1, <2>p, EventFacts DEF Insert
  <2>3. \A e \in Events : "registered" \in flags'[e] <=> "registered" \in flags[e]
    <3>1. flags' = [flags EXCEPT ![o] = flags[o] \union {"inserted"}]
      BY <1>3, <2>p DEF Insert, EventQueueInsert
    <3>. QED
      BY <3>1 DEF IInv, TypeOK
  <2>4. ASSUME NEW d \in Dirs
        PROVE  Has(slot[fd][d], "registered")' <=> Has(slot[fd][d], "registered")
    <3>1. CASE fd = o.fd /\ d = o.dir
      <4>1. slot'[fd][d] = o /\ slot[fd][d] = NULL
        BY <2>2, <3>1 DEF IInv, TypeOK
      <4>. QED
        BY <2>2, <2>3, <4>1 DEF Has
    <3>2. CASE ~(fd = o.fd /\ d = o.dir)
      <4>1. slot[fd][d] \in Events \union {NULL} /\ slot'[fd][d] = slot[fd][d]
        BY <2>2, <3>2 DEF IInv, TypeOK
      <4>. QED
        BY <2>3, <4>1 DEF Has
    <3>. QED
      BY <3>1, <3>2
  <2>5. Registered(fd)' = Registered(fd)
    BY <2>4 DEF Registered
  <2>. QED
    BY <2>2, <2>5 DEF Lost
<1>4. CASE UNCHANGED vars
  BY <1>4 DEF vars, shared, Lost, Registered, Has
<1>5. CASE /\ Next /\ ~(\E t \in Threads : Ctl(t) \/ Free(t))
           /\ ~(\E t \in Threads : Insert(t))
  BY <1>5, RegisteredStays DEF Lost
<1>. QED
  BY <1>1, <1>2, <1>3, <1>4, <1>5

(* epoll_del_event fails only where the kernel no longer has the           *)
(* descriptor although one of its events believes to be registered.        *)
DeleteFailsOnlyIfLost ==
    \A t \in Threads : at[t] = "undo" /\ call[t] = "del" /\ ev[t] \in Live =>
       ev[t].fd \in undone \union replaced \/ Lost(ev[t].fd)

THEOREM FailedDelete == Spec => []DeleteFailsOnlyIfLost
<1>1. IInv /\ OnceInv => DeleteFailsOnlyIfLost
  <2>. SUFFICES ASSUME IInv, OnceInv, NEW t \in Threads, at[t] = "undo",
                       call[t] = "del", ev[t] \in Live,
                       ev[t].fd \notin undone \union replaced
                PROVE  Lost(ev[t].fd)
    BY DEF DeleteFailsOnlyIfLost
  <2>1. ev[t].fd \in Fds /\ ev[t] \in LiveAt(ev[t].fd)
    BY EventFacts DEF IInv, TypeOK, LiveAt, Live
  <2>. QED
    BY <2>1 DEF OnceInv, Once, KernelAt
<1>. QED
  BY <1>1, Invariance, OnceInvariance, PTL

(* epoll_active_event tells the kernel MOD, and so cannot put back a       *)
(* descriptor that the kernel has lost while an event still has its flag:  *)
(* no later call of the reactor brings it back, unless an event is         *)
(* replaced or an add fails.                                               *)
THEOREM LostForEver ==
    Spec => [][\A fd \in Fds \ (undone' \union replaced') : Lost(fd) => Lost(fd)']_vars
<1>1. /\ IInv /\ IInv' /\ OnceInv /\ [Next]_vars
      => [\A fd \in Fds \ (undone' \union replaced') : Lost(fd) => Lost(fd)']_vars
  BY LostStays
<1>. QED
  BY <1>1, Invariance, OnceInvariance, PTL DEF Spec
================================================================================
