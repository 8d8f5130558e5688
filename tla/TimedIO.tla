------------------------------- MODULE TimedIO -------------------------------
(***************************************************************************)
(* The blocking calls with a time limit of net.cpp: net_connect_to_tv      *)
(* (isclose as by default), readn_to_ms and sendn_to_ms, on one socket     *)
(* that a reading and a writing thread share.  A call changes settings of  *)
(* the socket, O_NONBLOCK and the timeout of its direction, waits, and     *)
(* puts them back: each system call is a step.  Bytes are counted.         *)
(*                                                                         *)
(* Time is relative: Tick lets a millisecond pass for every call at once,  *)
(* when all there is to do is to wait.  A call without a limit (msecs < 0  *)
(* becomes INT_MAX) waits Forever and is not timed.                        *)
(***************************************************************************)
EXTENDS Integers

CONSTANTS
    Readers, Writers,   \* the threads that call readn_to_ms, sendn_to_ms
    Waits,              \* the time limits they call with
    Forever,            \* no time limit, larger than every limit
    Sizes,              \* the values of nbytes
    Room,               \* room in the kernel's send buffer
    Data,               \* how much unread data the network holds at most
    MaxSignals          \* bound: signals that interrupt calls which have nothing

ASSUME TimedIOAssumption ==
    /\ Readers \intersect Writers = {}
    /\ {Room, Data, Forever} \subseteq Nat \ {0}
    /\ Sizes \subseteq Nat \ {0}
    /\ Waits \subseteq 0..Forever
    /\ MaxSignals \in Nat

Threads == Readers \union Writers
Dirs == {"recv", "send"}
Dir(t) == IF t \in Readers THEN "recv" ELSE "send"

(* The timeout of a direction belongs to one call: two threads that read   *)
(* at once would save and restore the timeouts of each other.              *)
ASSUME OneThreadEachWay == \A t, u \in Threads : Dir(t) = Dir(u) => t = u

VARIABLES
    link,        \* the connection: "new", "pending", "up", "refused",
                 \* "fin" (the peer sends no more), "reset"; "closed" here
    nonblock,    \* O_NONBLOCK
    timeo,       \* timeo[d]: SO_RCVTIMEO, SO_SNDTIMEO
    avail        \* avail[d]: bytes to read, room to write

VARIABLES        \* of the call thread t is in
    pc,
    want,        \* nbytes
    done,        \* nread, nwrite
    msecs,       \* msecs, what is left of it
    sockflag,    \* O_NONBLOCK in sockflag
    used,        \* time since gettimeofday(&cur)
    left,        \* time until the system call it waits in gives up
    result       \* what it returns

VARIABLES        \* for the properties
    nonblock0,   \* O_NONBLOCK as the application set it
    overlapped,  \* two calls were under way at once, and
    failed,      \* a system call that changes a setting failed, since the
                 \* socket was last unused and as configured
    asked,       \* msecs as passed
    elapsed,     \* time since the call began
    moved,       \* bytes moved from or to the socket by the call
    interrupts   \* signals that hit it, but for those that ended a wait with
                 \* a part of the data

socket == <<link, nonblock, timeo, avail>>
call == <<want, done, msecs, sockflag, used, left>>
history == <<nonblock0, overlapped, failed>>
measures == <<asked, elapsed, moved, interrupts>>
vars == <<socket, pc, call, result, history, measures>>

Init ==
    /\ link = "new"
    /\ nonblock \in BOOLEAN
    /\ timeo = [d \in Dirs |-> Forever]
    /\ avail = [d \in Dirs |-> 0]
    /\ pc = [t \in Threads |-> "idle"]
    /\ want = [t \in Threads |-> 0]
    /\ done = [t \in Threads |-> 0]
    /\ msecs = [t \in Threads |-> 0]
    /\ sockflag = [t \in Threads |-> FALSE]
    /\ used = [t \in Threads |-> 0]
    /\ left = [t \in Threads |-> 0]
    /\ result = [t \in Threads |-> 0]
    /\ nonblock0 = nonblock
    /\ overlapped = FALSE
    /\ failed = FALSE
    /\ asked = [t \in Threads |-> 0]
    /\ elapsed = [t \in Threads |-> 0]
    /\ moved = [t \in Threads |-> 0]
    /\ interrupts = [t \in Threads |-> 0]
-----------------------------------------------------------------------------
(* The network and the peer. *)
Becomes(state) ==
    /\ link' = state
    /\ avail' = CASE state = "up" -> [avail EXCEPT !["send"] = Room]
                  [] state = "fin" -> avail
                  [] OTHER -> [d \in Dirs |-> 0]

Network ==
    /\ \/ /\ link = "up" /\ avail["recv"] < Data
          /\ avail' = [avail EXCEPT !["recv"] = @ + 1]
          /\ UNCHANGED link
       \/ /\ link \in {"up", "fin"} /\ avail["send"] < Room
          /\ avail' = [avail EXCEPT !["send"] = @ + 1]
          /\ UNCHANGED link
       \/ link = "pending" /\ \E s \in {"up", "refused"} : Becomes(s)
       \/ link = "up" /\ Becomes("fin")
       \/ link \in {"up", "fin"} /\ Becomes("reset")
    /\ UNCHANGED <<nonblock, timeo, pc, call, result, history, measures>>
-----------------------------------------------------------------------------
Goto(t, label) == pc' = [pc EXCEPT ![t] = label]
Smaller(m, n) == IF m < n THEN m ELSE n
Dead == link \in {"refused", "reset"}

(* A call that moves k bytes to begin with, and has m milliseconds.        *)
Enter(t, m, k) ==
    /\ pc[t] = "idle"
    /\ asked' = [asked EXCEPT ![t] = m]
    /\ msecs' = [msecs EXCEPT ![t] = m]
    /\ done' = [done EXCEPT ![t] = k]
    /\ moved' = [moved EXCEPT ![t] = k]
    /\ UNCHANGED <<elapsed, interrupts>>

(* The value to return is known; what is left is done at label.            *)
Finish(t, r, label) ==
    /\ Goto(t, label)
    /\ result' = [result EXCEPT ![t] = r]

(* but for t, nobody uses the socket *)
AsConfigured(t) ==
    /\ \A u \in Threads \ {t} : pc[u] = "idle"
    /\ nonblock = nonblock0
    /\ \A d \in Dirs : timeo[d] = Forever

Leave(t) ==
    /\ pc[t] = "return"
    /\ Goto(t, "idle")
    /\ want' = [want EXCEPT ![t] = 0]
    /\ done' = [done EXCEPT ![t] = 0]
    /\ msecs' = [msecs EXCEPT ![t] = 0]
    /\ sockflag' = [sockflag EXCEPT ![t] = FALSE]
    /\ used' = [used EXCEPT ![t] = 0]
    /\ left' = [left EXCEPT ![t] = 0]
    /\ result' = [result EXCEPT ![t] = 0]
    /\ asked' = [asked EXCEPT ![t] = 0]
    /\ elapsed' = [elapsed EXCEPT ![t] = 0]
    /\ moved' = [moved EXCEPT ![t] = 0]
    /\ interrupts' = [interrupts EXCEPT ![t] = 0]
    /\ overlapped' = (overlapped /\ ~AsConfigured(t))
    /\ UNCHANGED <<socket, nonblock0, failed>>

(* set_fd: O_NONBLOCK, if it is not set; the flags as they were. *)
SetFdNoblock(t) ==
    /\ sockflag' = [sockflag EXCEPT ![t] = nonblock]
    /\ nonblock' = TRUE

(* net_connect_to_tv: O_NONBLOCK, and connect, which may be over at once.  *)
Connect(t, m) ==
    /\ link = "new"
    /\ Enter(t, IF m = 0 THEN Forever ELSE m, 0)
    /\ SetFdNoblock(t)
    /\ \/ Becomes("up") /\ Finish(t, 0, "undo")
       \/ Becomes("refused") /\ Finish(t, -1, "undo")
       \/ Becomes("pending") /\ Goto(t, "select") /\ UNCHANGED result
    /\ left' = [left EXCEPT ![t] = msecs'[t]]
    /\ UNCHANGED <<timeo, want, used, history>>

(* Mutant of Select: SO_ERROR is not asked for. *)
SelectUnasked(t) ==
    /\ pc[t] = "select"
    /\ \/ link # "pending" /\ Finish(t, 0, "undo")
       \/ link = "pending" /\ left[t] = 0 /\ Finish(t, -1, "undo")
    /\ UNCHANGED <<socket, call, history, measures>>

(* select ends because the connection is decided, as SO_ERROR tells, or    *)
(* because the time is up.                                                 *)
Select(t) ==
    /\ pc[t] = "select"
    /\ \/ link # "pending" /\ Finish(t, IF Dead THEN -1 ELSE 0, "undo")
       \/ link = "pending" /\ left[t] = 0 /\ Finish(t, -1, "undo")
    /\ UNCHANGED <<socket, call, history, measures>>

(* A signal makes select return -1 and leave both sets as they were: the   *)
(* descriptor counts as ready, and SO_ERROR is none yet.                   *)
SelectInterrupted(t) ==
    /\ pc[t] = "select"
    /\ Finish(t, IF Dead THEN -1 ELSE 0, "undo")
    /\ UNCHANGED <<link, avail, call, moved>>

(* done: the flags as they were, and the descriptor closed on failure.     *)
ConnectDone(t) ==
    /\ pc[t] = "undo"
    /\ nonblock' = sockflag[t]
    /\ IF result[t] = -1 THEN Becomes("closed") ELSE UNCHANGED <<link, avail>>
    /\ Goto(t, "return")
    /\ UNCHANGED <<timeo, call, result, history, measures>>

(* The application closes the socket, as the clients do on a failure, and  *)
(* has a new one, which it configures alike.                               *)
NewSocket ==
    /\ \A t \in Threads : pc[t] = "idle"
    /\ link # "new"
    /\ link' = "new"
    /\ nonblock' = nonblock0
    /\ timeo' = [d \in Dirs |-> Forever]
    /\ avail' = [d \in Dirs |-> 0]
    /\ overlapped' = FALSE /\ failed' = FALSE
    /\ UNCHANGED <<pc, call, result, nonblock0, measures>>
-----------------------------------------------------------------------------
(* readn_to_ms and sendn_to_ms begin with a recv or send that does not     *)
(* wait: it may be all there is to do, fail, or find the end of the stream.*)
(* Otherwise, with a limit of 0, what it moved is given up.                *)
Ready(t, n, m) ==
    LET k == Smaller(n, avail[Dir(t)])
        end == link = "fin" /\ k = 0 /\ t \in Readers
    IN
    /\ link \notin {"new", "closed"} /\ ~failed
    /\ \A u \in Threads : pc[u] \notin {"select", "undo"}
    /\ Enter(t, m, k)
    /\ want' = [want EXCEPT ![t] = n]
    /\ avail' = [avail EXCEPT ![Dir(t)] = @ - k]
    /\ \/ Dead /\ Finish(t, -1, "return")
       \/ ~Dead /\ (k = n \/ end) /\ Finish(t, k, "return")
       \/ ~Dead /\ k < n /\ ~end /\ m = 0 /\ Finish(t, -1, "return")
       \/ ~Dead /\ k < n /\ ~end /\ m > 0 /\ Goto(t, "getfl") /\ UNCHANGED result
    /\ overlapped' = (overlapped \/ \E u \in Threads \ {t} : pc[u] # "idle")
    /\ UNCHANGED <<link, nonblock, timeo, sockflag, used, left,
                   nonblock0, failed>>

(* getsockopt for old_tv (which is Forever: only this call changes it) and *)
(* F_GETFL.                                                                *)
GetSettings(t) ==
    /\ pc[t] = "getfl"
    /\ sockflag' = [sockflag EXCEPT ![t] = nonblock]
    /\ Goto(t, IF nonblock THEN "clear" ELSE "settimeo")
    /\ UNCHANGED <<socket, want, done, msecs, used, left, result,
                   history, measures>>

ClearNonblock(t) ==
    /\ pc[t] = "clear"
    /\ nonblock' = FALSE
    /\ Goto(t, "settimeo")
    /\ UNCHANGED <<link, timeo, avail, call, result, history, measures>>

(* The recv or send that waits, unless somebody set O_NONBLOCK again. *)
Patience(t, limit) == IF nonblock THEN 0 ELSE limit

(* The head of the loop: the timeout is what is left of msecs. *)
SetTimeout(t) ==
    /\ pc[t] = "settimeo"
    /\ timeo' = [timeo EXCEPT ![Dir(t)] = msecs[t]]
    /\ used' = [used EXCEPT ![t] = 0]
    /\ left' = [left EXCEPT ![t] = Patience(t, msecs[t])]
    /\ Goto(t, "wait")
    /\ UNCHANGED <<link, nonblock, avail, want, done, msecs, sockflag,
                   result, history, measures>>

(* After a signal: the call again, with the timeout it had. *)
Again(t) ==
    /\ pc[t] = "again"
    /\ left' = [left EXCEPT ![t] = Patience(t, timeo[Dir(t)])]
    /\ Goto(t, "wait")
    /\ UNCHANGED <<socket, want, done, msecs, sockflag, used, result,
                   history, measures>>

(* What waiting for: the rest, of which k bytes can be moved now. *)
Rest(t) == want[t] - done[t]
Now(t) == Smaller(Rest(t), avail[Dir(t)])

(* It is decided what the call returns; what it counted is forgotten.      *)
Decided(t, r) ==
    /\ Finish(t, r, "restore")
    /\ done' = [done EXCEPT ![t] = 0]
    /\ msecs' = [msecs EXCEPT ![t] = 0]
    /\ used' = [used EXCEPT ![t] = 0]

(* Mutant of Got: the loop goes on with all the time it had. *)
GotUntimed(t, k) ==
    /\ avail' = [avail EXCEPT ![Dir(t)] = @ - k]
    /\ moved' = [moved EXCEPT ![t] = @ + k]
    /\ \/ k = Rest(t) /\ Decided(t, done[t] + k)
       \/ k < Rest(t) /\ used[t] >= msecs[t] /\ Decided(t, -1)
       \/ /\ k < Rest(t) /\ used[t] < msecs[t]
          /\ done' = [done EXCEPT ![t] = @ + k]
          /\ UNCHANGED msecs
          /\ Goto(t, "settimeo")
          /\ UNCHANGED <<used, result>>
    /\ left' = [left EXCEPT ![t] = 0]
    /\ UNCHANGED <<link, want, sockflag>>

(* recv or send returned k > 0 bytes.  All of them: done.  Fewer: the time *)
(* is up, or else a signal or the end came first and the loop goes on with *)
(* what is left of the time.                                               *)
Got(t, k) ==
    /\ avail' = [avail EXCEPT ![Dir(t)] = @ - k]
    /\ moved' = [moved EXCEPT ![t] = @ + k]
    /\ \/ k = Rest(t) /\ Decided(t, done[t] + k)
       \/ k < Rest(t) /\ used[t] >= msecs[t] /\ Decided(t, -1)
       \/ /\ k < Rest(t) /\ used[t] < msecs[t]
          /\ done' = [done EXCEPT ![t] = @ + k]
          /\ msecs' = [msecs EXCEPT ![t] = @ - used[t]]
          /\ Goto(t, "settimeo")
          /\ UNCHANGED <<used, result>>
    /\ left' = [left EXCEPT ![t] = 0]
    /\ UNCHANGED <<link, want, sockflag>>

(* Mutant of Over: the end of the stream is not told from a part. *)
OverAtError(t, r) ==
    /\ IF r = 0 THEN Goto(t, "again") /\ UNCHANGED <<result, done, msecs, used>>
                ELSE Decided(t, r)
    /\ left' = [left EXCEPT ![t] = 0]
    /\ UNCHANGED <<link, avail, want, sockflag, moved>>

(* It returned r = 0 or -1, which ends the call. *)
Over(t, r) ==
    /\ Decided(t, r)
    /\ left' = [left EXCEPT ![t] = 0]
    /\ UNCHANGED <<link, avail, want, sockflag, moved>>

AtEnd(t) == link = "fin" /\ t \in Readers

(* The system call returns, with all it was asked for, or with less at the *)
(* end of its time, of the stream or of the connection.                    *)
Wakeup(t) ==
    /\ pc[t] = "wait"
    /\ \/ /\ Now(t) > 0
          /\ Now(t) = Rest(t) \/ left[t] = 0 \/ AtEnd(t)
          /\ Got(t, Now(t))
       \/ Now(t) = 0 /\ (left[t] = 0 \/ Dead) /\ ~AtEnd(t) /\ Over(t, -1)
       \/ Now(t) = 0 /\ AtEnd(t) /\ Over(t, 0)
    /\ UNCHANGED <<nonblock, timeo, history, asked, elapsed, interrupts>>

(* Mutant of WaitInterrupted: EINTR ends the call. *)
WaitInterruptedOver(t) == pc[t] = "wait" /\ Now(t) = 0 /\ Over(t, -1)

(* bound: a setting fails, or signals come, not both *)
SignalsLeft == ~failed /\ \A u \in Threads : interrupts[u] < MaxSignals
MayFail == ~failed /\ \A u \in Threads : interrupts[u] = 0

(* A signal, and nothing has come yet: the call is made again with the     *)
(* timeout it had.                                                         *)
WaitInterrupted(t) ==
    /\ pc[t] = "wait" /\ Now(t) = 0
    /\ Goto(t, "again")
    /\ UNCHANGED <<link, avail, call, result, moved>>

(* A signal, and a part has: the call returns with it. *)
PartInterrupted(t) == pc[t] = "wait" /\ Now(t) > 0 /\ Got(t, Now(t))

Signal(t) ==
    /\ \/ /\ SignalsLeft
          /\ interrupts' = [interrupts EXCEPT ![t] = @ + 1]
          /\ SelectInterrupted(t) \/ WaitInterrupted(t)
       \/ PartInterrupted(t) /\ UNCHANGED interrupts
    /\ UNCHANGED <<nonblock, timeo, history, asked, elapsed>>

(* Mutant of FlagsRestored: they are left as they are. *)
FlagsKept(t) == nonblock

(* The flags as they were, which readn_to_ms leaves alone when it did not  *)
(* change them, and then the timeout.                                      *)
FlagsRestored(t) ==
    IF t \in Writers \/ sockflag[t] THEN sockflag[t] ELSE nonblock

Restore(t) ==
    /\ pc[t] = "restore"
    /\ nonblock' = FlagsRestored(t)
    /\ timeo' = [timeo EXCEPT ![Dir(t)] = Forever]
    /\ Goto(t, "return")
    /\ UNCHANGED <<link, avail, call, result, history, measures>>

(* A setsockopt or fcntl that fails ends the call there and then. *)
SettingFails(t) ==
    /\ MayFail
    /\ \/ pc[t] \in {"getfl", "clear", "settimeo", "restore"} /\ UNCHANGED nonblock
       \/ pc[t] = "restore" /\ nonblock' = FlagsRestored(t)
    /\ Finish(t, -1, "return")
    /\ failed' = TRUE
    /\ UNCHANGED <<link, timeo, avail, call, nonblock0, overlapped, measures>>
-----------------------------------------------------------------------------
(* Nothing to do but wait. *)
Waiting(t) ==
    \/ pc[t] = "select" /\ link = "pending" /\ left[t] > 0
    \/ /\ pc[t] = "wait" /\ left[t] > 0
       /\ Now(t) < Rest(t) /\ ~Dead /\ ~AtEnd(t)

Timed(t) == Waiting(t) /\ asked[t] # Forever

Tick ==
    /\ \A t \in Threads : pc[t] = "idle" \/ Waiting(t)
    /\ \E t \in Threads : Timed(t)
    /\ left' = [t \in Threads |-> IF Timed(t) THEN left[t] - 1 ELSE left[t]]
    /\ used' = [t \in Threads |-> IF Timed(t) THEN used[t] + 1 ELSE used[t]]
    /\ elapsed' = [t \in Threads |-> IF Timed(t) THEN elapsed[t] + 1
                                                 ELSE elapsed[t]]
    /\ UNCHANGED <<socket, pc, want, done, msecs, sockflag, result,
                   history, asked, moved, interrupts>>

Continue(t) ==
    \/ Select(t) \/ ConnectDone(t)
    \/ GetSettings(t) \/ ClearNonblock(t) \/ SetTimeout(t) \/ Again(t)
    \/ Wakeup(t)
    \/ Restore(t) \/ SettingFails(t)
    \/ Leave(t)

Next ==
    \/ Network
    \/ \E t \in Threads, m \in Waits : Connect(t, m)
    \/ NewSocket
    \/ \E t \in Threads, n \in Sizes, m \in Waits : Ready(t, n, m)
    \/ \E t \in Threads : Continue(t) \/ Signal(t)
    \/ Tick

Spec == Init /\ [][Next]_vars

(* Time passes, and a thread that can go on does; nobody has to call, and  *)
(* nothing has to arrive.                                                  *)
FairSpec ==
    /\ Spec
    /\ SF_vars(Tick)
    /\ \A t \in Threads : WF_vars(Continue(t))
-----------------------------------------------------------------------------
(* Type correctness of the socket and of the calls. *)
TypeOK ==
    /\ link \in {"new", "pending", "up", "refused", "fin", "reset", "closed"}
    /\ nonblock \in BOOLEAN
    /\ timeo \in [Dirs -> 1..Forever]
    /\ avail["recv"] \in 0..Data /\ avail["send"] \in 0..Room
    /\ pc \in [Threads -> {"idle", "select", "undo", "getfl", "clear",
                "settimeo", "wait", "again", "restore", "return"}]
    /\ \A t \in Threads :
          /\ want[t] \in Sizes \union {0} /\ done[t] \in 0..want[t]
          /\ msecs[t] \in 0..asked[t] /\ left[t] \in 0..Forever
          /\ result[t] \in Sizes \union {-1, 0}

(* After the last call the socket is as the application configured it.     *)
(* The timeouts come back whatever the two directions do at once; but      *)
(* O_NONBLOCK is one flag for both, and a call that found it cleared by    *)
(* the other clears it for good.  If a system call fails in between, none  *)
(* of it comes back.                                                       *)
SettingsComeBack ==
    (\A t \in Threads : pc[t] \in {"idle", "return"}) /\ ~failed
       => /\ \A d \in Dirs : timeo[d] = Forever
          /\ ~overlapped \/ ~nonblock0 => nonblock = nonblock0

(* A call that gives up on a healthy connection has waited as long as it   *)
(* was asked to: a signal does not cut the time short, and neither does a  *)
(* part of the data.  (The other direction does, by setting O_NONBLOCK     *)
(* while this one waits for its turn.)                                     *)
TimeoutNotEarly ==
    \A t \in Threads :
       pc[t] = "return" /\ result[t] = -1 /\ link \in {"up", "fin"}
          => elapsed[t] >= asked[t] \/ overlapped \/ failed

(* No call takes longer than it was asked to, except that a signal before  *)
(* any data makes it start over: the time is subtracted between parts of   *)
(* the data but not between restarts.                                      *)
DeadlineBound ==
    \A t \in Threads :
       asked[t] # Forever => elapsed[t] <= asked[t] * (1 + interrupts[t])

(* What a call returns is true.  Bytes: all it was asked for, or 0 at the  *)
(* end of the stream, or -1; a positive count is what was moved, nothing   *)
(* twice and nothing left out.  (With 0 and -1 a part may have been moved, *)
(* and is lost.)  A connect that succeeds has a connection, unless a       *)
(* signal hit it.                                                          *)
ResultsAreTrue ==
    \A t \in Threads :
       pc[t] = "return" =>
          /\ result[t] > 0 => result[t] = want[t] /\ moved[t] = want[t]
          /\ result[t] = 0 /\ want[t] > 0 => t \in Readers /\ link \in {"fin", "reset"}
          /\ result[t] = 0 /\ want[t] = 0
                => link \in {"up", "fin", "reset"} \/ interrupts[t] > 0

(* A call with a time limit returns, whatever the peer does. *)
CallsReturn ==
    \A t \in Threads :
       pc[t] # "idle" /\ asked[t] # Forever ~> pc[t] = "idle"
=============================================================================
