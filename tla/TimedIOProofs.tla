----------------------------- MODULE TimedIOProofs -----------------------------
(***************************************************************************)
(* Proofs about TimedIO, for any threads, limits, sizes and buffer of the  *)
(* socket, with one thread at most in each direction.  IInv is             *)
(* inductive; each of its parts has a lemma per action, or one for all the *)
(* steps that leave alone what it speaks of.                               *)
(***************************************************************************)
EXTENDS TimedIO, TLAPS

(* The inductive invariant behind the safety properties.                   *)
Working == {"getfl", "clear", "settimeo", "wait", "again"}
Connecting == {"select", "undo"}
Changed == {"settimeo", "wait", "again", "restore"}   \* timeo may be its own

CallTypes ==
    /\ want \in [Threads -> Nat] /\ done \in [Threads -> Nat]
    /\ msecs \in [Threads -> Nat] /\ left \in [Threads -> Nat]
    /\ used \in [Threads -> Nat] /\ asked \in [Threads -> 0..Forever]
    /\ elapsed \in [Threads -> Nat] /\ moved \in [Threads -> Nat]
    /\ interrupts \in [Threads -> Nat] /\ result \in [Threads -> Int]
    /\ sockflag \in [Threads -> BOOLEAN] /\ avail \in [Dirs -> Nat]
    /\ {nonblock0, overlapped, failed} \subseteq BOOLEAN

(* Who may be in a call: nobody on a new socket, a connecting thread alone,*)
(* and one at a time until calls have overlapped.                          *)
WhoCalls ==
    /\ link = "new" =>
          ~failed /\ ~overlapped /\ \A t \in Threads : pc[t] = "idle"
    /\ \A t \in Threads : pc[t] \in Connecting =>
          link \notin {"new", "closed"} /\ ~failed /\ ~overlapped
    /\ ~overlapped => \A t, u \in Threads :
          t # u => pc[t] = "idle" \/ pc[u] = "idle"

(* The counters of a call that goes on agree.                              *)
BytesCounted ==
    \A t \in Threads :
       /\ pc[t] = "idle" => want[t] = 0 /\ done[t] = 0 /\ result[t] = 0
       /\ pc[t] \in Working =>
             want[t] > 0 /\ done[t] < want[t] /\ moved[t] = done[t]
       /\ pc[t] \in Connecting => want[t] = 0 /\ result[t] \in {0, -1}
       /\ pc[t] = "restore" => want[t] > 0

(* The longest a call may take: a restart gives it all its time again.     *)
Budget(t) == asked[t] * (1 + interrupts[t])

(* What is left of the time is what was asked for less what has passed,    *)
(* but for the part of the wait that is under way.                         *)
TimeCounted ==
    \A t \in Threads :
       /\ elapsed[t] <= Budget(t)
       /\ asked[t] = Forever => elapsed[t] = 0 /\ used[t] = 0
       /\ pc[t] = "idle" => /\ asked[t] = 0 /\ elapsed[t] = 0 /\ used[t] = 0
                            /\ interrupts[t] = 0
       /\ pc[t] = "select" => elapsed[t] + left[t] = asked[t]
       /\ pc[t] \in {"getfl", "clear", "settimeo"} =>
             msecs[t] > 0 /\ elapsed[t] + msecs[t] = asked[t]
       /\ pc[t] \in {"wait", "again"} =>
             /\ msecs[t] > 0 /\ elapsed[t] + msecs[t] = asked[t] + used[t]
             /\ timeo[Dir(t)] = msecs[t]
       /\ pc[t] = "wait" => elapsed[t] + left[t] <= Budget(t)
       /\ pc[t] = "again" => elapsed[t] + asked[t] <= Budget(t)

(* Where the settings of the socket are while calls are under way.         *)
SettingsKnown ==
    ~failed =>
       /\ \A d \in Dirs : timeo[d] # Forever =>
             \E t \in Threads : Dir(t) = d /\ pc[t] \in Changed
       /\ ~overlapped \/ ~nonblock0 =>
             /\ \A t \in Threads :
                   /\ pc[t] \in Changed \union Connecting \union {"clear"} =>
                         sockflag[t] = nonblock0
                   /\ pc[t] \in Changed => ~nonblock
             /\ (\A t \in Threads : pc[t] \notin Changed \union Connecting) =>
                   nonblock = nonblock0

(* A call that nobody disturbs does not give up before its time. *)
WaitsLongEnough ==
    \A t \in Threads :
       pc[t] = "wait" /\ ~overlapped /\ ~failed => left[t] + used[t] >= msecs[t]

(* What a call is about to return is true. *)
ResultsKnown ==
    \A t \in Threads :
       /\ pc[t] \in {"restore", "return"} =>
             /\ result[t] > 0 => result[t] = want[t] /\ moved[t] = want[t]
             /\ result[t] = 0 /\ want[t] > 0 =>
                   t \in Readers /\ link \in {"fin", "reset"}
             /\ result[t] = -1 /\ link \notin {"refused", "reset", "closed"} =>
                   elapsed[t] >= asked[t] \/ overlapped \/ failed
       /\ pc[t] \in {"undo", "return"} /\ result[t] = 0 /\ want[t] = 0 =>
             link \in {"up", "fin", "reset"} \/ interrupts[t] > 0

IInv ==
    /\ TypeOK
    /\ CallTypes
    /\ WhoCalls
    /\ BytesCounted
    /\ TimeCounted
    /\ SettingsKnown
    /\ WaitsLongEnough
    /\ ResultsKnown

LEMMA ConstantFacts ==
    /\ Room \in Nat /\ Room > 0 /\ Data \in Nat /\ Data > 0
    /\ Forever \in Nat /\ Forever > 0
    /\ \A m \in Waits : m \in 0..Forever
    /\ \A n \in Sizes : n \in Nat /\ n > 0
    /\ \A t \in Threads : Dir(t) \in Dirs
    /\ \A t, u \in Threads : Dir(t) = Dir(u) => t = u
<1>. QED
  BY TimedIOAssumption, OneThreadEachWay DEF Dir, Dirs

LEMMA BudgetAtLeast == \A a, n \in Nat : a * (1 + n) \in Nat /\ a * (1 + n) >= a
<1>. SUFFICES ASSUME NEW a \in Nat, NEW n \in Nat
              PROVE  a * (1 + n) \in Nat /\ a * (1 + n) >= a
  OBVIOUS
<1>1. a * (1 + n) = a + a * n /\ a * n \in Nat
  OBVIOUS
<1>. QED
  BY <1>1

LEMMA BudgetBounds ==
    ASSUME CallTypes
    PROVE  \A t \in Threads : Budget(t) \in Nat /\ Budget(t) >= asked[t]
<1>. QED
  BY DEF CallTypes, Budget

LEMMA BudgetGrows ==
    ASSUME CallTypes, NEW t \in Threads, asked' = asked,
           interrupts' = [interrupts EXCEPT ![t] = @ + 1]
    PROVE  /\ Budget(t)' = Budget(t) + asked[t]
           /\ \A u \in Threads \ {t} : Budget(u)' = Budget(u)
<1>1. interrupts'[t] = interrupts[t] + 1
      /\ \A u \in Threads \ {t} : interrupts'[u] = interrupts[u]
  BY DEF CallTypes
<1>2. asked[t] \in Nat /\ interrupts[t] \in Nat
  BY ConstantFacts DEF CallTypes
<1>3. asked[t] * (1 + (interrupts[t] + 1))
         = asked[t] * (1 + interrupts[t]) + asked[t]
  BY <1>2
<1>. QED
  BY <1>1, <1>3 DEF Budget

LEMMA BecomesTypes ==
    ASSUME TypeOK, CallTypes, NEW s, Becomes(s)
    PROVE  /\ link' = s
           /\ avail' \in [Dirs -> Nat]
           /\ avail'["recv"] \in 0..Data /\ avail'["send"] \in 0..Room
<1>. QED
  BY ConstantFacts DEF Becomes, TypeOK, CallTypes, Dirs

(* The network and the peer. *)
LEMMA NetworkIInv ==
    ASSUME IInv, Network
    PROVE  IInv'
<1>. USE DEF IInv, socket, call, history, measures
<1>1. /\ \A u \in Threads : Budget(u) \in Nat /\ Budget(u) >= asked[u]
      /\ \A u \in Threads : Dir(u) \in Dirs
      /\ Room \in Nat /\ Data \in Nat /\ Forever \in Nat /\ Forever > 0
  BY BudgetBounds, ConstantFacts
<1>. DEFINE Step ==
      /\ link' \in {"up", "refused", "fin", "reset"}
      /\ avail' \in [Dirs -> Nat]
      /\ avail'["recv"] \in 0..Data /\ avail'["send"] \in 0..Room
      /\ link' = link \/ link' \in {"fin", "reset"} \/ link = "pending"
<1>0. Step
  <2>1. CASE link = "up" /\ avail["recv"] < Data
             /\ avail' = [avail EXCEPT !["recv"] = @ + 1] /\ UNCHANGED link
    BY <1>1, <2>1 DEF TypeOK, CallTypes, Dirs
  <2>2. CASE link \in {"up", "fin"} /\ avail["send"] < Room
             /\ avail' = [avail EXCEPT !["send"] = @ + 1] /\ UNCHANGED link
    BY <1>1, <2>2 DEF TypeOK, CallTypes, Dirs
  <2>3. ASSUME NEW s \in {"up", "refused", "fin", "reset"}, Becomes(s),
               link = "pending" \/ s \in {"fin", "reset"}
        PROVE  Step
    BY <2>3, BecomesTypes
  <2>. QED
    BY <2>1, <2>2, <2>3 DEF Network
<1>2. TypeOK'
  BY <1>0 DEF Network, TypeOK
<1>3. CallTypes'
  BY <1>0 DEF Network, CallTypes
<1>4. WhoCalls'
  BY <1>0 DEF Network, WhoCalls
<1>5. BytesCounted'
  BY DEF Network, BytesCounted
<1>6. TimeCounted'
  BY DEF Network, TimeCounted, Budget
<1>7. SettingsKnown'
  BY DEF Network, SettingsKnown
<1>8. WaitsLongEnough'
  BY DEF Network, WaitsLongEnough
<1>9. ResultsKnown'
  BY <1>0 DEF Network, ResultsKnown
<1>. QED
  BY <1>2, <1>3, <1>4, <1>5, <1>6, <1>7, <1>8, <1>9

(* net_connect_to_tv begins. *)
LEMMA ConnectIInv ==
    ASSUME IInv, NEW t \in Threads, NEW m \in Waits, Connect(t, m)
    PROVE  IInv'
<1>. USE DEF IInv, socket, call, history, measures
<1>1. /\ \A u \in Threads : Budget(u) \in Nat /\ Budget(u) >= asked[u]
      /\ \A u \in Threads : Dir(u) \in Dirs
      /\ Room \in Nat /\ Data \in Nat /\ Forever \in Nat /\ Forever > 0
  BY BudgetBounds, ConstantFacts
<1>. DEFINE n == IF m = 0 THEN Forever ELSE m
<1>0. /\ n \in 1..Forever
      /\ link = "new" /\ pc[t] = "idle"
      /\ link' \in {"up", "refused", "pending"}
      /\ avail' \in [Dirs -> Nat]
      /\ avail'["recv"] \in 0..Data /\ avail'["send"] \in 0..Room
      /\ pc' = [pc EXCEPT ![t] = IF link' = "pending" THEN "select" ELSE "undo"]
      /\ \/ link' = "up" /\ result' = [result EXCEPT ![t] = 0]
         \/ link' = "refused" /\ result' = [result EXCEPT ![t] = -1]
         \/ link' = "pending" /\ result' = result
      /\ nonblock' = TRUE /\ sockflag' = [sockflag EXCEPT ![t] = nonblock]
      /\ asked' = [asked EXCEPT ![t] = n] /\ msecs' = [msecs EXCEPT ![t] = n]
      /\ left' = [left EXCEPT ![t] = n]
      /\ done' = [done EXCEPT ![t] = 0] /\ moved' = [moved EXCEPT ![t] = 0]
      /\ UNCHANGED <<timeo, want, used, history, elapsed, interrupts>>
  <2>1. n \in 1..Forever
    BY ConstantFacts
  <2>2. \A s : Becomes(s) =>
          /\ link' = s
          /\ avail' \in [Dirs -> Nat]
          /\ avail'["recv"] \in 0..Data /\ avail'["send"] \in 0..Room
    BY BecomesTypes
  <2>3. msecs' = [msecs EXCEPT ![t] = n] /\ msecs'[t] = n
    BY DEF Connect, Enter, CallTypes
  <2>4. /\ link = "new" /\ pc[t] = "idle"
        /\ nonblock' = TRUE /\ sockflag' = [sockflag EXCEPT ![t] = nonblock]
        /\ asked' = [asked EXCEPT ![t] = n]
        /\ left' = [left EXCEPT ![t] = n]
        /\ done' = [done EXCEPT ![t] = 0] /\ moved' = [moved EXCEPT ![t] = 0]
        /\ UNCHANGED <<timeo, want, used, history, elapsed, interrupts>>
    BY <2>3 DEF Connect, Enter, SetFdNoblock
  <2>5. \/ Becomes("up") /\ Finish(t, 0, "undo")
        \/ Becomes("refused") /\ Finish(t, -1, "undo")
        \/ Becomes("pending") /\ Goto(t, "select") /\ UNCHANGED result
    BY DEF Connect
  <2>. HIDE DEF n
  <2>. QED
    BY <2>1, <2>2, <2>3, <2>4, <2>5 DEF Finish, Goto
<1>. HIDE DEF n
<1>2. TypeOK'
  BY <1>0 DEF TypeOK, CallTypes
<1>3. CallTypes'
  BY <1>0 DEF TypeOK, CallTypes
<1>4. WhoCalls'
  BY <1>0 DEF WhoCalls
<1>5. BytesCounted'
  BY <1>0 DEF TypeOK, CallTypes, BytesCounted, Working
<1>6. TimeCounted'
  BY <1>0 DEF TypeOK, CallTypes, TimeCounted, Budget
<1>7. SettingsKnown'
  BY <1>0 DEF TypeOK, CallTypes, WhoCalls, SettingsKnown, Changed, Connecting
<1>8. WaitsLongEnough'
  BY <1>0 DEF WaitsLongEnough
<1>9. ResultsKnown'
  BY <1>0 DEF CallTypes, ResultsKnown
<1>. QED
  BY <1>2, <1>3, <1>4, <1>5, <1>6, <1>7, <1>8, <1>9

(* A new socket. *)
LEMMA NewSocketIInv ==
    ASSUME IInv, NewSocket
    PROVE  IInv'
<1>. USE DEF IInv, socket, call, history, measures
<1>1. /\ \A u \in Threads : Budget(u) \in Nat /\ Budget(u) >= asked[u]
      /\ \A u \in Threads : Dir(u) \in Dirs
      /\ Room \in Nat /\ Data \in Nat /\ Forever \in Nat /\ Forever > 0
  BY BudgetBounds, ConstantFacts
<1>2. TypeOK'
  <2>1. /\ timeo' = [d \in Dirs |-> Forever] /\ timeo' \in [Dirs -> 1..Forever]
        /\ avail' = [d \in Dirs |-> 0] /\ "recv" \in Dirs /\ "send" \in Dirs
    BY <1>1 DEF NewSocket, Dirs
  <2>2. avail'["recv"] \in 0..Data /\ avail'["send"] \in 0..Room
    BY <1>1, <2>1
  <2>3. /\ link' = "new" /\ nonblock' \in BOOLEAN
        /\ UNCHANGED <<pc, call, result, asked>>
    BY DEF NewSocket, CallTypes
  <2>. QED
    BY <2>1, <2>2, <2>3 DEF TypeOK
<1>3. CallTypes'
  BY DEF NewSocket, CallTypes
<1>4. WhoCalls'
  BY DEF NewSocket, WhoCalls, Connecting
<1>5. BytesCounted'
  BY DEF NewSocket, BytesCounted
<1>6. TimeCounted'
  BY DEF NewSocket, TimeCounted, Budget
<1>7. SettingsKnown'
  BY DEF NewSocket, SettingsKnown, Changed, Connecting
<1>8. WaitsLongEnough'
  BY DEF NewSocket, WaitsLongEnough
<1>9. ResultsKnown'
  BY DEF NewSocket, ResultsKnown
<1>. QED
  BY <1>2, <1>3, <1>4, <1>5, <1>6, <1>7, <1>8, <1>9

(* readn_to_ms and sendn_to_ms begin. *)
LEMMA ReadyIInv ==
    ASSUME IInv, NEW t \in Threads, NEW n \in Sizes, NEW m \in Waits,
           Ready(t, n, m)
    PROVE  IInv'
<1>. USE DEF IInv, socket, call, history, measures
<1>1. /\ \A u \in Threads : Budget(u) \in Nat /\ Budget(u) >= asked[u]
      /\ \A u \in Threads : Dir(u) \in Dirs
      /\ Room \in Nat /\ Data \in Nat /\ Forever \in Nat /\ Forever > 0
  BY BudgetBounds, ConstantFacts
<1>. DEFINE k == Smaller(n, avail[Dir(t)])
            end == link = "fin" /\ k = 0 /\ t \in Readers
<1>0. /\ n \in Nat /\ n > 0 /\ m \in 0..Forever
      /\ k \in Nat /\ k <= n /\ avail[Dir(t)] - k \in 0..avail[Dir(t)]
      /\ avail' = [avail EXCEPT ![Dir(t)] = @ - k]
      /\ link \notin {"new", "closed"} /\ ~failed /\ pc[t] = "idle"
      /\ \A u \in Threads : pc[u] \notin {"select", "undo"}
      /\ asked' = [asked EXCEPT ![t] = m] /\ msecs' = [msecs EXCEPT ![t] = m]
      /\ done' = [done EXCEPT ![t] = k] /\ moved' = [moved EXCEPT ![t] = k]
      /\ want' = [want EXCEPT ![t] = n]
      /\ \/ /\ Dead /\ pc' = [pc EXCEPT ![t] = "return"]
            /\ result' = [result EXCEPT ![t] = -1]
         \/ /\ ~Dead /\ (k = n \/ end) /\ pc' = [pc EXCEPT ![t] = "return"]
            /\ result' = [result EXCEPT ![t] = k]
         \/ /\ ~Dead /\ k < n /\ m = 0 /\ pc' = [pc EXCEPT ![t] = "return"]
            /\ result' = [result EXCEPT ![t] = -1]
         \/ /\ ~Dead /\ k < n /\ m > 0 /\ pc' = [pc EXCEPT ![t] = "getfl"]
            /\ result' = result
      /\ overlapped' = (overlapped \/ \E u \in Threads \ {t} : pc[u] # "idle")
      /\ UNCHANGED <<link, nonblock, timeo, sockflag, used, left, elapsed,
                     interrupts, nonblock0, failed>>
  <2>1. n \in Nat /\ n > 0 /\ m \in 0..Forever
    BY ConstantFacts
  <2>2. avail[Dir(t)] \in Nat
    BY <1>1 DEF CallTypes
  <2>3. k \in Nat /\ k <= n /\ avail[Dir(t)] - k \in 0..avail[Dir(t)]
    BY <2>1, <2>2 DEF Smaller
  <2>. HIDE DEF k
  <2>. QED
    BY <2>1, <2>3 DEF Ready, Enter, Finish, Goto, k
<1>. HIDE DEF k
<1>2. TypeOK'
  BY <1>0, <1>1 DEF TypeOK, CallTypes
<1>3. CallTypes'
  BY <1>0, <1>1 DEF CallTypes
<1>4. WhoCalls'
  BY <1>0 DEF TypeOK, WhoCalls, Connecting
<1>5. BytesCounted'
  BY <1>0 DEF TypeOK, CallTypes, BytesCounted, Working, Connecting
<1>6. TimeCounted'
  <2>1. /\ asked'[t] = m /\ interrupts'[t] = 0 /\ elapsed'[t] = 0 /\ used'[t] = 0
        /\ msecs'[t] = m /\ pc'[t] \in {"return", "getfl"}
        /\ pc'[t] = "getfl" => m > 0
    BY <1>0 DEF CallTypes, TypeOK, TimeCounted
  <2>2. Budget(t)' \in Nat
    BY <1>0, <2>1 DEF Budget
  <2>3. \A u \in Threads \ {t} : Budget(u)' = Budget(u)
    BY <1>0 DEF Budget, CallTypes
  <2>. QED
    BY <1>0, <2>1, <2>2, <2>3 DEF TimeCounted, TypeOK
<1>7. SettingsKnown'
  BY <1>0 DEF TypeOK, CallTypes, SettingsKnown, Changed, Connecting
<1>8. WaitsLongEnough'
  BY <1>0 DEF TypeOK, WaitsLongEnough
<1>9. ResultsKnown'
  BY <1>0 DEF Dead, TypeOK, CallTypes, ResultsKnown
<1>. QED
  BY <1>2, <1>3, <1>4, <1>5, <1>6, <1>7, <1>8, <1>9

(* select returns. *)
LEMMA SelectIInv ==
    ASSUME IInv, NEW t \in Threads, Select(t)
    PROVE  IInv'
<1>. USE DEF IInv, socket, call, history, measures
<1>1. /\ \A u \in Threads : Budget(u) \in Nat /\ Budget(u) >= asked[u]
      /\ \A u \in Threads : Dir(u) \in Dirs
      /\ Room \in Nat /\ Data \in Nat /\ Forever \in Nat /\ Forever > 0
  BY BudgetBounds, ConstantFacts
<1>2. TypeOK'
  BY DEF Select, Finish, Goto, TypeOK, CallTypes
<1>3. CallTypes'
  BY DEF Select, Finish, CallTypes
<1>4. WhoCalls'
  BY DEF Select, Finish, Goto, TypeOK, WhoCalls, Connecting
<1>5. BytesCounted'
  BY DEF Select, Finish, Goto, TypeOK, CallTypes, BytesCounted, Working,
         Connecting
<1>6. TimeCounted'
  BY DEF Select, Finish, Goto, TypeOK, TimeCounted, Budget
<1>7. SettingsKnown'
  BY DEF Select, Finish, Goto, TypeOK, SettingsKnown, Changed, Connecting
<1>8. WaitsLongEnough'
  BY DEF Select, Finish, Goto, TypeOK, WaitsLongEnough
<1>9. ResultsKnown'
  BY DEF Select, Finish, Goto, Dead, TypeOK, CallTypes, WhoCalls, Connecting,
         ResultsKnown
<1>. QED
  BY <1>2, <1>3, <1>4, <1>5, <1>6, <1>7, <1>8, <1>9

(* net_connect_to_tv ends. *)
LEMMA ConnectDoneIInv ==
    ASSUME IInv, NEW t \in Threads, ConnectDone(t)
    PROVE  IInv'
<1>. USE DEF IInv, socket, call, history, measures
<1>1. /\ \A u \in Threads : Budget(u) \in Nat /\ Budget(u) >= asked[u]
      /\ \A u \in Threads : Dir(u) \in Dirs
      /\ Room \in Nat /\ Data \in Nat /\ Forever \in Nat /\ Forever > 0
  BY BudgetBounds, ConstantFacts
<1>0. /\ pc[t] = "undo" /\ pc' = [pc EXCEPT ![t] = "return"]
      /\ nonblock' = sockflag[t]
      /\ IF result[t] = -1 THEN link' = "closed" ELSE link' = link
      /\ avail' \in [Dirs -> Nat]
      /\ avail'["recv"] \in 0..Data /\ avail'["send"] \in 0..Room
      /\ UNCHANGED <<timeo, call, result, history, measures>>
  BY BecomesTypes DEF ConnectDone, Goto, TypeOK, CallTypes
<1>2. TypeOK'
  BY <1>0 DEF TypeOK, CallTypes
<1>3. CallTypes'
  BY <1>0 DEF CallTypes
<1>4. WhoCalls'
  BY <1>0 DEF TypeOK, WhoCalls, Connecting
<1>5. BytesCounted'
  BY <1>0 DEF BytesCounted, Working, Connecting
<1>6. TimeCounted'
  BY <1>0 DEF TimeCounted, Budget
<1>7. SettingsKnown'
  BY <1>0 DEF WhoCalls, SettingsKnown, Changed, Connecting
<1>8. WaitsLongEnough'
  BY <1>0 DEF WaitsLongEnough
<1>9. ResultsKnown'
  BY <1>0 DEF WhoCalls, BytesCounted, Connecting, ResultsKnown
<1>. QED
  BY <1>2, <1>3, <1>4, <1>5, <1>6, <1>7, <1>8, <1>9

LEMMA GetSettingsIInv ==
    ASSUME IInv, NEW t \in Threads, GetSettings(t)
    PROVE  IInv'
<1>. USE DEF IInv, socket, call, history, measures
<1>1. /\ \A u \in Threads : Budget(u) \in Nat /\ Budget(u) >= asked[u]
      /\ \A u \in Threads : Dir(u) \in Dirs
      /\ Room \in Nat /\ Data \in Nat /\ Forever \in Nat /\ Forever > 0
  BY BudgetBounds, ConstantFacts
<1>2. TypeOK'
  BY DEF GetSettings, Goto, TypeOK
<1>3. CallTypes'
  BY DEF GetSettings, TypeOK, CallTypes
<1>4. WhoCalls'
  BY DEF GetSettings, Goto, WhoCalls, Connecting
<1>5. BytesCounted'
  BY DEF GetSettings, Goto, BytesCounted, Working, Connecting
<1>6. TimeCounted'
  BY DEF GetSettings, Goto, TimeCounted, Budget
<1>7. SettingsKnown'
  BY DEF GetSettings, Goto, TypeOK, CallTypes, WhoCalls, SettingsKnown,
         Changed, Connecting
<1>8. WaitsLongEnough'
  BY DEF GetSettings, Goto, WaitsLongEnough
<1>9. ResultsKnown'
  BY DEF GetSettings, Goto, ResultsKnown
<1>. QED
  BY <1>2, <1>3, <1>4, <1>5, <1>6, <1>7, <1>8, <1>9

LEMMA ClearNonblockIInv ==
    ASSUME IInv, NEW t \in Threads, ClearNonblock(t)
    PROVE  IInv'
<1>. USE DEF IInv, socket, call, history, measures
<1>1. /\ \A u \in Threads : Budget(u) \in Nat /\ Budget(u) >= asked[u]
      /\ \A u \in Threads : Dir(u) \in Dirs
      /\ Room \in Nat /\ Data \in Nat /\ Forever \in Nat /\ Forever > 0
  BY BudgetBounds, ConstantFacts
<1>2. TypeOK'
  BY DEF ClearNonblock, Goto, TypeOK
<1>3. CallTypes'
  BY DEF ClearNonblock, CallTypes
<1>4. WhoCalls'
  BY DEF ClearNonblock, Goto, WhoCalls, Connecting
<1>5. BytesCounted'
  BY DEF ClearNonblock, Goto, BytesCounted, Working, Connecting
<1>6. TimeCounted'
  BY DEF ClearNonblock, Goto, TimeCounted, Budget
<1>7. SettingsKnown'
  BY DEF ClearNonblock, Goto, TypeOK, SettingsKnown, Changed
<1>8. WaitsLongEnough'
  BY DEF ClearNonblock, Goto, WaitsLongEnough
<1>9. ResultsKnown'
  BY DEF ClearNonblock, Goto, ResultsKnown
<1>. QED
  BY <1>2, <1>3, <1>4, <1>5, <1>6, <1>7, <1>8, <1>9

LEMMA SetTimeoutIInv ==
    ASSUME IInv, NEW t \in Threads, SetTimeout(t)
    PROVE  IInv'
<1>. USE DEF IInv, socket, call, history, measures
<1>1. /\ \A u \in Threads : Budget(u) \in Nat /\ Budget(u) >= asked[u]
      /\ \A u \in Threads : Dir(u) \in Dirs
      /\ Room \in Nat /\ Data \in Nat /\ Forever \in Nat /\ Forever > 0
  BY BudgetBounds, ConstantFacts
<1>2. TypeOK'
  BY ConstantFacts
     DEF SetTimeout, Goto, Patience, TypeOK, CallTypes, TimeCounted
<1>3. CallTypes'
  BY DEF SetTimeout, Patience, CallTypes
<1>4. WhoCalls'
  BY DEF SetTimeout, Goto, WhoCalls, Connecting
<1>5. BytesCounted'
  BY DEF SetTimeout, Goto, BytesCounted, Working, Connecting
<1>6. TimeCounted'
  BY ConstantFacts
     DEF SetTimeout, Goto, Patience, TypeOK, CallTypes, TimeCounted, Budget
<1>7. SettingsKnown'
  BY DEF SetTimeout, Goto, SettingsKnown, Changed
<1>8. WaitsLongEnough'
  BY DEF SetTimeout, Patience, TypeOK, CallTypes, WhoCalls, WaitsLongEnough,
         TimeCounted, SettingsKnown, Changed
<1>9. ResultsKnown'
  BY DEF SetTimeout, Goto, ResultsKnown
<1>. QED
  BY <1>2, <1>3, <1>4, <1>5, <1>6, <1>7, <1>8, <1>9

LEMMA AgainIInv ==
    ASSUME IInv, NEW t \in Threads, Again(t)
    PROVE  IInv'
<1>. USE DEF IInv, socket, call, history, measures
<1>1. /\ \A u \in Threads : Budget(u) \in Nat /\ Budget(u) >= asked[u]
      /\ \A u \in Threads : Dir(u) \in Dirs
      /\ Room \in Nat /\ Data \in Nat /\ Forever \in Nat /\ Forever > 0
  BY BudgetBounds, ConstantFacts
<1>2. TypeOK'
  BY ConstantFacts DEF Again, Goto, Patience, TypeOK
<1>3. CallTypes'
  BY ConstantFacts DEF Again, Patience, TypeOK, CallTypes
<1>4. WhoCalls'
  BY DEF Again, Goto, WhoCalls, Connecting
<1>5. BytesCounted'
  BY DEF Again, Goto, BytesCounted, Working, Connecting
<1>6. TimeCounted'
  BY DEF Again, Goto, Patience, TypeOK, CallTypes, TimeCounted, Budget
<1>7. SettingsKnown'
  BY DEF Again, Goto, SettingsKnown, Changed
<1>8. WaitsLongEnough'
  BY DEF Again, Patience, TypeOK, CallTypes, WhoCalls, WaitsLongEnough,
         TimeCounted, SettingsKnown, Changed
<1>9. ResultsKnown'
  BY DEF Again, Goto, ResultsKnown
<1>. QED
  BY <1>2, <1>3, <1>4, <1>5, <1>6, <1>7, <1>8, <1>9

LEMMA RestoreIInv ==
    ASSUME IInv, NEW t \in Threads, Restore(t)
    PROVE  IInv'
<1>. USE DEF IInv, socket, call, history, measures
<1>1. /\ \A u \in Threads : Budget(u) \in Nat /\ Budget(u) >= asked[u]
      /\ \A u \in Threads : Dir(u) \in Dirs
      /\ Room \in Nat /\ Data \in Nat /\ Forever \in Nat /\ Forever > 0
  BY BudgetBounds, ConstantFacts
<1>2. TypeOK'
  BY ConstantFacts DEF Restore, Goto, FlagsRestored, TypeOK, CallTypes
<1>3. CallTypes'
  BY DEF Restore, CallTypes
<1>4. WhoCalls'
  BY DEF Restore, Goto, WhoCalls, Connecting
<1>5. BytesCounted'
  BY DEF Restore, Goto, BytesCounted, Working, Connecting
<1>6. TimeCounted'
  BY ConstantFacts DEF Restore, Goto, TimeCounted, Budget
<1>7. SettingsKnown'
  BY <1>1, ConstantFacts
     DEF Restore, Goto, FlagsRestored, TypeOK, CallTypes, WhoCalls,
         SettingsKnown, Changed, Connecting
<1>8. WaitsLongEnough'
  BY DEF Restore, Goto, WaitsLongEnough
<1>9. ResultsKnown'
  BY DEF Restore, Goto, BytesCounted, ResultsKnown
<1>. QED
  BY <1>2, <1>3, <1>4, <1>5, <1>6, <1>7, <1>8, <1>9

LEMMA SettingFailsIInv ==
    ASSUME IInv, NEW t \in Threads, SettingFails(t)
    PROVE  IInv'
<1>. USE DEF IInv, socket, call, history, measures
<1>1. /\ \A u \in Threads : Budget(u) \in Nat /\ Budget(u) >= asked[u]
      /\ \A u \in Threads : Dir(u) \in Dirs
      /\ Room \in Nat /\ Data \in Nat /\ Forever \in Nat /\ Forever > 0
  BY BudgetBounds, ConstantFacts
<1>2. TypeOK'
  BY DEF SettingFails, Finish, Goto, FlagsRestored, TypeOK, CallTypes
<1>3. CallTypes'
  BY DEF SettingFails, Finish, CallTypes
<1>4. WhoCalls'
  BY DEF SettingFails, Finish, Goto, WhoCalls, Connecting
<1>5. BytesCounted'
  BY DEF SettingFails, Finish, Goto, BytesCounted, Working, Connecting
<1>6. TimeCounted'
  BY DEF SettingFails, Finish, Goto, TimeCounted, Budget
<1>7. SettingsKnown'
  BY DEF SettingFails, SettingsKnown
<1>8. WaitsLongEnough'
  BY DEF SettingFails, WaitsLongEnough
<1>9. ResultsKnown'
  BY DEF SettingFails, Finish, Goto, CallTypes, ResultsKnown
<1>. QED
  BY <1>2, <1>3, <1>4, <1>5, <1>6, <1>7, <1>8, <1>9

LEMMA LeaveIInv ==
    ASSUME IInv, NEW t \in Threads, Leave(t)
    PROVE  IInv'
<1>. USE DEF IInv, socket, call, history, measures
<1>1. /\ \A u \in Threads : Budget(u) \in Nat /\ Budget(u) >= asked[u]
      /\ \A u \in Threads : Dir(u) \in Dirs
      /\ Room \in Nat /\ Data \in Nat /\ Forever \in Nat /\ Forever > 0
  BY BudgetBounds, ConstantFacts
<1>2. TypeOK'
  BY ConstantFacts DEF Leave, Goto, TypeOK, CallTypes
<1>3. CallTypes'
  BY ConstantFacts DEF Leave, CallTypes
<1>4. WhoCalls'
  BY DEF Leave, Goto, AsConfigured, TypeOK, WhoCalls, Connecting
<1>5. BytesCounted'
  BY DEF Leave, Goto, CallTypes, BytesCounted, Working
<1>6. TimeCounted'
  BY DEF Leave, Goto, CallTypes, TimeCounted, Budget
<1>7. SettingsKnown'
  BY DEF Leave, Goto, AsConfigured, TypeOK, CallTypes, SettingsKnown,
         Changed, Connecting
<1>8. WaitsLongEnough'
  BY DEF Leave, AsConfigured, TypeOK, CallTypes, WhoCalls, WaitsLongEnough,
         TimeCounted
<1>9. ResultsKnown'
  BY DEF Leave, Goto, AsConfigured, TypeOK, CallTypes, ResultsKnown
<1>. QED
  BY <1>2, <1>3, <1>4, <1>5, <1>6, <1>7, <1>8, <1>9

LEMMA OverIInv ==
    ASSUME IInv, NEW t \in Threads, NEW r \in {0, -1},
           pc[t] = "wait", Over(t, r),
           r = 0 => AtEnd(t), r = -1 => left[t] = 0 \/ Dead,
           UNCHANGED <<nonblock, timeo, history, asked, elapsed, interrupts>>
    PROVE  IInv'
<1>. USE DEF IInv, socket, call, history, measures
<1>1. /\ \A u \in Threads : Budget(u) \in Nat /\ Budget(u) >= asked[u]
      /\ \A u \in Threads : Dir(u) \in Dirs
      /\ Room \in Nat /\ Data \in Nat /\ Forever \in Nat /\ Forever > 0
  BY BudgetBounds, ConstantFacts
<1>2. TypeOK'
  BY ConstantFacts DEF Over, Decided, Finish, Goto, TypeOK, CallTypes
<1>3. CallTypes'
  BY DEF Over, Decided, Finish, CallTypes
<1>4. WhoCalls'
  BY DEF Over, Decided, Finish, Goto, WhoCalls, Connecting
<1>5. BytesCounted'
  BY DEF Over, Decided, Finish, Goto, TypeOK, BytesCounted, Working,
         Connecting
<1>6. TimeCounted'
  BY DEF Over, Decided, Finish, Goto, TypeOK, TimeCounted, Budget
<1>7. SettingsKnown'
  BY DEF Over, Decided, Finish, Goto, SettingsKnown, Changed
<1>8. WaitsLongEnough'
  BY DEF Over, Decided, TypeOK, CallTypes, WhoCalls, WaitsLongEnough,
         TimeCounted
<1>9. ResultsKnown'
  BY DEF Over, Decided, Finish, Goto, AtEnd, Dead, CallTypes, TimeCounted,
         WaitsLongEnough, ResultsKnown
<1>. QED
  BY <1>2, <1>3, <1>4, <1>5, <1>6, <1>7, <1>8, <1>9

LEMMA GotIInv ==
    ASSUME IInv, NEW t \in Threads, NEW k, k = Now(t), k > 0,
           pc[t] = "wait", Got(t, k),
           UNCHANGED <<nonblock, timeo, history, asked, elapsed, interrupts>>
    PROVE  IInv'
<1>. USE DEF IInv, socket, call, history, measures
<1>1. /\ \A u \in Threads : Budget(u) \in Nat /\ Budget(u) >= asked[u]
      /\ \A u \in Threads : Dir(u) \in Dirs
      /\ Room \in Nat /\ Data \in Nat /\ Forever \in Nat /\ Forever > 0
  BY BudgetBounds, ConstantFacts
<1>0. /\ Rest(t) \in Nat /\ k \in Nat /\ k <= Rest(t)
      /\ avail[Dir(t)] - k \in 0..avail[Dir(t)]
      /\ want[t] = done[t] + Rest(t) /\ moved[t] = done[t] /\ want[t] \in Sizes
      /\ \A u \in Threads : Budget(u)' = Budget(u)
  <2>1. want[t] \in Nat /\ done[t] \in Nat /\ avail[Dir(t)] \in Nat
    BY <1>1 DEF CallTypes
  <2>2. done[t] < want[t] /\ moved[t] = done[t] /\ want[t] \in Sizes
    BY DEF BytesCounted, Working, TypeOK
  <2>. QED
    BY <2>1, <2>2 DEF Now, Rest, Smaller, Budget
<1>2. TypeOK'
  BY <1>0, <1>1 DEF Got, Decided, Finish, Goto, TypeOK, CallTypes
<1>3. CallTypes'
  BY <1>0, <1>1 DEF Got, Decided, Finish, Goto, TypeOK, CallTypes
<1>4. WhoCalls'
  BY DEF Got, Decided, Finish, Goto, TypeOK, WhoCalls, Connecting
<1>5. BytesCounted'
  BY <1>0
     DEF Got, Decided, Finish, Goto, TypeOK, CallTypes, BytesCounted,
         Working, Connecting
<1>6. TimeCounted'
  <2>1. /\ pc[t] = "wait" /\ msecs[t] > 0
        /\ elapsed[t] + msecs[t] = asked[t] + used[t]
        /\ UNCHANGED <<timeo, asked, elapsed, interrupts>>
    BY DEF TimeCounted
  <2>2. CASE k = Rest(t) \/ (k < Rest(t) /\ used[t] >= msecs[t])
    <3>1. /\ pc' = [pc EXCEPT ![t] = "restore"]
          /\ used' = [used EXCEPT ![t] = 0] /\ msecs' = [msecs EXCEPT ![t] = 0]
          /\ left' = [left EXCEPT ![t] = 0]
      BY <1>0, <2>2 DEF Got, Decided, Finish, Goto, CallTypes
    <3>. QED
      BY <1>0, <3>1 DEF TypeOK, TimeCounted
  <2>3. CASE k < Rest(t) /\ used[t] < msecs[t]
    <3>1. /\ pc' = [pc EXCEPT ![t] = "settimeo"]
          /\ used' = used /\ msecs' = [msecs EXCEPT ![t] = @ - used[t]]
          /\ left' = [left EXCEPT ![t] = 0]
      BY <1>0, <2>3 DEF Got, Goto, CallTypes
    <3>2. msecs'[t] = msecs[t] - used[t] /\ used[t] \in Nat /\ msecs[t] \in Nat
      BY <3>1 DEF CallTypes
    <3>3. msecs'[t] > 0 /\ elapsed'[t] + msecs'[t] = asked'[t]
      <4>1. elapsed[t] \in Nat /\ asked[t] \in Nat
        BY ConstantFacts DEF CallTypes
      <4>2. elapsed'[t] = elapsed[t] /\ asked'[t] = asked[t]
        BY <2>1
      <4>. QED
        BY <2>1, <2>3, <3>2, <4>1, <4>2
    <3>4. \A u \in Threads : u # t =>
             /\ pc'[u] = pc[u] /\ used'[u] = used[u] /\ msecs'[u] = msecs[u]
             /\ left'[u] = left[u]
      BY <3>1 DEF TypeOK, CallTypes
    <3>5. pc'[t] = "settimeo"
      BY <3>1 DEF TypeOK
    <3>. QED
      BY <1>0, <2>1, <3>1, <3>3, <3>4, <3>5 DEF TimeCounted
  <2>. QED
    BY <1>0, <1>1, <2>2, <2>3 DEF Got, CallTypes
<1>7. SettingsKnown'
  BY <1>0, <1>1
     DEF Got, Decided, Finish, Goto, TypeOK, CallTypes, WhoCalls,
         SettingsKnown, Changed, Connecting
<1>8. WaitsLongEnough'
  BY <1>0, <1>1
     DEF Got, Decided, Finish, Goto, TypeOK, CallTypes, WhoCalls,
         WaitsLongEnough, TimeCounted, SettingsKnown, Changed, Connecting
<1>9. ResultsKnown'
  BY <1>0, <1>1
     DEF Got, Decided, Finish, Goto, TypeOK, CallTypes, WhoCalls,
         BytesCounted, Working, Connecting, TimeCounted, WaitsLongEnough,
         ResultsKnown
<1>. QED
  BY <1>2, <1>3, <1>4, <1>5, <1>6, <1>7, <1>8, <1>9

LEMMA SelectInterruptedIInv ==
    ASSUME IInv, NEW t \in Threads, SelectInterrupted(t),
           interrupts' = [interrupts EXCEPT ![t] = @ + 1],
           UNCHANGED <<nonblock, timeo, history, asked, elapsed>>
    PROVE  IInv'
<1>. USE DEF IInv, socket, call, history, measures
<1>1. /\ \A u \in Threads : Budget(u) \in Nat /\ Budget(u) >= asked[u]
      /\ \A u \in Threads : Dir(u) \in Dirs
      /\ Room \in Nat /\ Data \in Nat /\ Forever \in Nat /\ Forever > 0
  BY BudgetBounds, ConstantFacts
<1>0. /\ Budget(t)' = Budget(t) + asked[t]
      /\ \A u \in Threads \ {t} : Budget(u)' = Budget(u)
  BY BudgetGrows
<1>2. TypeOK'
  BY <1>1, ConstantFacts DEF SelectInterrupted, Finish, Goto, Dead, TypeOK, CallTypes
<1>3. CallTypes'
  BY <1>1, ConstantFacts DEF SelectInterrupted, Finish, Goto, Dead, TypeOK, CallTypes
<1>4. WhoCalls'
  BY <1>1, ConstantFacts
     DEF SelectInterrupted, Finish, Goto, Dead, TypeOK, WhoCalls, Connecting
<1>5. BytesCounted'
  BY <1>1, ConstantFacts
     DEF SelectInterrupted, Finish, Goto, Dead, TypeOK, CallTypes, WhoCalls,
         BytesCounted, Working, Connecting
<1>6. TimeCounted'
  BY <1>0, <1>1, ConstantFacts
     DEF SelectInterrupted, Finish, Goto, Dead, TypeOK, CallTypes, WhoCalls,
         TimeCounted
<1>7. SettingsKnown'
  BY <1>1, ConstantFacts
     DEF SelectInterrupted, Finish, Goto, Dead, TypeOK, CallTypes, WhoCalls,
         SettingsKnown, Changed, Connecting
<1>8. WaitsLongEnough'
  BY <1>1, ConstantFacts
     DEF SelectInterrupted, Finish, Goto, Dead, TypeOK, CallTypes, WhoCalls,
         WaitsLongEnough, TimeCounted, SettingsKnown, Changed, Connecting
<1>9. ResultsKnown'
  BY <1>1, ConstantFacts
     DEF SelectInterrupted, Finish, Goto, Dead, TypeOK, CallTypes, WhoCalls,
         BytesCounted, Working, Connecting, TimeCounted, WaitsLongEnough,
         ResultsKnown
<1>. QED
  BY <1>2, <1>3, <1>4, <1>5, <1>6, <1>7, <1>8, <1>9

LEMMA WaitInterruptedIInv ==
    ASSUME IInv, NEW t \in Threads, WaitInterrupted(t),
           interrupts' = [interrupts EXCEPT ![t] = @ + 1],
           UNCHANGED <<nonblock, timeo, history, asked, elapsed>>
    PROVE  IInv'
<1>. USE DEF IInv, socket, call, history, measures
<1>1. /\ \A u \in Threads : Budget(u) \in Nat /\ Budget(u) >= asked[u]
      /\ \A u \in Threads : Dir(u) \in Dirs
      /\ Room \in Nat /\ Data \in Nat /\ Forever \in Nat /\ Forever > 0
  BY BudgetBounds, ConstantFacts
<1>0. /\ Budget(t)' = Budget(t) + asked[t]
      /\ \A u \in Threads \ {t} : Budget(u)' = Budget(u)
  BY BudgetGrows
<1>2. TypeOK'
  BY <1>1, ConstantFacts DEF WaitInterrupted, Goto, TypeOK, CallTypes
<1>3. CallTypes'
  BY <1>1, ConstantFacts DEF WaitInterrupted, Goto, TypeOK, CallTypes
<1>4. WhoCalls'
  BY <1>1, ConstantFacts DEF WaitInterrupted, Goto, TypeOK, WhoCalls, Connecting
<1>5. BytesCounted'
  BY <1>1, ConstantFacts
     DEF WaitInterrupted, Goto, TypeOK, CallTypes, WhoCalls, BytesCounted,
         Working, Connecting
<1>6. TimeCounted'
  BY <1>0, <1>1, ConstantFacts
     DEF WaitInterrupted, Goto, TypeOK, CallTypes, WhoCalls, TimeCounted
<1>7. SettingsKnown'
  BY <1>1, ConstantFacts
     DEF WaitInterrupted, Goto, TypeOK, CallTypes, WhoCalls, SettingsKnown,
         Changed, Connecting
<1>8. WaitsLongEnough'
  BY <1>1, ConstantFacts
     DEF WaitInterrupted, Goto, TypeOK, CallTypes, WhoCalls, WaitsLongEnough,
         TimeCounted, SettingsKnown, Changed, Connecting
<1>9. ResultsKnown'
  BY <1>1, ConstantFacts
     DEF WaitInterrupted, Goto, TypeOK, CallTypes, WhoCalls, BytesCounted,
         Working, Connecting, TimeCounted, WaitsLongEnough, ResultsKnown
<1>. QED
  BY <1>2, <1>3, <1>4, <1>5, <1>6, <1>7, <1>8, <1>9

LEMMA TickIInv ==
    ASSUME IInv, Tick
    PROVE  IInv'
<1>. USE DEF IInv, socket, call, history, measures
<1>1. /\ \A u \in Threads : Budget(u) \in Nat /\ Budget(u) >= asked[u]
      /\ \A u \in Threads : Dir(u) \in Dirs
      /\ Room \in Nat /\ Data \in Nat /\ Forever \in Nat /\ Forever > 0
  BY BudgetBounds, ConstantFacts
<1>0. \A u \in Threads : Budget(u)' = Budget(u)
  BY DEF Tick, Budget
<1>2. TypeOK'
  BY <1>1, ConstantFacts DEF Tick, Timed, Waiting, TypeOK, CallTypes
<1>3. CallTypes'
  BY <1>1, ConstantFacts DEF Tick, Timed, Waiting, TypeOK, CallTypes
<1>4. WhoCalls'
  BY <1>1, ConstantFacts DEF Tick, Timed, Waiting, TypeOK, WhoCalls, Connecting
<1>5. BytesCounted'
  BY <1>1, ConstantFacts
     DEF Tick, Timed, Waiting, TypeOK, CallTypes, WhoCalls, BytesCounted,
         Working, Connecting
<1>6. TimeCounted'
  BY <1>0, <1>1, ConstantFacts
     DEF Tick, Timed, Waiting, TypeOK, CallTypes, WhoCalls, TimeCounted
<1>7. SettingsKnown'
  BY <1>1, ConstantFacts
     DEF Tick, Timed, Waiting, TypeOK, CallTypes, WhoCalls, SettingsKnown,
         Changed, Connecting
<1>8. WaitsLongEnough'
  BY <1>1, ConstantFacts
     DEF Tick, Timed, Waiting, TypeOK, CallTypes, WhoCalls, WaitsLongEnough,
         TimeCounted, SettingsKnown, Changed, Connecting
<1>9. ResultsKnown'
  BY <1>1, ConstantFacts
     DEF Tick, Timed, Waiting, TypeOK, CallTypes, WhoCalls, BytesCounted,
         Working, Connecting, TimeCounted, WaitsLongEnough, ResultsKnown
<1>. QED
  BY <1>2, <1>3, <1>4, <1>5, <1>6, <1>7, <1>8, <1>9

(* The system call returns. *)
LEMMA WakeupIInv ==
    ASSUME IInv, NEW t \in Threads, Wakeup(t)
    PROVE  IInv'
<1>1. /\ pc[t] = "wait"
      /\ UNCHANGED <<nonblock, timeo, history, asked, elapsed, interrupts>>
  BY DEF Wakeup
<1>2. CASE Now(t) > 0 /\ Got(t, Now(t))
  BY <1>1, <1>2, GotIInv
<1>3. CASE Over(t, -1) /\ (left[t] = 0 \/ Dead)
  BY <1>1, <1>3, OverIInv
<1>4. CASE Over(t, 0) /\ AtEnd(t)
  BY <1>1, <1>4, OverIInv
<1>. QED
  BY <1>2, <1>3, <1>4 DEF Wakeup

(* A signal comes. *)
LEMMA SignalIInv ==
    ASSUME IInv, NEW t \in Threads, Signal(t)
    PROVE  IInv'
<1>1. UNCHANGED <<nonblock, timeo, history, asked, elapsed>>
  BY DEF Signal
<1>2. CASE PartInterrupted(t) /\ UNCHANGED interrupts
  BY <1>1, <1>2, GotIInv DEF PartInterrupted
<1>3. CASE SelectInterrupted(t) /\ interrupts' = [interrupts EXCEPT ![t] = @ + 1]
  BY <1>1, <1>3, SelectInterruptedIInv
<1>4. CASE WaitInterrupted(t) /\ interrupts' = [interrupts EXCEPT ![t] = @ + 1]
  BY <1>1, <1>4, WaitInterruptedIInv
<1>. QED
  BY <1>2, <1>3, <1>4 DEF Signal
-----------------------------------------------------------------------------
LEMMA InitIInv == Init => IInv
<1>. SUFFICES ASSUME Init PROVE IInv
  OBVIOUS
<1>. USE DEF Init
<1>1. TypeOK /\ CallTypes
  <2>1. /\ timeo \in [Dirs -> 1..Forever] /\ avail \in [Dirs -> Nat]
        /\ avail["recv"] \in 0..Data /\ avail["send"] \in 0..Room
    BY ConstantFacts DEF Dirs
  <2>2. \A t \in Threads :
          /\ want[t] \in Sizes \union {0} /\ done[t] \in 0..want[t]
          /\ msecs[t] \in 0..asked[t] /\ left[t] \in 0..Forever
          /\ result[t] \in Sizes \union {-1, 0}
    BY ConstantFacts
  <2>3. TypeOK
    BY <2>1, <2>2 DEF TypeOK
  <2>4. CallTypes
    <3>1. {nonblock0, overlapped, failed} \subseteq BOOLEAN
      OBVIOUS
    <3>2. /\ want \in [Threads -> Nat] /\ done \in [Threads -> Nat]
          /\ msecs \in [Threads -> Nat] /\ left \in [Threads -> Nat]
          /\ used \in [Threads -> Nat] /\ asked \in [Threads -> 0..Forever]
          /\ elapsed \in [Threads -> Nat] /\ moved \in [Threads -> Nat]
          /\ interrupts \in [Threads -> Nat] /\ result \in [Threads -> Int]
          /\ sockflag \in [Threads -> BOOLEAN]
      BY ConstantFacts
    <3>. QED
      BY <2>1, <3>1, <3>2 DEF CallTypes
  <2>. QED
    BY <2>3, <2>4
<1>2. WhoCalls /\ BytesCounted /\ WaitsLongEnough /\ ResultsKnown
  BY DEF WhoCalls, BytesCounted, WaitsLongEnough, ResultsKnown, Connecting,
         Working
<1>3. TimeCounted
  BY <1>1, BudgetBounds DEF TimeCounted
<1>4. SettingsKnown
  BY DEF SettingsKnown, Changed, Connecting
<1>. QED
  BY <1>1, <1>2, <1>3, <1>4 DEF IInv

(* Every step of every call, of the network and of the clock preserves the *)
(* inductive invariant.                                                    *)
LEMMA NextIInv == IInv /\ [Next]_vars => IInv'
<1>. SUFFICES ASSUME IInv, [Next]_vars PROVE IInv'
  OBVIOUS
<1>1. CASE Network
  BY <1>1, NetworkIInv
<1>2. ASSUME NEW t \in Threads, NEW m \in Waits, Connect(t, m) PROVE IInv'
  BY <1>2, ConnectIInv
<1>3. CASE NewSocket
  BY <1>3, NewSocketIInv
<1>4. ASSUME NEW t \in Threads, NEW n \in Sizes, NEW m \in Waits, Ready(t, n, m)
      PROVE  IInv'
  BY <1>4, ReadyIInv
<1>5. ASSUME NEW t \in Threads, Continue(t) PROVE IInv'
  BY <1>5, SelectIInv, ConnectDoneIInv, GetSettingsIInv, ClearNonblockIInv,
     SetTimeoutIInv, AgainIInv, WakeupIInv, RestoreIInv, SettingFailsIInv,
     LeaveIInv DEF Continue
<1>6. ASSUME NEW t \in Threads, Signal(t) PROVE IInv'
  BY <1>6, SignalIInv
<1>7. CASE Tick
  BY <1>7, TickIInv
<1>8. CASE UNCHANGED vars
  <2>. USE <1>8 DEF IInv, vars, socket, call, history, measures
  <2>1. TypeOK' /\ CallTypes' /\ WhoCalls' /\ BytesCounted'
    BY DEF TypeOK, CallTypes, WhoCalls, BytesCounted
  <2>2. TimeCounted' /\ SettingsKnown' /\ WaitsLongEnough' /\ ResultsKnown'
    BY DEF TimeCounted, Budget, SettingsKnown, WaitsLongEnough, ResultsKnown
  <2>. QED
    BY <2>1, <2>2
<1>. QED
  BY <1>1, <1>2, <1>3, <1>4, <1>5, <1>6, <1>7, <1>8 DEF Next

THEOREM Invariance == Spec => []IInv
<1>. QED
  BY InitIInv, NextIInv, PTL DEF Spec

(* The state stays well typed. *)
THEOREM TypeCorrect == Spec => []TypeOK
<1>1. IInv => TypeOK
  BY DEF IInv
<1>. QED
  BY <1>1, Invariance, PTL

(* After the last call the socket is as the application configured it:     *)
(* always the timeouts, and O_NONBLOCK unless calls overlapped on a socket *)
(* that had it set.                                                        *)
THEOREM Restored == Spec => []SettingsComeBack
<1>1. IInv => SettingsComeBack
  BY DEF IInv, SettingsKnown, SettingsComeBack, Changed, Connecting
<1>. QED
  BY <1>1, Invariance, PTL

(* A call that gives up on a healthy connection has used its time. *)
THEOREM NotEarly == Spec => []TimeoutNotEarly
<1>1. IInv => TimeoutNotEarly
  BY DEF IInv, ResultsKnown, TimeoutNotEarly
<1>. QED
  BY <1>1, Invariance, PTL

(* No call takes longer than its limit, once for each signal that made it  *)
(* start over.                                                             *)
THEOREM NotLate == Spec => []DeadlineBound
<1>1. IInv => DeadlineBound
  BY DEF IInv, TimeCounted, DeadlineBound, Budget
<1>. QED
  BY <1>1, Invariance, PTL

(* What a call returns is true of the bytes moved and of the connection. *)
THEOREM TrueResults == Spec => []ResultsAreTrue
<1>1. IInv => ResultsAreTrue
  BY DEF IInv, ResultsKnown, ResultsAreTrue
<1>. QED
  BY <1>1, Invariance, PTL
================================================================================
