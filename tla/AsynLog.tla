------------------------------- MODULE AsynLog -------------------------------
(***************************************************************************)
(* The asynchronous log (commonn/asynLog.cpp): threads that log append     *)
(* lines to log_buffer under log_mutex, one thread, created by Log::init,  *)
(* takes them out and writes them.  STATUS is a plain int that the writer  *)
(* reads and init and stop write without the mutex.                        *)
(*                                                                         *)
(* A step is one critical section of log_mutex or one access to STATUS     *)
(* outside.  Prefix, time and formatting of a line are left out, and so    *)
(* are lines below LEVEL, which produce nothing.                           *)
(***************************************************************************)
EXTENDS Integers, Sequences

CONSTANTS
    Loggers,    \* the threads that log
    Lines,      \* what they log
    MaxLines    \* bound: no call begins once so many lines have been logged

ASSUME AsynLogAssumption == MaxLines \in Nat

VARIABLES
    STATUS,      \* Log::STATUS
    log_buffer,  \* the lines not yet taken by the writer
    locked,      \* whether the writer has left with log_mutex locked
    main,        \* how far init() has come, or that stop() has been called
    writer,      \* where the writer thread is
    content,     \* the line the writer has taken, as a sequence of length <= 1
    saying,      \* saying[t]: the line thread t is about to append, likewise
    logged,      \* history: the lines appended, in that order
    written      \* the file

logVars == <<STATUS, log_buffer, locked, main, writer, content, saying, logged,
          written>>

LogInit ==
    /\ STATUS = "INIT"
    /\ log_buffer = <<>>
    /\ locked = FALSE
    /\ main = "init"
    /\ writer = "none"
    /\ content = <<>>
    /\ saying = [t \in Loggers |-> <<>>]
    /\ logged = <<>>
    /\ written = <<>>
-----------------------------------------------------------------------------
(* Log::init: the file cannot be opened, the thread cannot be created ...  *)
InitFails ==
    /\ main = "init"
    /\ main' = "failed"
    /\ UNCHANGED <<STATUS, log_buffer, locked, writer, content, saying,
                   logged, written>>

(* ... or the thread is created, *)
CreateWriter ==
    /\ main = "init"
    /\ main' = "created"
    /\ writer' = "while"
    /\ UNCHANGED <<STATUS, log_buffer, locked, content, saying, logged, written>>

(* and STATUS set afterwards. *)
SetRun ==
    /\ main = "created"
    /\ main' = "running"
    /\ STATUS' = "RUN"
    /\ UNCHANGED <<log_buffer, locked, writer, content, saying, logged, written>>

(* Log::stop wakes nobody. *)
Stop ==
    /\ main = "running"
    /\ main' = "stopped"
    /\ STATUS' = "STOP"
    /\ UNCHANGED <<log_buffer, locked, writer, content, saying, logged, written>>
-----------------------------------------------------------------------------
(* write_log: while(STATUS == LOG_RUN), read without the mutex.  Outside   *)
(* the loop the thread flushes the file and ends.                          *)
While ==
    /\ writer = "while"
    /\ writer' = IF STATUS = "RUN" THEN "lock" ELSE "exited"
    /\ UNCHANGED <<STATUS, log_buffer, locked, main, content, saying, logged,
                   written>>

(* The writer has locked log_mutex, or has it back after the wait. *)
Locks == writer \in {"lock", "woken"} /\ ~locked

Wait ==
    /\ Locks
    /\ log_buffer = <<>> /\ STATUS = "RUN"
    /\ writer' = "asleep"
    /\ UNCHANGED <<STATUS, log_buffer, locked, main, content, saying, logged,
                   written>>

(* if(STATUS != LOG_RUN) return NULL, without unlocking *)
Leave ==
    /\ Locks
    /\ STATUS # "RUN"
    /\ writer' = "exited"
    /\ locked' = TRUE
    /\ UNCHANGED <<STATUS, log_buffer, main, content, saying, logged, written>>

(* Mutant of TakeLine: it takes the line logged last. *)
TakeLast ==
    /\ Locks
    /\ log_buffer # <<>> /\ STATUS = "RUN"
    /\ content' = <<log_buffer[Len(log_buffer)]>>
    /\ log_buffer' = SubSeq(log_buffer, 1, Len(log_buffer) - 1)
    /\ writer' = "print"
    /\ UNCHANGED <<STATUS, locked, main, saying, logged, written>>

(* Mutant of TakeLine: the mutex is not unlocked. *)
TakeLocked ==
    /\ Locks
    /\ log_buffer # <<>> /\ STATUS = "RUN"
    /\ content' = <<Head(log_buffer)>>
    /\ log_buffer' = Tail(log_buffer)
    /\ writer' = "print"
    /\ locked' = TRUE
    /\ UNCHANGED <<STATUS, main, saying, logged, written>>

TakeLine ==
    /\ Locks
    /\ log_buffer # <<>> /\ STATUS = "RUN"
    /\ content' = <<Head(log_buffer)>>
    /\ log_buffer' = Tail(log_buffer)
    /\ writer' = "print"
    /\ UNCHANGED <<STATUS, locked, main, saying, logged, written>>

(* fprintf, after the unlock *)
WriteLine ==
    /\ writer = "print"
    /\ written' = written \o content
    /\ content' = <<>>
    /\ writer' = "while"
    /\ UNCHANGED <<STATUS, log_buffer, locked, main, saying, logged>>

SpuriousWake ==
    /\ writer = "asleep"
    /\ writer' = "woken"
    /\ UNCHANGED <<STATUS, log_buffer, locked, main, content, saying, logged,
                   written>>

Writer == While \/ Wait \/ Leave \/ TakeLine \/ WriteLine
-----------------------------------------------------------------------------
(* DEBUG, NOTICE, WARN, ERROR at or above LEVEL, once init() has returned. *)
Call(t, line) ==
    /\ main \in {"failed", "running", "stopped"}
    /\ saying[t] = <<>>
    /\ Len(logged) < MaxLines
    /\ saying' = [saying EXCEPT ![t] = <<line>>]
    /\ UNCHANGED <<STATUS, log_buffer, locked, main, writer, content, logged,
                   written>>

(* Mutant of Signal: one line too late. *)
SignalLate ==
    writer' = IF writer = "asleep" /\ Len(log_buffer') = 2 THEN "woken"
                                                            ELSE writer

(* pthread_cond_signal for the line that is alone in the buffer *)
Signal ==
    writer' = IF writer = "asleep" /\ Len(log_buffer') = 1 THEN "woken"
                                                            ELSE writer

(* produce_log *)
Produce(t) ==
    /\ saying[t] # <<>>
    /\ ~locked
    /\ log_buffer' = log_buffer \o saying[t]
    /\ logged' = logged \o saying[t]
    /\ saying' = [saying EXCEPT ![t] = <<>>]
    /\ Signal
    /\ UNCHANGED <<STATUS, locked, main, content, written>>

LogNext ==
    \/ InitFails \/ CreateWriter \/ SetRun \/ Stop
    \/ Writer \/ SpuriousWake
    \/ \E t \in Loggers, line \in Lines : Call(t, line)
    \/ \E t \in Loggers : Produce(t)

LogSpec == LogInit /\ [][LogNext]_logVars

(* init() returns, the writer runs, and a thread that logs gets log_mutex  *)
(* whenever it is free; nobody has to log or to stop.                      *)
LogFairSpec ==
    /\ LogSpec
    /\ WF_logVars(SetRun)
    /\ WF_logVars(Writer)
    /\ \A t \in Loggers : WF_logVars(Produce(t))
-----------------------------------------------------------------------------
(* Type correctness; a line is in hand exactly while it is written. *)
LogTypeOK ==
    /\ STATUS \in {"INIT", "RUN", "STOP"}
    /\ log_buffer \in Seq(Lines)
    /\ locked \in BOOLEAN
    /\ main \in {"init", "failed", "created", "running", "stopped"}
    /\ writer \in {"none", "while", "lock", "asleep", "woken", "print",
                   "exited"}
    /\ content \in Seq(Lines)
    /\ content # <<>> <=> writer = "print"
    /\ saying \in [Loggers -> Seq(Lines)]
    /\ logged \in Seq(Lines)
    /\ written \in Seq(Lines)

(* The file, the line in the writer's hand and log_buffer are together     *)
(* what has been logged: nothing is lost, repeated or out of order,        *)
(* whatever init and stop do meanwhile.                                    *)
LinesInOrder == written \o content \o log_buffer = logged

(* Only the line that is alone in the buffer is signalled, which is enough *)
(* because the writer never sleeps on a longer one, not even when lines    *)
(* are added between its wake-up and its return to the mutex.              *)
WriterSleepsOnEmpty == writer = "asleep" => log_buffer = <<>>

(* log_mutex is lost only through stop: until then the threads that log    *)
(* never find it held by a writer that does not give it back.              *)
MutexLostOnlyByStop == locked => STATUS = "STOP" /\ writer = "exited"

(* A line gets into the file if the writer came into its loop at all and   *)
(* until the log is stopped.                                               *)
LinesAreWritten ==
    \A n \in 1..MaxLines :
       Len(logged) >= n /\ writer \notin {"none", "exited"}
          ~> Len(written) >= n \/ STATUS = "STOP"

(* A thread that logs returns from the call, unless the log is stopped.    *)
LoggersReturn ==
    \A t \in Loggers : saying[t] # <<>> ~> saying[t] = <<>> \/ STATUS = "STOP"
=============================================================================
