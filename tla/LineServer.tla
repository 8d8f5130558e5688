------------------------------ MODULE LineServer ------------------------------
(***************************************************************************)
(* What the reactor, its workers and LineEvent promise the clients of a    *)
(* server that answers every line with a line: no epoll set, no queue, no  *)
(* threads, no event objects.  A connection is open or not; lines wait in  *)
(* it in either direction; while answers wait to be sent no further line   *)
(* is read from that client.  It serves until it is over, which it may be  *)
(* at any time.  NetReactor is shown to implement it.                      *)
(***************************************************************************)
EXTENDS Naturals

CONSTANTS
    Conns,        \* the connections the process can have (its descriptors)
    Cancelable,   \* those the application may cancel
    Losable,      \* those the kernel may refuse to watch
    MaxBacklog,   \* bound: connects waiting in the listening socket
    MaxInbox,     \* bound: lines waiting to be read from one client
    SndBuf        \* lines that fit into a socket's send buffer

VARIABLES
    open,      \* the open connections
    doomed,    \* those whose closing is decided but not done
    lost,      \* those the server holds open and never looks at again
    backlog,   \* connects not yet accepted
    inbox,     \* inbox[c]: complete lines received and not read
    out,       \* out[c]: answers not yet handed to the socket
    room,      \* room[c]: lines the send buffer still takes
    peer,      \* peer[c]: the client's end: open, fin (no more lines), reset
    over       \* the server accepts and watches nobody any more

sockets == <<backlog, inbox, room, peer>>
vars == <<open, doomed, lost, backlog, inbox, out, room, peer, over>>

Init ==
    /\ open = {}
    /\ doomed = {}
    /\ lost = {}
    /\ backlog = 0
    /\ inbox = [c \in Conns |-> 0]
    /\ out = [c \in Conns |-> 0]
    /\ room = [c \in Conns |-> SndBuf]
    /\ peer = [c \in Conns |-> "open"]
    /\ over = FALSE
-----------------------------------------------------------------------------
(* The clients.  What those of a lost connection do changes nothing more.  *)
Watched == open \ lost

Connect ==
    /\ backlog < MaxBacklog
    /\ backlog' = backlog + 1
    /\ UNCHANGED <<open, doomed, lost, inbox, out, room, peer, over>>

ClientSends(c) ==
    /\ c \in Watched /\ peer[c] = "open" /\ inbox[c] < MaxInbox
    /\ inbox' = [inbox EXCEPT ![c] = @ + 1]
    /\ UNCHANGED <<open, doomed, lost, backlog, out, room, peer, over>>

ClientReads(c) ==
    /\ c \in Watched /\ peer[c] # "reset" /\ room[c] < SndBuf
    /\ room' = [room EXCEPT ![c] = SndBuf]
    /\ UNCHANGED <<open, doomed, lost, backlog, inbox, out, peer, over>>

ClientEnds(c) ==
    /\ c \in Watched
    /\ \/ peer[c] = "open" /\ peer' = [peer EXCEPT ![c] = "fin"]
       \/ peer[c] # "reset" /\ peer' = [peer EXCEPT ![c] = "reset"]
    /\ UNCHANGED <<open, doomed, lost, backlog, inbox, out, room, over>>

Clients ==
    \/ Connect
    \/ \E c \in Conns : ClientSends(c) \/ ClientReads(c) \/ ClientEnds(c)
-----------------------------------------------------------------------------
(* The server. *)
Accept(c) ==
    /\ ~over /\ c \notin open /\ backlog > 0
    /\ open' = open \union {c}
    /\ lost' \in {lost, lost \union ({c} \intersect Losable)}
    /\ backlog' = backlog - 1
    /\ UNCHANGED <<doomed, inbox, out, room, peer, over>>

(* Some of the waiting lines are read and answered; never while earlier    *)
(* answers wait, so a client that does not read is not read from either.   *)
Serve(c) ==
    /\ c \in Watched /\ out[c] = 0
    /\ \E n \in 1..inbox[c] :
          /\ inbox' = [inbox EXCEPT ![c] = @ - n]
          /\ out' = [out EXCEPT ![c] = n]
    /\ UNCHANGED <<open, doomed, lost, backlog, room, peer, over>>

Send(c) ==
    /\ c \in Watched
    /\ \E n \in 1..out[c] :
          /\ n <= room[c]
          /\ out' = [out EXCEPT ![c] = @ - n]
          /\ room' = [room EXCEPT ![c] = @ - n]
    /\ UNCHANGED <<open, doomed, lost, backlog, inbox, peer, over>>

(* That a connection is to be closed is decided when its client ended it,  *)
(* when the application cancelled it, or when an answer met a full send    *)
(* buffer, even if the buffer has room again when it is closed.  Until     *)
(* then it may still be served.                                            *)
Doom(c) ==
    /\ c \in Watched \ doomed
    /\ \/ peer[c] # "open"
       \/ c \in Cancelable
       \/ out[c] > 0 /\ room[c] = 0
    /\ doomed' = doomed \union {c}
    /\ UNCHANGED <<open, lost, backlog, inbox, out, room, peer, over>>

(* A connection that cannot be watched any longer is left alone for good.  *)
Lose(c) ==
    /\ c \in (Watched \intersect Losable) \ doomed
    /\ lost' = lost \union {c}
    /\ UNCHANGED <<open, doomed, backlog, inbox, out, room, peer, over>>

Close(c) ==
    /\ c \in Watched
    /\ c \in doomed \/ peer[c] = "reset"
    /\ open' = open \ {c}
    /\ doomed' = doomed \ {c}
    /\ inbox' = [inbox EXCEPT ![c] = 0]
    /\ out' = [out EXCEPT ![c] = 0]
    /\ room' = [room EXCEPT ![c] = SndBuf]
    /\ peer' = [peer EXCEPT ![c] = "open"]
    /\ UNCHANGED <<lost, backlog, over>>

(* The server may stop for good.  What it has begun it may still finish.   *)
End ==
    /\ ~over
    /\ over' = TRUE
    /\ UNCHANGED <<open, doomed, lost, sockets, out>>

Server ==
    \/ End
    \/ \E c \in Conns :
          Accept(c) \/ Serve(c) \/ Send(c) \/ Doom(c) \/ Lose(c) \/ Close(c)

Next == Clients \/ Server

Spec == Init /\ [][Next]_vars

(* A client that sends no more is done with once it has all its answers.   *)
DoomEnded(c) ==
    /\ peer[c] = "fin" /\ out[c] = 0
    /\ Doom(c)

(* Until it stops, the server accepts, serves, sends and closes what it    *)
(* can; it must not close for any other reason than the end of the client. *)
(* What is doomed when it stops is closed all the same.                    *)
FairSpec ==
    /\ Spec
    /\ WF_vars(~over /\ \E c \in Conns : Accept(c))
    /\ \A c \in Conns :
          /\ WF_vars(~over /\ (Serve(c) \/ Send(c) \/ DoomEnded(c)))
          /\ WF_vars((~over \/ c \in doomed) /\ Close(c))
=============================================================================
