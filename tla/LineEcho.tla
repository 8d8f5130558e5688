------------------------------- MODULE LineEcho -------------------------------
(***************************************************************************)
(* One connection of the line server, byte by byte: the read and write     *)
(* callbacks of LineEvent (NfUnit/lineEvent.cpp) over their two Buffers,   *)
(* and the application of testUnit/testLineEvent, which answers each line  *)
(* with the line.  Each callback is one step: the event is owned by the    *)
(* thread that runs it (NetReactor shows this), only the sockets are       *)
(* shared with the client.                                                 *)
(*                                                                         *)
(* The bytes are numbered in the order in which the client sends them, so  *)
(* that an exact echo is 1, 2, 3, ...; newlines are the numbers of those   *)
(* that are '\n'.  slipped records that one of three things has happened   *)
(* on which the code loses or repeats bytes; outside, which accesses have  *)
(* gone outside the block they were meant for.                             *)
(***************************************************************************)
EXTENDS Buffer, FiniteSetsExt

CONSTANTS
    MinRead,   \* read_callback makes room for so many bytes (512)
    SndBuf,    \* bound: bytes the kernel takes that the client has not read
    MaxBytes   \* bound: bytes the client sends

ASSUME LineEchoAssumption == {MinRead, SndBuf, MaxBytes} \subseteq Nat \ {0}

VARIABLES
    readBuffer, writeBuffer,  \* LineEvent::_readBuffer, _writeBuffer
    sockType,                 \* SockEventBase::_sockType
    server,                   \* the event is open, closed, or has crashed
    toServer, toClient,       \* bytes in the two directions of the socket
    sent,                     \* how many bytes the client has sent
    newlines,                 \* which of them are '\n'
    received,                 \* what the client has received
    slipped,
    outside                   \* for the properties

client == <<sent, newlines, received>>
echoVars == <<readBuffer, writeBuffer, sockType, server, toServer, toClient,
          client, slipped, outside>>

EchoInit ==
    /\ readBuffer = Null /\ writeBuffer = Null
    /\ sockType = "READ"
    /\ server = "open"
    /\ toServer = <<>> /\ toClient = <<>>
    /\ sent = 0 /\ newlines = {} /\ received = <<>>
    /\ slipped = FALSE /\ outside = {}
-----------------------------------------------------------------------------
ClientSends ==
    /\ server = "open" /\ sent < MaxBytes
    /\ sent' = sent + 1
    /\ newlines' \in {newlines, newlines \union {sent + 1}}
    /\ toServer' = Append(toServer, sent + 1)
    /\ UNCHANGED <<readBuffer, writeBuffer, sockType, server, toClient,
                   received, slipped, outside>>

ClientReads ==
    /\ \E n \in 1 .. Len(toClient) :
          /\ received' = received \o SubSeq(toClient, 1, n)
          /\ toClient' = SubSeq(toClient, n + 1, Len(toClient))
    /\ UNCHANGED <<readBuffer, writeBuffer, sockType, server, toServer,
                   sent, newlines, slipped, outside>>
-----------------------------------------------------------------------------
(* What epoll reports of the socket, as the event is registered. *)
Readable == server = "open" /\ sockType = "READ" /\ toServer # <<>>
Writeable == server = "open" /\ sockType = "WRITE" /\ Len(toClient) < SndBuf

(* The event is cancelled and deleted, its buffers with it. *)
Close(how) ==
    /\ server' = how
    /\ readBuffer' = Null /\ writeBuffer' = Null
    /\ toServer' = <<>>
    /\ UNCHANGED sockType

(* sendn: how many unhandled bytes the socket takes *)
Taken(write) == Min({UnhandledNum(write), SndBuf - Len(toClient)})

(* Mutant of Flush: the event is not registered for writing the rest. *)
FlushOnce(write, read, unread, slip) ==
    LET n == Taken(write) IN
    \/ /\ n <= 0
       /\ Close("closed")
       /\ slipped' = (slipped \/ slip)
       /\ UNCHANGED toClient
    \/ /\ n > 0
       /\ toClient' = toClient \o FirstBytes(write, n)
       /\ writeBuffer' = AddHandled(write, n)
       /\ sockType' = "READ"
       /\ slipped' = (slipped \/ slip \/ write.str + n = write.end)
       /\ readBuffer' = read /\ toServer' = unread
       /\ UNCHANGED server

(* write_callback: a socket that takes nothing counts as an error.         *)
(* If one byte is left, add_handl_num drops it.                            *)
Flush(write, read, unread, slip) ==
    LET n == Taken(write) IN
    \/ /\ n <= 0
       /\ Close("closed")
       /\ slipped' = (slipped \/ slip)
       /\ UNCHANGED toClient
    \/ /\ n > 0
       /\ toClient' = toClient \o FirstBytes(write, n)
       /\ writeBuffer' = AddHandled(write, n)
       /\ sockType' = IF UnhandledNum(writeBuffer') > 0 THEN "WRITE" ELSE "READ"
       /\ slipped' = (slipped \/ slip \/ write.str + n = write.end)
       /\ readBuffer' = read /\ toServer' = unread
       /\ UNCHANGED server

(* user_read_done_callback: the first flag unhandled bytes are the answer  *)
(* and are handled.  There are none if an earlier line of the same read    *)
(* has had the block given back.                                           *)
Answer(s, flag) ==
    IF s.crashed \/ s.read = Null THEN [s EXCEPT !.crashed = TRUE]
    ELSE [s EXCEPT !.write = AddData(@, FirstBytes(s.read, flag)),
                   !.read = AddHandled(@, flag)]

(* Mutant of Flags: a line that ends with the last byte is not seen. *)
FlagsShort(bytes) == {i \in 1 .. Len(bytes) - 1 : bytes[i] \in newlines}

(* The scan of read_callback: _read_buff_flag for each line, counted from  *)
(* where the unhandled bytes began before any line was answered.           *)
Flags(bytes) == {i \in 1 .. Len(bytes) : bytes[i] \in newlines}

(* The loop of read_callback over the unhandled bytes of b, each line      *)
(* answered as soon as its end is seen: both buffers after k bytes.  A     *)
(* block that has been given back is taken to keep its bytes.              *)
Loop(b) ==
    LET bytes == Unhandled(b)
        after[k \in 0 .. Len(bytes)] ==
            IF k = 0 THEN [read |-> b, write |-> writeBuffer, crashed |-> FALSE]
            ELSE IF k \in Flags(bytes) THEN Answer(after[k - 1], k)
            ELSE after[k - 1]
    IN  after

Answered(b) == Loop(b)[Len(Unhandled(b))]

(* The buffer as readn fills it, with room for at least MinRead bytes. *)
Filled ==
    LET b == IF EmptySize(readBuffer) < MinRead
             THEN FreshCache(readBuffer, MinRead) ELSE readBuffer
    IN  Store(b, SubSeq(toServer, 1, Min({Len(toServer), EmptySize(b)})))

(* read_callback, once b is the buffer as readn has filled it and s what   *)
(* the answers have made of both buffers.                                  *)
ReadWith(b, s) ==
    LET unread == SubSeq(toServer, b.end - readBuffer.end + 1, Len(toServer))
        flags == Flags(Unhandled(b))
        slip == \/ \E f, g \in flags : f # g
                \/ \E f \in flags : b.str + f = b.end
                \/ Compacts(s.read)
    IN
    \/ /\ s.crashed
       /\ Close("crashed")
       /\ slipped' = (slipped \/ slip)
       /\ UNCHANGED toClient
    \/ /\ ~s.crashed /\ UnhandledNum(s.write) <= 0
       /\ readBuffer' = CheckEmptySpace(s.read)
       /\ writeBuffer' = s.write
       /\ toServer' = unread
       /\ slipped' = (slipped \/ slip)
       /\ UNCHANGED <<sockType, server, toClient>>
    \/ /\ ~s.crashed /\ UnhandledNum(s.write) > 0
       /\ Flush(s.write, CheckEmptySpace(s.read), unread, slip)

(* What sendn is given to read, from str_idx to end_idx.                   *)
SendOutside(write) == {a \in {"send"} : write.str + UnhandledNum(write) > Allo(write)}

(* The accesses of read_callback to its buffers that go outside the block: *)
(*   store  readn and add_data, which write up to end_idx                  *)
(*   scan   tmp[i], once the block of tmp has been given back              *)
(*   line   the application, which reads flag bytes from str_idx on        *)
(*   zero   the '\0' behind end_idx of check_empty_space                   *)
(*   send   sendn                                                          *)
ReadOutside(b, s) ==
    LET turn == Loop(b)
        flags == Flags(Unhandled(b))
    IN  {a \in {"store"} : \/ b.end >= Allo(b)
                          \/ \E k \in flags : turn[k].write.end >= Allo(turn[k].write)}
        \union {a \in {"scan"} :
                  \E k \in 1 .. Len(Unhandled(b)) : turn[k - 1].read = Null}
        \union {a \in {"line"} :
                  \E k \in flags : turn[k - 1].read.str + k > Allo(turn[k - 1].read)}
        \union {a \in {"zero"} :
                  ~s.crashed /\ Compacts(s.read) /\ s.read.end + 1 >= Allo(s.read)}
        \union {a \in SendOutside(s.write) : ~s.crashed /\ UnhandledNum(s.write) > 0}

Read ==
    /\ Readable
    /\ LET b == Filled IN
          /\ ReadWith(b, Answered(b))
          /\ outside' = outside \union ReadOutside(b, Answered(b))
    /\ UNCHANGED client

(* write_callback, from the reactor *)
Write ==
    /\ Writeable
    /\ Flush(writeBuffer, readBuffer, toServer, FALSE)
    /\ outside' = outside \union SendOutside(writeBuffer)
    /\ UNCHANGED client

EchoNext == ClientSends \/ ClientReads \/ Read \/ Write

EchoSpec == EchoInit /\ [][EchoNext]_echoVars

(* The reactor serves a connection that stays ready, which is its weak     *)
(* fairness with the condition spelled out; the client reads what has come.*)
Served == <>[](Readable \/ Writeable) => []<><<Read \/ Write>>_echoVars

EchoFairSpec == EchoSpec /\ Served /\ WF_echoVars(ClientReads)
-----------------------------------------------------------------------------
BufferType(b) ==
    /\ b \in [cache : Seq((1 .. sent) \union {Junk}), str : Nat,
              end : Nat \union {-1}]
    /\ Allo(b) % Align = 0

(* Type correctness. *)
EchoTypeOK ==
    /\ BufferType(readBuffer) /\ BufferType(writeBuffer)
    /\ sockType \in {"READ", "WRITE"}
    /\ server \in {"open", "closed", "crashed"}
    /\ toServer \in Seq(1 .. sent)
    /\ toClient \in Seq((1 .. sent) \union {Junk}) /\ Len(toClient) <= SndBuf
    /\ sent \in 0 .. MaxBytes
    /\ newlines \subseteq 1 .. sent
    /\ received \in Seq((1 .. sent) \union {Junk})
    /\ slipped \in BOOLEAN
    /\ outside \subseteq {"store", "scan", "line", "zero", "send"}

(* What is read from the socket, stored and sent stays inside the block it *)
(* is meant for, through growth, partial writes and blocks given back and  *)
(* taken anew.  The scan, the application and the '\0' of                  *)
(* check_empty_space do go outside, but only once something has slipped: a *)
(* second line in one read, an answer that ends just before the last byte, *)
(* or a buffer that is compacted.                                          *)
AccessesInBlock ==
    /\ outside \intersect {"store", "send"} = {}
    /\ outside # {} => slipped

(* Until something slips, every byte is in one place and in order: with    *)
(* the client, in the socket, or unhandled in one of the buffers.          *)
BytesConserved ==
    server = "open" /\ ~slipped =>
       received \o toClient \o Unhandled(writeBuffer)
          \o Unhandled(readBuffer) \o toServer = [i \in 1 .. sent |-> i]

(* What the client has got is an exact echo, also after the connection has *)
(* been closed; and it is answered line by line: what remains unhandled    *)
(* between two callbacks is less than a line, what is answered whole lines.*)
EchoExact ==
    ~slipped =>
       /\ received \o toClient = [i \in 1 .. Len(received \o toClient) |-> i]
       /\ \A k \in DOMAIN Unhandled(readBuffer) :
             Unhandled(readBuffer)[k] \notin newlines

(* What the README promises an application that copies what it has read to *)
(* the send buffer: the framework does the reading and writing, that is,   *)
(* the client receives its own bytes in order.                             *)
EchoAlwaysExact == received = [i \in DOMAIN received |-> i]

(* Every line is answered, unless the connection is closed or something    *)
(* slips.                                                                  *)
LinesAreEchoed ==
    \A k \in 1 .. MaxBytes :
       k \in newlines ~> Len(received) >= k \/ server # "open" \/ slipped
=============================================================================
