--------------------------- MODULE ConnectionOutput ---------------------------
(***************************************************************************)
(* The bytes a connection sends (src/day23/tcp/TcpConnection.cpp): Send    *)
(* writes what the socket takes and keeps the rest in sendBuf, a Buffer,   *)
(* for handleWrite. One thread, the connection's loop, runs the code; the  *)
(* kernel sends, and the client reads, at any moment.                      *)
(*                                                                         *)
(* The bytes are named by their places in what the callbacks gave to Send. *)
(***************************************************************************)
EXTENDS Integers, Sequences

CONSTANTS
    MaxBytes,   \* the bound on the bytes given to Send
    MaxLen,     \* the longest message
    SocketSize  \* the bytes the socket's send buffer holds

ASSUME ConstantsAssumption == MaxBytes \in Nat /\ MaxLen \in Nat /\ SocketSize \in Nat \ {0}

VARIABLES
    sent,       \* the number of bytes given to Send
    sendBuf,    \* TcpConnection::sendBuf
    rest,       \* what Send has still to append
    writing,    \* EPOLLOUT is in the channel's events, as epoll knows them
    pc, ready,  \* where the loop is in handleEvent, and Channel::ready
    socket,     \* the socket's send buffer
    nospace,    \* the socket will tell epoll when it has room
    edge,       \* the descriptor is on epoll's ready list
    input,      \* bytes have come that are not read
    wire,       \* what the client has received
    broken      \* the connection failed: a write gives an error

buffers == <<sent, sendBuf, rest>>
kernel == <<socket, nospace, edge, wire>>
vars == <<buffers, writing, pc, ready, kernel, input, broken>>

Smaller(m, n) == IF m < n THEN m ELSE n
Room == SocketSize - Len(socket)
Writable == Room > 0 \/ broken

Init == /\ sent = 0
        /\ sendBuf = <<>> /\ rest = <<>> /\ socket = <<>> /\ wire = <<>>
        /\ writing = FALSE
        /\ pc = "poll"
        /\ ready = {}
        /\ nospace = FALSE /\ edge = FALSE /\ input = FALSE /\ broken = FALSE

-----------------------------------------------------------------------------
(* The kernel and the client.                                              *)
InputArrives ==
    /\ ~broken /\ ~input
    /\ input' = TRUE
    /\ edge' = TRUE
    /\ UNCHANGED <<buffers, writing, pc, ready, socket, nospace, wire, broken>>

ClientReceives ==
    /\ ~broken
    /\ \E n \in 1 .. Len(socket) :
          /\ wire' = wire \o SubSeq(socket, 1, n)
          /\ socket' = SubSeq(socket, n + 1, Len(socket))
    /\ edge' = (edge \/ nospace)
    /\ nospace' = FALSE
    /\ UNCHANGED <<buffers, writing, pc, ready, input, broken>>

Breaks ==
    /\ ~broken
    /\ broken' = TRUE
    /\ edge' = TRUE
    /\ UNCHANGED <<buffers, writing, pc, ready, socket, nospace, input, wire>>

(* write() takes the first bytes for which there is room.                  *)
Write(bytes) == LET n == Smaller(Room, Len(bytes)) IN
                /\ socket' = socket \o SubSeq(bytes, 1, n)
                /\ nospace' = (nospace \/ n < Len(bytes))

-----------------------------------------------------------------------------
(* epoll_wait returns a descriptor of the ready list with what holds of it *)
(* now, if it is watched: EPOLLIN always is.                               *)
Poll ==
    /\ pc = "poll"
    /\ edge
    /\ edge' = FALSE
    /\ ready' = {e \in {"in", "out"} : IF e = "in" THEN input \/ broken ELSE writing /\ Writable}
    /\ input' = FALSE
    /\ nospace' = (nospace \/ (writing /\ ~Writable))
    /\ pc' = IF ready' = {} THEN "poll" ELSE "read"
    /\ UNCHANGED <<buffers, writing, socket, wire, broken>>

(* TcpConnection::Send, called by on_message_ any number of times: it      *)
(* writes if nothing waits in sendBuf, ...                                 *)
Message == {[i \in 1 .. len |-> sent + i] : len \in 1 .. Smaller(MaxLen, MaxBytes - sent)}

(* Mutants of Send: written at once though other bytes wait; the rest      *)
(* appended though there is none.                                          *)
SendAtOnce(message) ==
    /\ pc = "read" /\ "in" \in ready
    /\ sent' = sent + Len(message)
    /\ \/ /\ ~broken
          /\ Write(message)
          /\ rest' = SubSeq(message, Smaller(Room, Len(message)) + 1, Len(message))
       \/ broken /\ UNCHANGED <<rest, socket, nospace>>
    /\ pc' = IF rest' = <<>> THEN "read" ELSE "append"
    /\ UNCHANGED <<sendBuf, writing, ready, edge, input, wire, broken>>

SendNothing(message) ==
    /\ pc = "read" /\ "in" \in ready
    /\ sent' = sent + Len(message)
    /\ \/ sendBuf # <<>> /\ rest' = message /\ UNCHANGED <<socket, nospace>>
       \/ /\ sendBuf = <<>> /\ ~broken
          /\ Write(message)
          /\ rest' = SubSeq(message, Smaller(Room, Len(message)) + 1, Len(message))
       \/ sendBuf = <<>> /\ broken /\ UNCHANGED <<rest, socket, nospace>>
    /\ pc' = "append"
    /\ UNCHANGED <<sendBuf, writing, ready, edge, input, wire, broken>>

Send(message) ==
    /\ pc = "read" /\ "in" \in ready
    /\ sent' = sent + Len(message)
    /\ \/ sendBuf # <<>> /\ rest' = message /\ UNCHANGED <<socket, nospace>>
       \/ /\ sendBuf = <<>> /\ ~broken
          /\ Write(message)
          /\ rest' = SubSeq(message, Smaller(Room, Len(message)) + 1, Len(message))
       \/ sendBuf = <<>> /\ broken /\ UNCHANGED <<rest, socket, nospace>>
    /\ pc' = IF rest' = <<>> THEN "read" ELSE "append"
    /\ UNCHANGED <<sendBuf, writing, ready, edge, input, wire, broken>>

(* ... and appends what is left, and enables writing: a MOD, which tells   *)
(* epoll of a socket that has room again.                                  *)
SendWithoutUpdate ==
    /\ pc = "append"
    /\ sendBuf' = sendBuf \o rest
    /\ rest' = <<>>
    /\ pc' = "read"
    /\ UNCHANGED <<sent, writing, ready, kernel, input, broken>>

SendRest ==
    /\ pc = "append"
    /\ sendBuf' = sendBuf \o rest
    /\ rest' = <<>>
    /\ writing' = TRUE
    /\ edge' = (edge \/ Writable \/ input)
    /\ nospace' = (nospace \/ ~Writable)
    /\ pc' = "read"
    /\ UNCHANGED <<sent, ready, socket, input, wire, broken>>

(* The read callback returns; handleEventWithGuard goes on.                *)
ReadReturns ==
    /\ pc = "read"
    /\ pc' = "write"
    /\ UNCHANGED <<buffers, writing, ready, kernel, input, broken>>

(* handleWrite: sendNonBlocking writes what the socket takes of sendBuf    *)
(* and retrieves it, and then Write retrieves all, also the byte that      *)
(* Retrieve(-1) has put back when the write fails (Buffer!WriteFails).     *)
RetrieveAll == sendBuf' = <<>>

HandleWrite ==
    /\ pc = "write"
    /\ IF "out" \in ready
       THEN /\ RetrieveAll
            /\ IF broken THEN UNCHANGED <<socket, nospace>> ELSE Write(sendBuf)
       ELSE UNCHANGED <<sendBuf, socket, nospace>>
    /\ ready' = {}
    /\ pc' = "poll"
    /\ UNCHANGED <<sent, rest, writing, edge, input, wire, broken>>

-----------------------------------------------------------------------------
LoopStep == Poll \/ SendRest \/ ReadReturns \/ HandleWrite \/ \E message \in Message : Send(message)

Next == InputArrives \/ ClientReceives \/ Breaks \/ LoopStep

(* The loop's thread runs; a client need not read.                         *)
Spec == Init /\ [][Next]_vars /\ WF_vars(LoopStep)

-----------------------------------------------------------------------------
TypeOK == /\ sent \in 0 .. MaxBytes
          /\ sendBuf \in Seq(1 .. MaxBytes)
          /\ rest \in Seq(1 .. MaxBytes)
          /\ (pc = "append") <=> (rest # <<>>)
          /\ writing \in BOOLEAN
          /\ pc \in {"poll", "read", "append", "write"}
          /\ ready \subseteq {"in", "out"}
          /\ socket \in Seq(1 .. MaxBytes) /\ Len(socket) <= SocketSize
          /\ nospace \in BOOLEAN /\ edge \in BOOLEAN /\ input \in BOOLEAN /\ broken \in BOOLEAN
          /\ wire \in Seq(1 .. MaxBytes)

(* What the client has received and what it will, in this order.           *)
Stream == wire \o socket \o sendBuf \o rest

(* The bytes reach the client in the order in which they were sent, and    *)
(* none reaches it twice, though Send may write while others wait.         *)
NeverReordered == \A i, j \in DOMAIN Stream : i < j => Stream[i] < Stream[j]

(* As the comment of Send says, what the socket does not take now is sent  *)
(* later: every byte given to Send is received, in the socket or waiting.  *)
NothingDropped == ~broken => Len(Stream) = sent

(* While the client goes on reading, bytes never wait in sendBuf for ever: *)
(* the edge-triggered event that sends them is not lost.                   *)
OutputLeaves == []<>(socket = <<>> \/ broken) => (sendBuf # <<>> ~> sendBuf = <<>> \/ broken)
=============================================================================
