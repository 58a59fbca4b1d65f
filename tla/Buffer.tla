------------------------------- MODULE Buffer -------------------------------
(***************************************************************************)
(* The buffer of a connection (src/day23/tcp/Buffer.cpp): a vector of      *)
(* bytes, of which those from read_index_ to write_index_ are readable.    *)
(* An index i of the code is place i + 1 of the sequence bytes.            *)
(***************************************************************************)
EXTENDS Integers, Sequences

CONSTANTS
    Byte, Zero,     \* the bytes, and the one a vector is filled with
    Message,        \* the messages that may be appended
    PrependIndex,   \* kPrePendIndex
    InitialSize,    \* kInitalSize
    MaxInt          \* the bound on write_index_, an int

ASSUME ConstantsAssumption == /\ Zero \in Byte
                              /\ Message \subseteq Seq(Byte)
                              /\ PrependIndex \in Nat \ {0}
                              /\ InitialSize \in Nat
                              /\ MaxInt \in Nat
                              /\ PrependIndex <= InitialSize

VARIABLES
    buf,    \* [bytes, read, write]: buffer_, read_index_ and write_index_
    failed, \* TcpConnection::Write is past a write() that failed, before its RetrieveAll
    out     \* the string that the last operation returned

vars == <<buf, failed, out>>

readablebytes(b) == b.write - b.read
writablebytes(b) == Len(b.bytes) - b.write
PeekAsString(b, len) == SubSeq(b.bytes, b.read + 1, b.read + len)
Contents(b) == PeekAsString(b, readablebytes(b))

Zeros(n) == [i \in 1 .. n |-> Zero]

Init == /\ buf = [bytes |-> Zeros(InitialSize), read |-> PrependIndex, write |-> PrependIndex]
        /\ failed = FALSE
        /\ out = <<>>

-----------------------------------------------------------------------------
(* Room for len more bytes: as it is, by moving the readable bytes to the  *)
(* front, or by growing.                                                   *)
MovedToFront(b) ==
    LET last == PrependIndex + readablebytes(b) IN
    [bytes |-> [i \in 1 .. Len(b.bytes) |->
                   IF i \in PrependIndex + 1 .. last THEN b.bytes[b.read + i - PrependIndex] ELSE b.bytes[i]],
     read  |-> PrependIndex,
     write |-> last]

Grown(b, len) == [bytes |-> b.bytes \o Zeros(b.write + len - Len(b.bytes)),
                  read  |-> b.read,
                  write |-> b.write]

(* Mutants of EnsureWritableBytes: the move leaves the bytes where they    *)
(* are; moving takes one more byte of room than it needs; nothing grows.   *)
EnsureByReset(b, len) ==
    IF writablebytes(b) >= len THEN b
    ELSE IF writablebytes(b) + b.read >= PrependIndex + len
         THEN [b EXCEPT !.read = PrependIndex, !.write = PrependIndex + readablebytes(b)]
         ELSE Grown(b, len)

EnsureWithSpare(b, len) ==
    IF writablebytes(b) >= len THEN b
    ELSE IF writablebytes(b) + b.read > PrependIndex + len THEN MovedToFront(b) ELSE Grown(b, len)

EnsureByMove(b, len) == IF writablebytes(b) >= len THEN b ELSE MovedToFront(b)

EnsureWritableBytes(b, len) ==
    IF writablebytes(b) >= len THEN b
    ELSE IF writablebytes(b) + b.read >= PrependIndex + len THEN MovedToFront(b) ELSE Grown(b, len)

Appended(b, message) ==
    LET e == EnsureWritableBytes(b, Len(message)) IN
    [bytes |-> [i \in 1 .. Len(e.bytes) |->
                   IF i \in e.write + 1 .. e.write + Len(message) THEN message[i - e.write] ELSE e.bytes[i]],
     read  |-> e.read,
     write |-> e.write + Len(message)]

RetrievedAll(b) == [b EXCEPT !.read = PrependIndex, !.write = PrependIndex]

Retrieved(b, len) == IF readablebytes(b) > len THEN [b EXCEPT !.read = @ + len] ELSE RetrievedAll(b)

-----------------------------------------------------------------------------
(* The operations; what their assertions ask is their caller's duty.       *)
append(message) ==
    /\ buf.write + Len(message) <= MaxInt
    /\ buf' = Appended(buf, message)
    /\ out' = <<>>

Retrieve(len) ==
    /\ readablebytes(buf) >= len
    /\ buf' = Retrieved(buf, len)
    /\ out' = <<>>

RetrieveAsString(len) ==
    /\ buf.read + len <= buf.write
    /\ out' = PeekAsString(buf, len)
    /\ buf' = Retrieved(buf, len)

RetrieveAll ==
    /\ buf' = RetrievedAll(buf)
    /\ out' = <<>>

RetrieveAllAsString ==
    /\ readablebytes(buf) > 0
    /\ out' = Contents(buf)
    /\ buf' = RetrievedAll(buf)

(* Up to a place in the readable bytes, given by its distance from the     *)
(* first one; the indices are not rewound, even when nothing is left.      *)
RetrieveUtil(len) ==
    /\ readablebytes(buf) >= len
    /\ buf' = [buf EXCEPT !.read = @ + len]
    /\ out' = <<>>

RetrieveUtilAsString(len) ==
    /\ readablebytes(buf) >= len
    /\ out' = PeekAsString(buf, len)
    /\ buf' = [buf EXCEPT !.read = @ + len]

Operations == \/ \E message \in Message : append(message)
              \/ \E len \in 0 .. readablebytes(buf) : \/ Retrieve(len) \/ RetrieveAsString(len)
                                                      \/ RetrieveUtil(len) \/ RetrieveUtilAsString(len)
              \/ RetrieveAll
              \/ RetrieveAllAsString

(* The assertion of Retrieve lets a negative length through, and there is  *)
(* one caller that gives it one: sendNonBlocking retrieves what write()    *)
(* returned, which is -1 when the socket has an error. read_index_ goes    *)
(* back by one, below PrependIndex if it was there, and Write, the only    *)
(* caller of sendNonBlocking, goes on to retrieve everything.              *)
WriteFails == Retrieve(-1) /\ failed' = TRUE

WriteEnds == RetrieveAll /\ failed' = FALSE

Next == \/ ~failed /\ Operations /\ failed' = FALSE
        \/ ~failed /\ WriteFails
        \/ failed /\ WriteEnds

Spec == Init /\ [][Next]_vars

-----------------------------------------------------------------------------
(* The bytes that a failed write has put back before the readable ones.    *)
putBack == IF failed THEN 1 ELSE 0

(* The buffer without them.                                                *)
Restored == [buf EXCEPT !.read = @ + putBack]

(* The indices stay in order and inside the vector, and the first          *)
(* PrependIndex bytes are not readable, but for the byte that a failed     *)
(* write puts back, which may be the last of them.                         *)
TypeOK == /\ buf \in [bytes : Seq(Byte), read : Nat, write : Nat]
          /\ failed \in BOOLEAN
          /\ out \in Seq(Byte)
          /\ PrependIndex <= buf.read + putBack
          /\ buf.read + putBack <= buf.write
          /\ buf.write <= Len(buf.bytes)

(* A Buffer is a queue of bytes, wherever in the vector they are moved. A  *)
(* failed write leaves a byte that is not of the queue readable before it, *)
(* a byte already retrieved or one that never was appended: no string that *)
(* an operation returns has it, for Write discards it with the queue.      *)
Queue == INSTANCE ByteQueue WITH queue <- Contents(Restored), out <- out
ImplementsByteQueue == Queue!Spec

(* The vector grows only when the readable bytes and the new ones do not   *)
(* fit in it: a buffer that is read now and then does not grow for ever.   *)
GrowsOnlyWhenFull ==
    [][Len(buf'.bytes) > Len(buf.bytes) => PrependIndex + readablebytes(buf') > Len(buf.bytes)]_vars
=============================================================================
