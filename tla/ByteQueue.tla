------------------------------ MODULE ByteQueue ------------------------------
(***************************************************************************)
(* What class Buffer promises (src/day23/tcp/Buffer.h): bytes come out in  *)
(* the order they were appended, each one once.                            *)
(***************************************************************************)
EXTENDS Integers, Sequences

CONSTANT Message    \* the messages that may be appended, sequences of bytes

VARIABLES
    queue,  \* the bytes appended and not retrieved
    out     \* the string that the last operation returned

Init == queue = <<>> /\ out = <<>>

append(message) == queue' = queue \o message /\ out' = <<>>

(* Some first bytes are retrieved, and returned or not.                    *)
Retrieve(len) == /\ queue' = SubSeq(queue, len + 1, Len(queue))
                 /\ out' \in {<<>>, SubSeq(queue, 1, len)}

Next == \/ \E message \in Message : append(message)
        \/ \E len \in 0 .. Len(queue) : Retrieve(len)

Spec == Init /\ [][Next]_<<queue, out>>
=============================================================================
