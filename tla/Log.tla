--------------------------------- MODULE Log ---------------------------------
(***************************************************************************)
(* What an asynchronous log promises (src/day23/log/AsyncLogging.h): the   *)
(* records it accepts are written whole and in order, each one once. The   *)
(* bytes of the records are numbered in the order they were appended.      *)
(***************************************************************************)
EXTENDS Integers, Sequences

CONSTANT Record     \* the records, sequences of bytes

VARIABLES
    accepted,   \* the bytes of the records accepted
    written     \* those in the log file

Init == accepted = <<>> /\ written = <<>>

AppendRecord(record) ==
    /\ \A i \in DOMAIN accepted : accepted[i] < Head(record)
    /\ accepted' = accepted \o record
    /\ UNCHANGED written

Write == /\ \E n \in Len(written) + 1 .. Len(accepted) : written' = SubSeq(accepted, 1, n)
         /\ UNCHANGED accepted

Next == Write \/ \E record \in Record : AppendRecord(record)

Spec == Init /\ [][Next]_<<accepted, written>>
=============================================================================
