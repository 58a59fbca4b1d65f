---------------------------- MODULE AsyncLogging ----------------------------
(***************************************************************************)
(* The asynchronous log (src/day23/log/AsyncLogging.cpp): any thread       *)
(* appends records to the current buffer, and one back-end thread collects *)
(* the buffers and writes them. The main thread starts the back end, waits *)
(* for it on a Latch, and may stop it.                                     *)
(*                                                                         *)
(* The bytes are numbered in the order they are given to Append. A step of *)
(* the back end from Collect to Recycle holds the mutex, as Append does.   *)
(***************************************************************************)
EXTENDS Integers, Sequences, SequencesExt

CONSTANTS
    Size,       \* the size of a buffer, FixedLargeBuffferSize
    MaxLen,     \* the longest record
    MaxBytes,   \* the bound on the bytes given to Append
    NoBuffer    \* the null pointer

ASSUME ConstantsAssumption == /\ Size \in Nat /\ MaxLen \in Nat /\ MaxBytes \in Nat
                              /\ MaxLen < Size
                              /\ NoBuffer \notin Seq(Nat)

VARIABLES
    sent,                   \* the number of bytes given to Append
    current, next,          \* current_ and next_, buffers or NoBuffer
    buffers,                \* buffers_
    newCurrent, newNext,    \* ThreadFunc's new_current and new_next
    active,                 \* ThreadFunc's active_buffers
    done, pos,              \* the buffers of active written, and Write's pos
    written,                \* what is in the log files, one after the other
    pc,                     \* where the back end is
    mpc,                    \* where the main thread is
    running, count,         \* running_ and the latch's count_
    notified                \* cv_ was notified during the wait: it changes nothing

front == <<sent, current, next, buffers>>
back == <<newCurrent, newNext, active, done, pos, written>>
main == <<mpc, running, count>>
vars == <<front, back, main, pc, notified>>

Init == /\ sent = 0
        /\ current = <<>> /\ next = <<>> /\ buffers = <<>>
        /\ newCurrent = NoBuffer /\ newNext = NoBuffer /\ active = <<>>
        /\ done = 0 /\ pos = 0 /\ written = <<>>
        /\ pc = "none"
        /\ mpc = "constructed"
        /\ running = FALSE
        /\ count = 1
        /\ notified = FALSE

Locked == pc \in {"write", "recycle"}

-----------------------------------------------------------------------------
(* FixedBuffer.                                                            *)
avail(buffer) == Size - Len(buffer)
Appended(buffer, record) == IF avail(buffer) > Len(record) THEN buffer \o record ELSE buffer

(* Mutant of Zeroed: a buffer is used again with what is in it.            *)
NotZeroed(buffer) == buffer

Zeroed(buffer) == <<>>

Record == {[i \in 1 .. len |-> first + i] : first \in 0 .. MaxBytes - 1, len \in 1 .. MaxLen}

Notify == notified' = (notified \/ pc = "wait")

(* AsyncLogging::Append, in any thread.                                    *)
AppendRecord(record) ==
    /\ ~Locked
    /\ Head(record) = sent + 1 /\ Last(record) <= MaxBytes
    /\ sent' = Last(record)
    /\ \/ /\ avail(current) >= Len(record)
          /\ current' = Appended(current, record)
          /\ UNCHANGED <<next, buffers>>
       \/ /\ avail(current) < Len(record)
          /\ buffers' = Append(buffers, current)
          /\ current' = Appended(IF next # NoBuffer THEN next ELSE <<>>, record)
          /\ next' = NoBuffer
    /\ Notify
    /\ UNCHANGED <<back, main, pc>>

-----------------------------------------------------------------------------
(* The main thread: Start, with Latch::wait, and Stop.                     *)
Start ==
    /\ mpc = "constructed"
    /\ running' = TRUE
    /\ pc' = "begin"
    /\ mpc' = "latch"
    /\ UNCHANGED <<front, back, count, notified>>

LatchWait ==
    /\ mpc = "latch"
    /\ mpc' = IF count > 0 THEN "asleep" ELSE "started"
    /\ UNCHANGED <<front, back, running, count, pc, notified>>

Stop ==
    /\ mpc = "started"
    /\ running' = FALSE
    /\ mpc' = "notify"
    /\ UNCHANGED <<front, back, count, pc, notified>>

StopNotifies ==
    /\ mpc = "notify"
    /\ Notify
    /\ mpc' = "join"
    /\ UNCHANGED <<front, back, running, count, pc>>

Join ==
    /\ mpc = "join" /\ pc = "end"
    /\ mpc' = "stopped"
    /\ UNCHANGED <<front, back, running, count, pc, notified>>

-----------------------------------------------------------------------------
(* The back end, ThreadFunc.                                               *)
(* Mutant of LatchNotify: it does not notify.                              *)
LatchForgets == count' = count - 1 /\ UNCHANGED mpc

LatchNotify ==
    /\ count' = count - 1
    /\ mpc' = IF count' = 0 /\ mpc = "asleep" THEN "latch" ELSE mpc

Begin ==
    /\ pc = "begin"
    /\ LatchNotify
    /\ newCurrent' = <<>> /\ newNext' = <<>>
    /\ pc' = "test"
    /\ UNCHANGED <<front, active, done, pos, written, running, notified>>

(* Mutant of TestRunning: the thread does not see that it shall stop.      *)
TestNothing ==
    /\ pc = "test"
    /\ pc' = "lock"
    /\ UNCHANGED <<front, back, main, notified>>

TestRunning ==
    /\ pc = "test"
    /\ pc' = IF running THEN "lock" ELSE "end"
    /\ UNCHANGED <<front, back, main, notified>>

(* Mutants of TakeBuffers and RefillFront below: the current buffer goes   *)
(* before the full ones; current_ is left null when next_ was.             *)
TakeInFront == active' = <<current>> \o buffers /\ buffers' = active

RefillOne ==
    /\ newCurrent' = NoBuffer
    /\ \/ next # NoBuffer /\ current' = newCurrent /\ UNCHANGED <<next, newNext>>
       \/ next = NoBuffer /\ next' = newCurrent /\ current' = NoBuffer /\ UNCHANGED newNext

(* The current buffer goes to the full ones, which are taken; other        *)
(* buffers take the places of current_ and, if it is null, next_.          *)
TakeBuffers == active' = Append(buffers, current) /\ buffers' = active

RefillFront ==
    /\ current' = newCurrent
    /\ newCurrent' = NoBuffer
    /\ \/ next # NoBuffer /\ UNCHANGED <<next, newNext>>
       \/ next = NoBuffer /\ next' = newNext /\ newNext' = NoBuffer

Collect == /\ TakeBuffers
           /\ RefillFront
           /\ pc' = "write"
           /\ UNCHANGED <<sent, done, pos, written, main>>

LockAndTest ==
    /\ pc = "lock"
    /\ \/ buffers # <<>> /\ Collect /\ UNCHANGED notified
       \/ /\ buffers = <<>>
          /\ pc' = "wait"
          /\ notified' = FALSE
          /\ UNCHANGED <<front, back, main>>

(* Mutant of TimeOut: buffers are collected only if one is full.           *)
TimeOutIfFull ==
    /\ pc = "wait"
    /\ notified' = FALSE
    /\ \/ buffers # <<>> /\ Collect
       \/ buffers = <<>> /\ pc' = "test" /\ UNCHANGED <<front, back, main>>

(* wait_until: its predicate is false whenever it is asked.                *)
TimeOut == pc = "wait" /\ Collect /\ notified' = FALSE

(* LogFile::Write: fwrite takes some of the bytes that are left.           *)
WriteSome ==
    /\ pc = "write" /\ done < Len(active)
    /\ LET bytes == active[done + 1] IN
       \/ \E n \in 1 .. Len(bytes) - pos :
             /\ written' = written \o SubSeq(bytes, pos + 1, pos + n)
             /\ pos' = pos + n
             /\ UNCHANGED done
       \/ pos = Len(bytes) /\ done' = done + 1 /\ pos' = 0 /\ UNCHANGED written
    /\ UNCHANGED <<front, newCurrent, newNext, active, main, pc, notified>>

AllWritten ==
    /\ pc = "write" /\ done = Len(active)
    /\ pc' = "recycle"
    /\ UNCHANGED <<front, back, main, notified>>

(* Mutant of Kept: one buffer is enough.                                   *)
KeptOne == SubSeq(active, 1, 1)

(* Two of the buffers become new_current and new_next, if they are null.   *)
Kept == SubSeq(active, 1, IF Len(active) > 2 THEN 2 ELSE Len(active))
KeptForNext == IF newCurrent = NoBuffer THEN Front(Kept) ELSE Kept

Recycle ==
    /\ pc = "recycle"
    /\ newCurrent' = IF newCurrent = NoBuffer THEN Zeroed(Last(Kept)) ELSE newCurrent
    /\ newNext' = IF newNext = NoBuffer THEN Zeroed(Last(KeptForNext)) ELSE newNext
    /\ active' = <<>>
    /\ done' = 0
    /\ pc' = "test"
    /\ UNCHANGED <<front, pos, written, main, notified>>

-----------------------------------------------------------------------------
BackEnd == \/ Begin \/ TestRunning \/ LockAndTest \/ TimeOut
           \/ WriteSome \/ AllWritten \/ Recycle

Next == \/ \E record \in Record : AppendRecord(record)
        \/ Start \/ LatchWait \/ Stop \/ StopNotifies \/ Join
        \/ BackEnd

(* The threads run, the clock goes on and the disk takes bytes.            *)
Spec == /\ Init /\ [][Next]_vars
        /\ WF_vars(BackEnd) /\ WF_vars(LatchWait \/ StopNotifies \/ Join)

-----------------------------------------------------------------------------
Buffer == {bytes \in Seq(1 .. MaxBytes) : Len(bytes) < Size}

TypeOK == /\ sent \in 0 .. MaxBytes
          /\ current \in Buffer
          /\ next \in Buffer \cup {NoBuffer}
          /\ buffers \in Seq(Buffer) /\ active \in Seq(Buffer)
          /\ newCurrent \in Buffer \cup {NoBuffer} /\ newNext \in Buffer \cup {NoBuffer}
          /\ done \in 0 .. Len(active) /\ pos \in 0 .. Size
          /\ written \in Seq(1 .. MaxBytes)
          /\ pc \in {"none", "begin", "test", "lock", "wait", "write", "recycle", "end"}
          /\ mpc \in {"constructed", "latch", "asleep", "started", "notify", "join", "stopped"}
          /\ running \in BOOLEAN /\ count \in {0, 1} /\ notified \in BOOLEAN

(* ThreadFunc never calls back() on an empty vector: after it has written, *)
(* there is a buffer for each of new_current and new_next that is null.    *)
EnoughBuffers ==
    pc = "recycle" => /\ newCurrent = NoBuffer => Kept # <<>>
                      /\ newNext = NoBuffer => KeptForNext # <<>>

(* What is written and what will be, in this order.                        *)
Unwritten == IF done = Len(active) THEN <<>>
             ELSE SubSeq(active[done + 1], pos + 1, Len(active[done + 1]))
                  \o FlattenSeq(SubSeq(active, done + 2, Len(active)))
Stream == written \o Unwritten \o FlattenSeq(buffers) \o current

(* Records go to the file in the order of the calls of Append, whole and   *)
(* once, whatever buffers they pass through.                               *)
TheLog == INSTANCE Log WITH accepted <- Stream
ImplementsLog == TheLog!Spec

(* No record is lost: what is given to Append is written or kept.          *)
NothingLost == Len(Stream) = sent

(* Until the log is stopped, every record in it is written in the end.     *)
EventuallyWritten ==
    \A n \in 1 .. MaxBytes : mpc = "started" /\ Len(Stream) >= n ~> Len(written) >= n \/ ~running

(* Start and Stop return: the latch is not missed, the thread is joined.   *)
StartReturns == mpc = "latch" ~> mpc = "started"
StopReturns == mpc = "join" ~> mpc = "stopped"
=============================================================================
