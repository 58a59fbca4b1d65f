------------------------------- MODULE LogFile -------------------------------
(***************************************************************************)
(* The files of the asynchronous log (src/day23/log/LogFile.cpp), which    *)
(* the back end of AsyncLogging writes: what fwrite takes waits in the     *)
(* buffer of a FILE until it is full, or until LogFile flushes it. After   *)
(* a round of writes the back end may begin another file.                  *)
(*                                                                         *)
(* The module extends AsyncLogging, whose steps it completes by what they  *)
(* do to the file. Times are seconds, as time() gives them; the clock goes *)
(* on between any two steps.                                               *)
(***************************************************************************)
EXTENDS AsyncLogging

CONSTANTS
    FlushInterval,      \* the seconds between two flushes
    FileMaximumSize,    \* the bytes after which another file is begun
    MaxNow              \* the bound on the clock

ASSUME FileAssumption == FlushInterval \in Nat /\ FileMaximumSize \in Nat /\ MaxNow \in Nat

VARIABLES
    now,                    \* the clock
    disk,                   \* what the files have on the disk, one after the other
    stdio,                  \* what is in the buffer of the FILE
    oldest,                 \* when the first byte of stdio was written
    lastwrite, lastflush,   \* lastwrite_ and lastflush_
    size                    \* written_bytes_

stamps == <<lastwrite, lastflush>>
file == <<disk, stdio, oldest, stamps, size>>
logVars == <<vars, now, file>>

(* The first file; time() is long after the epoch.                         *)
LogInit == /\ Init
           /\ now = FlushInterval + 1
           /\ disk = <<>> /\ stdio = <<>> /\ oldest = 0
           /\ lastwrite = 0 /\ lastflush = 0 /\ size = 0

Tick == /\ now < MaxNow
        /\ now' = now + 1
        /\ UNCHANGED <<vars, file>>

-----------------------------------------------------------------------------
Flush == /\ disk' = disk \o stdio
         /\ stdio' = <<>>
         /\ oldest' = 0

(* The members of a LogFile just begun.                                    *)
Fresh == lastwrite' = 0 /\ lastflush' = 0 /\ size' = 0

(* Write: fwrite takes bytes, and passes on what the buffer of the FILE    *)
(* cannot hold.                                                            *)
Taken == SubSeq(written', Len(written) + 1, Len(written'))

FWrite ==
    /\ WriteSome /\ done' = done
    /\ LET bytes == stdio \o Taken IN
       \E n \in 0 .. Len(bytes) :
          /\ disk' = disk \o SubSeq(bytes, 1, n)
          /\ stdio' = SubSeq(bytes, n + 1, Len(bytes))
    /\ oldest' = IF stdio' = <<>> THEN 0 ELSE IF stdio = <<>> THEN now ELSE oldest
    /\ UNCHANGED <<stamps, size, now>>

(* Mutant of EndWrite: the test is made before the time is noted.          *)
EndWriteLate ==
    /\ WriteSome /\ done' # done
    /\ lastwrite' = IF active[done + 1] # <<>> THEN now ELSE lastwrite
    /\ size' = size + Len(active[done + 1])
    /\ IF lastwrite - lastflush > FlushInterval
       THEN Flush /\ lastflush' = now
       ELSE UNCHANGED <<disk, stdio, oldest, lastflush>>
    /\ UNCHANGED now

(* ... and then the times are noted, which tell whether to flush.          *)
EndWrite ==
    /\ WriteSome /\ done' # done
    /\ lastwrite' = IF active[done + 1] # <<>> THEN now ELSE lastwrite
    /\ size' = size + Len(active[done + 1])
    /\ IF lastwrite' - lastflush > FlushInterval
       THEN Flush /\ lastflush' = now
       ELSE UNCHANGED <<disk, stdio, oldest, lastflush>>
    /\ UNCHANGED now

(* Mutant of Rotate: the old file is not flushed before it is let go.      *)
RotateWithoutFlush ==
    /\ AllWritten
    /\ IF size >= FileMaximumSize
       THEN stdio' = <<>> /\ oldest' = 0 /\ Fresh /\ UNCHANGED disk
       ELSE UNCHANGED file
    /\ UNCHANGED now

(* ThreadFunc begins another file; ~LogFile flushes the old one.           *)
Rotate ==
    /\ AllWritten
    /\ IF size >= FileMaximumSize
       THEN Flush /\ Fresh
       ELSE UNCHANGED file
    /\ UNCHANGED now

(* It returns when the log is stopped, and ~LogFile flushes the last file. *)
EndThread ==
    /\ TestRunning
    /\ IF pc' = "end" THEN Flush ELSE UNCHANGED <<disk, stdio, oldest>>
    /\ UNCHANGED <<stamps, size, now>>

-----------------------------------------------------------------------------
WithoutFile(A) == A /\ UNCHANGED <<now, file>>

LogBackEnd == \/ FWrite \/ EndWrite \/ Rotate \/ EndThread
              \/ WithoutFile(Begin \/ LockAndTest \/ TimeOut \/ Recycle)

LogMain == WithoutFile(LatchWait \/ StopNotifies \/ Join)

LogNext == \/ Tick
           \/ LogBackEnd \/ LogMain
           \/ WithoutFile(Start \/ Stop \/ \E record \in Record : AppendRecord(record))

(* As in AsyncLogging; the model's clock may stand still.                  *)
LogSpec == LogInit /\ [][LogNext]_logVars /\ WF_logVars(LogBackEnd) /\ WF_logVars(LogMain)

-----------------------------------------------------------------------------
(* What is still in the buffer of the FILE was written at most             *)
(* FlushInterval before the last record: LogFile tells so from two times   *)
(* that it notes when records are written only, and that begin anew with   *)
(* each file.                                                              *)
FlushedInTime == stdio # <<>> => lastwrite - oldest <= FlushInterval

(* When the back end has ended, all that it wrote is on the disk, in order *)
(* and once, in however many files: none of them is let go unflushed.      *)
OnDiskWhenEnded == pc = "end" => disk = written
=============================================================================
