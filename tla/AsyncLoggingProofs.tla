------------------------- MODULE AsyncLoggingProofs -------------------------
(***************************************************************************)
(* AsyncLogging's buffers, for buffers and records of any size: no pointer *)
(* is null when it is used, and ThreadFunc always finds the buffers it     *)
(* takes back.                                                             *)
(*                                                                         *)
(* Four buffers circulate. While the back end does not hold the mutex, it  *)
(* has two of them; next_ is null only if Append has used it, and then a   *)
(* full buffer is in buffers_. So whoever finds next_ null in the back end *)
(* has taken two buffers at least.                                         *)
(***************************************************************************)
EXTENDS LogFile, SequenceLemmas, TLAPS

Idle == pc \in {"test", "lock", "wait", "end"}

Circulation ==
    /\ Idle => newCurrent # NoBuffer /\ newNext # NoBuffer
    /\ ~Locked => active = <<>> /\ done = 0
    /\ ~Locked /\ next = NoBuffer => buffers # <<>>
    /\ Locked => /\ newCurrent = NoBuffer
                 /\ next # NoBuffer
                 /\ buffers = <<>>
                 /\ active # <<>>
                 /\ newNext = NoBuffer => Len(active) > 1
    /\ Locked \/ Idle => count = 0
    /\ pc = "none" <=> mpc = "constructed"
    /\ pc \in {"none", "begin"} => count = 1

Inv == TypeOK /\ Circulation

-----------------------------------------------------------------------------
LEMMA BufferFacts ==
    /\ <<>> \in Buffer
    /\ NoBuffer \notin Buffer
    /\ \A buffer \in Buffer : buffer \in Seq(1 .. MaxBytes) /\ Len(buffer) \in Nat /\ Len(buffer) < Size
<1>1. 1 .. MaxBytes \subseteq Nat
  BY ConstantsAssumption
<1>2. ASSUME NEW buffer \in Seq(1 .. MaxBytes)
      PROVE  buffer \in Seq(Nat) /\ Len(buffer) \in Nat
  <2>1. \A i \in 1 .. Len(buffer) : buffer[i] \in 1 .. MaxBytes
    BY ElementOfSeq
  <2>2. buffer \in [1 .. Len(buffer) -> Nat] /\ Len(buffer) \in Nat
    BY <1>1, <2>1, LenProperties
  <2> QED
    BY <2>2
<1>3. <<>> \in Seq(1 .. MaxBytes) /\ Len(<<>>) < Size
  BY ConstantsAssumption
<1> QED
  BY <1>2, <1>3, ConstantsAssumption DEF Buffer

(* FixedBuffer::append keeps a buffer a buffer.                            *)
LEMMA AppendedIsBuffer ==
    ASSUME NEW buffer \in Buffer, NEW record \in Seq(1 .. MaxBytes)
    PROVE  Appended(buffer, record) \in Buffer
BY BufferFacts, ConstantsAssumption DEF Appended, avail, Buffer

LEMMA RecordIsBytes ==
    ASSUME NEW record \in Record, Last(record) <= MaxBytes
    PROVE  /\ record \in Seq(1 .. MaxBytes)
           /\ Last(record) \in Nat
<1>1. PICK first \in 0 .. MaxBytes - 1, len \in 1 .. MaxLen : record = [i \in 1 .. len |-> first + i]
  BY DEF Record
<1>2. Len(record) = len /\ record \in Seq(Nat)
  BY <1>1, ConstantsAssumption
<1>3. Last(record) = first + len
  BY <1>1, <1>2, ConstantsAssumption DEF Last
<1>4. \A i \in 1 .. len : record[i] \in 1 .. MaxBytes
  BY <1>1, <1>3, ConstantsAssumption
<1> QED
  BY <1>1, <1>2, <1>3, <1>4, ConstantsAssumption

-----------------------------------------------------------------------------
LEMMA InitInv == Init => Inv
<1> SUFFICES ASSUME Init
             PROVE  Inv
  OBVIOUS
<1>1. <<>> \in Buffer /\ NoBuffer # <<>>
  BY BufferFacts
<1>2. TypeOK
  <2>1. /\ <<>> \in Seq(Buffer) /\ <<>> \in Seq(1 .. MaxBytes)
        /\ Len(<<>>) = 0
    BY EmptySeq
  <2>2. sent \in 0 .. MaxBytes /\ pos \in 0 .. Size /\ done \in 0 .. Len(active)
    BY <2>1, ConstantsAssumption DEF Init
  <2>3. /\ current \in Buffer /\ next \in Buffer \cup {NoBuffer}
        /\ buffers \in Seq(Buffer) /\ active \in Seq(Buffer)
        /\ newCurrent \in Buffer \cup {NoBuffer} /\ newNext \in Buffer \cup {NoBuffer}
        /\ written \in Seq(1 .. MaxBytes)
    BY <1>1, <2>1 DEF Init
  <2> QED
    BY <2>2, <2>3 DEF Init, TypeOK
<1>3. Circulation
  BY <1>1 DEF Init, Circulation, Idle, Locked
<1> QED
  BY <1>2, <1>3 DEF Inv

LEMMA AppendInv ==
    ASSUME Inv, NEW record \in Record, AppendRecord(record)
    PROVE  Inv'
<1> USE DEF Inv, AppendRecord, front, back, main
<1>1. record \in Seq(1 .. MaxBytes) /\ Last(record) \in Nat /\ Last(record) <= MaxBytes
  BY RecordIsBytes
<1>2. Appended(current, record) \in Buffer /\ Appended(<<>>, record) \in Buffer
  BY <1>1, AppendedIsBuffer, BufferFacts DEF TypeOK
<1>3. next # NoBuffer => Appended(next, record) \in Buffer
  BY <1>1, AppendedIsBuffer DEF TypeOK
<1>4. current' \in Buffer /\ next' \in Buffer \cup {NoBuffer} /\ buffers' \in Seq(Buffer)
  <2>1. CASE current' = Appended(current, record) /\ UNCHANGED <<next, buffers>>
    BY <2>1, <1>2 DEF TypeOK
  <2>2. CASE /\ buffers' = Append(buffers, current)
             /\ current' = Appended(IF next # NoBuffer THEN next ELSE <<>>, record)
             /\ next' = NoBuffer
    <3>1. current' \in Buffer
      BY <2>2, <1>2, <1>3
    <3> QED
      BY <2>2, <3>1 DEF TypeOK
  <2> QED
    BY <2>1, <2>2
<1>5. notified' \in BOOLEAN
  BY DEF TypeOK, Notify
<1>6. TypeOK'
  BY <1>1, <1>4, <1>5, ConstantsAssumption DEF TypeOK
<1>7. next' = NoBuffer => buffers' # <<>>
  BY DEF Circulation, TypeOK
<1>8. Circulation'
  BY <1>7 DEF Circulation, Idle, Locked
<1> QED
  BY <1>6, <1>8

LEMMA MainInv ==
    ASSUME Inv, Start \/ LatchWait \/ Stop \/ StopNotifies \/ Join
    PROVE  Inv'
<1> USE DEF Inv, TypeOK, Circulation, Idle, Locked, front, back, main
<1>1. CASE Start
  BY <1>1 DEF Start
<1>2. CASE LatchWait
  BY <1>2 DEF LatchWait
<1>3. CASE Stop
  BY <1>3 DEF Stop
<1>4. CASE StopNotifies
  BY <1>4 DEF StopNotifies, Notify
<1>5. CASE Join
  BY <1>5 DEF Join
<1> QED
  BY <1>1, <1>2, <1>3, <1>4, <1>5

LEMMA CollectInv ==
    ASSUME Inv, pc \in {"lock", "wait"}, Collect, notified' \in BOOLEAN
    PROVE  Inv'
<1> USE DEF Inv, Collect, TakeBuffers, RefillFront, main
<1>1. /\ active = <<>> /\ done = 0 /\ count = 0
      /\ newCurrent # NoBuffer /\ newNext # NoBuffer
      /\ next = NoBuffer => buffers # <<>>
  BY DEF Circulation, Idle, Locked
<1>2. /\ active' \in Seq(Buffer) /\ active' # <<>>
      /\ Len(active') = Len(buffers) + 1
      /\ buffers' = <<>>
  BY <1>1 DEF TypeOK
<1>3. TypeOK'
  BY <1>1, <1>2, BufferFacts DEF TypeOK
<1>4. next' # NoBuffer /\ (newNext' = NoBuffer => buffers # <<>>)
  BY <1>1
<1>5. newNext' = NoBuffer => Len(active') > 1
  BY <1>2, <1>4 DEF TypeOK
<1>6. Circulation'
  BY <1>1, <1>2, <1>4, <1>5 DEF Circulation, Idle, Locked
<1> QED
  BY <1>3, <1>6

LEMMA PartIsBytes ==
    ASSUME NEW bytes \in Buffer, NEW p \in Nat, NEW n \in Nat, p + n <= Len(bytes)
    PROVE  SubSeq(bytes, p + 1, p + n) \in Seq(1 .. MaxBytes)
<1>1. bytes \in Seq(1 .. MaxBytes) /\ Len(bytes) \in Nat
  BY BufferFacts
<1>2. \A i \in 1 .. Len(bytes) : bytes[i] \in 1 .. MaxBytes
  BY <1>1, ElementOfSeq
<1>3. \A i \in p + 1 .. p + n : bytes[i] \in 1 .. MaxBytes
  BY <1>1, <1>2
<1>4. p + 1 \in Int /\ p + n \in Int
  OBVIOUS
<1> QED
  BY <1>3, <1>4, SubSeqProperties

LEMMA WriteInv ==
    ASSUME Inv, WriteSome
    PROVE  Inv'
<1> USE DEF Inv, WriteSome, front, main
<1> DEFINE bytes == active[done + 1]
<1>1. bytes \in Buffer
  BY DEF TypeOK
<1>2. bytes \in Seq(1 .. MaxBytes) /\ Len(bytes) \in Nat /\ Len(bytes) < Size
  BY <1>1, BufferFacts
<1>3. CASE \E n \in 1 .. Len(bytes) - pos :
             /\ written' = written \o SubSeq(bytes, pos + 1, pos + n)
             /\ pos' = pos + n
             /\ UNCHANGED done
  <2>1. PICK n \in 1 .. Len(bytes) - pos :
             /\ written' = written \o SubSeq(bytes, pos + 1, pos + n)
             /\ pos' = pos + n
             /\ UNCHANGED done
    BY <1>3
  <2>2. SubSeq(bytes, pos + 1, pos + n) \in Seq(1 .. MaxBytes)
    <3>1. pos \in Nat /\ n \in Nat /\ pos + n <= Len(bytes)
      BY <1>2 DEF TypeOK
    <3> QED
      BY <1>1, <3>1, PartIsBytes
  <2>3. written' \in Seq(1 .. MaxBytes)
    BY <2>1, <2>2 DEF TypeOK
  <2>4. pos' \in 0 .. Size
    BY <1>2, <2>1, ConstantsAssumption DEF TypeOK
  <2> QED
    BY <2>1, <2>3, <2>4 DEF TypeOK, Circulation, Idle, Locked
<1>4. CASE pos = Len(bytes) /\ done' = done + 1 /\ pos' = 0 /\ UNCHANGED written
  BY <1>4, ConstantsAssumption DEF TypeOK, Circulation, Idle, Locked
<1> QED
  BY <1>3, <1>4

(* The step that the invariant is for.                                     *)
LEMMA EnoughToKeep == Inv => EnoughBuffers
<1> SUFFICES ASSUME Inv, pc = "recycle"
             PROVE  /\ newCurrent = NoBuffer => Kept # <<>>
                    /\ newNext = NoBuffer => KeptForNext # <<>>
  BY DEF EnoughBuffers
<1>1. /\ active \in Seq(Buffer) /\ active # <<>> /\ newCurrent = NoBuffer
      /\ newNext = NoBuffer => Len(active) > 1
  BY DEF Inv, TypeOK, Circulation, Locked
<1>2. /\ Kept \in Seq(Buffer)
      /\ Len(Kept) = IF Len(active) > 2 THEN 2 ELSE Len(active)
  <2> DEFINE n == IF Len(active) > 2 THEN 2 ELSE Len(active)
  <2>1. n \in 0 .. Len(active)
    BY <1>1
  <2>2. SubSeq(active, 1, n) \in Seq(Buffer) /\ Len(SubSeq(active, 1, n)) = n
    <3> HIDE DEF n
    <3> QED
      BY <1>1, <2>1
  <2> QED
    BY <2>2 DEF Kept
<1>3. Len(active) \in Nat \ {0}
  BY <1>1, EmptySeq
<1>4. Len(Kept) > 0 /\ (newNext = NoBuffer => Len(Kept) > 1)
  BY <1>1, <1>2, <1>3
<1>5. Kept # <<>>
  BY <1>4, EmptySeq
<1>6. newNext = NoBuffer => Len(KeptForNext) = Len(Kept) - 1
  BY <1>1, <1>2, <1>4 DEF KeptForNext, Front
<1>7. newNext = NoBuffer => KeptForNext # <<>>
  BY <1>2, <1>3, <1>4, <1>6, EmptySeq
<1> QED
  BY <1>5, <1>7

LEMMA BackEndInv ==
    ASSUME Inv, BackEnd
    PROVE  Inv'
<1>1. CASE Begin
  BY <1>1, BufferFacts DEF Begin, LatchNotify, Inv, TypeOK, Circulation, Idle, Locked, front
<1>2. CASE TestRunning
  BY <1>2 DEF TestRunning, Inv, TypeOK, Circulation, Idle, Locked, front, back, main
<1>3. CASE LockAndTest
  <2>1. CASE buffers # <<>> /\ Collect /\ UNCHANGED notified
    <3>1. notified' \in BOOLEAN /\ pc \in {"lock", "wait"}
      BY <1>3, <2>1 DEF LockAndTest, Inv, TypeOK
    <3> QED
      BY <2>1, <3>1, CollectInv
  <2>2. CASE pc' = "wait" /\ notified' = FALSE /\ UNCHANGED <<front, back, main>>
    BY <1>3, <2>2 DEF LockAndTest, Inv, TypeOK, Circulation, Idle, Locked, front, back, main
  <2> QED
    BY <1>3, <2>1, <2>2 DEF LockAndTest
<1>4. CASE TimeOut
  <2>1. Collect /\ notified' \in BOOLEAN /\ pc \in {"lock", "wait"}
    BY <1>4 DEF TimeOut
  <2> QED
    BY <2>1, CollectInv
<1>5. CASE WriteSome
  BY <1>5, WriteInv
<1>6. CASE AllWritten
  BY <1>6 DEF AllWritten, Inv, TypeOK, Circulation, Idle, Locked, front, back, main
<1>7. CASE Recycle
  <2>1. newCurrent' = <<>> /\ newNext' \in Buffer
    BY <1>7, BufferFacts DEF Recycle, Zeroed, Inv, TypeOK, Circulation, Locked
  <2> QED
    BY <1>7, <2>1, BufferFacts DEF Recycle, Inv, TypeOK, Circulation, Idle, Locked, front, main
<1> QED
  BY <1>1, <1>2, <1>3, <1>4, <1>5, <1>6, <1>7 DEF BackEnd

LEMMA NextInv == Inv /\ [Next]_vars => Inv'
<1> SUFFICES ASSUME Inv, [Next]_vars
             PROVE  Inv'
  OBVIOUS
<1>1. CASE \E record \in Record : AppendRecord(record)
  BY <1>1, AppendInv
<1>2. CASE Start \/ LatchWait \/ Stop \/ StopNotifies \/ Join
  BY <1>2, MainInv
<1>3. CASE BackEnd
  BY <1>3, BackEndInv
<1>4. CASE UNCHANGED vars
  BY <1>4 DEF vars, front, back, main, Inv, TypeOK, Circulation, Idle, Locked
<1> QED
  BY <1>1, <1>2, <1>3, <1>4 DEF Next

LEMMA Invariant == Spec => []Inv
BY InitInv, NextInv, PTL DEF Spec

-----------------------------------------------------------------------------
(* current_ is never null when Append uses it, and no buffer is overrun.   *)
THEOREM TypeCorrect == Spec => []TypeOK
<1>1. Inv => TypeOK
  BY DEF Inv
<1> QED
  BY <1>1, Invariant, PTL

(* ThreadFunc never calls back() on an empty vector (lines 110 to 119).    *)
THEOREM BuffersSuffice == Spec => []EnoughBuffers
BY EnoughToKeep, Invariant, PTL

-----------------------------------------------------------------------------
(***************************************************************************)
(* The log implements Log. What the back end still has to write of its     *)
(* buffers is cut off at a place of one of them; a round of writes moves   *)
(* that place and leaves the stream as it is, and so does every buffer     *)
(* that changes hands, for those that come back are empty.                 *)
(***************************************************************************)
Byte == 1 .. MaxBytes

Rest(all, d, p) ==
    IF d = Len(all) THEN <<>>
    ELSE SubSeq(all[d + 1], p + 1, Len(all[d + 1])) \o FlattenSeq(SubSeq(all, d + 2, Len(all)))

LEMMA RestIsBytes ==
    ASSUME NEW S, NEW all \in Seq(Seq(S)), NEW d \in 0 .. Len(all), NEW p \in Nat
    PROVE  Rest(all, d, p) \in Seq(S)
<1>1. CASE d = Len(all)
  BY <1>1 DEF Rest
<1>2. CASE d # Len(all)
  <2>1. Len(all) \in Nat /\ d + 1 \in 1 .. Len(all) /\ all[d + 1] \in Seq(S)
    BY <1>2, ElementOfSeq, LenProperties
  <2>2. SubSeq(all[d + 1], p + 1, Len(all[d + 1])) \in Seq(S)
    BY <2>1, PartOf, LenProperties
  <2>3. FlattenSeq(SubSeq(all, d + 2, Len(all))) \in Seq(S)
    <3>1. d + 1 \in Nat /\ d + 2 = d + 1 + 1
      BY <2>1
    <3>2. SubSeq(all, d + 1 + 1, Len(all)) \in Seq(Seq(S))
      BY <2>1, <3>1, PartOf
    <3> QED
      BY <3>1, <3>2, FlattenType
  <2> QED
    BY <1>2, <2>2, <2>3, ConcatProperties DEF Rest
<1> QED
  BY <1>1, <1>2

(* From the beginning of a buffer on.                                      *)
LEMMA RestFrom ==
    ASSUME NEW S, NEW all \in Seq(Seq(S)), NEW d \in 0 .. Len(all)
    PROVE  Rest(all, d, 0) = FlattenSeq(SubSeq(all, d + 1, Len(all)))
<1>1. Len(all) \in Nat
  BY LenProperties
<1>2. CASE d = Len(all)
  <2>1. SubSeq(all, d + 1, Len(all)) = <<>>
    BY <1>1, <1>2, SubSeqEmpty
  <2> QED
    BY <1>2, <2>1, FlattenEmpty DEF Rest
<1>3. CASE d # Len(all)
  <2>1. d + 1 \in 1 .. Len(all) /\ Len(all) \in d + 1 .. Len(all) /\ all[d + 1] \in Seq(S)
    BY <1>1, <1>3, ElementOfSeq
  <2>2. SubSeq(all, d + 1, Len(all)) = <<all[d + 1]>> \o SubSeq(all, d + 2, Len(all))
    <3>1. PICK m \in 1 .. Len(all) : m = d + 1
      BY <2>1
    <3>2. SubSeq(all, m, Len(all)) = <<all[m]>> \o SubSeq(all, m + 1, Len(all))
      BY <2>1, <3>1, SubSeqRecursiveFirst
    <3>3. m + 1 = d + 2
      BY <3>1
    <3> QED
      BY <3>1, <3>2, <3>3
  <2>3. SubSeq(all, d + 2, Len(all)) \in Seq(Seq(S))
    <3>1. d + 1 \in Nat /\ d + 2 = d + 1 + 1
      BY <2>1
    <3>2. SubSeq(all, d + 1 + 1, Len(all)) \in Seq(Seq(S))
      BY <1>1, <3>1, PartOf
    <3> QED
      BY <3>1, <3>2
  <2>4. SubSeq(all[d + 1], 0 + 1, Len(all[d + 1])) = all[d + 1]
    BY <2>1, SubSeqFull
  <2> QED
    BY <1>3, <2>1, <2>2, <2>3, <2>4, FlattenFirst DEF Rest
<1> QED
  BY <1>2, <1>3

(* fwrite takes some bytes of a buffer ...                                 *)
MayTake(all, d, p, n) ==
    /\ all \in Seq(Seq(Byte)) /\ d \in 0 .. Len(all) /\ d # Len(all)
    /\ p \in Nat /\ n \in Nat /\ p + n <= Len(all[d + 1])

LEMMA RestTaken ==
    ASSUME NEW all, NEW d \in Nat, NEW p \in Nat, NEW n \in Nat, MayTake(all, d, p, n)
    PROVE  /\ SubSeq(all[d + 1], p + 1, p + n) \in Seq(Byte)
           /\ Len(SubSeq(all[d + 1], p + 1, p + n)) = n
           /\ Rest(all, d, p) = SubSeq(all[d + 1], p + 1, p + n) \o Rest(all, d, p + n)
<1> DEFINE first == all[d + 1]
           more == FlattenSeq(SubSeq(all, d + 2, Len(all)))
<1>0. /\ all \in Seq(Seq(Byte)) /\ d \in 0 .. Len(all) /\ d # Len(all)
      /\ p \in Nat /\ n \in Nat /\ p + n <= Len(first)
  BY DEF MayTake
<1>1. Len(all) \in Nat /\ d + 1 \in 1 .. Len(all) /\ first \in Seq(Byte) /\ Len(first) \in Nat
  BY <1>0, ElementOfSeq, LenProperties
<1>2. more \in Seq(Byte)
  <2>1. d + 1 \in Nat /\ d + 2 = d + 1 + 1
    BY <1>0, <1>1
  <2>2. SubSeq(all, d + 1 + 1, Len(all)) \in Seq(Seq(Byte))
    BY <1>0, <1>1, <2>1, PartOf
  <2> QED
    BY <2>1, <2>2, FlattenType
<1>3. /\ Rest(all, d, p) = SubSeq(first, p + 1, Len(first)) \o more
      /\ Rest(all, d, p + n) = SubSeq(first, p + n + 1, Len(first)) \o more
  BY <1>0 DEF Rest
<1> HIDE DEF first, more
<1>4. /\ SubSeq(first, p + 1, p + n) \in Seq(Byte)
      /\ Len(SubSeq(first, p + 1, p + n)) = n
      /\ SubSeq(first, p + n + 1, Len(first)) \in Seq(Byte)
      /\ SubSeq(first, p + 1, Len(first)) = SubSeq(first, p + 1, p + n) \o SubSeq(first, p + n + 1, Len(first))
  <2>1. PICK k \in Nat : k = p + n
    BY <1>0
  <2>2. p \in Nat /\ p <= k /\ k <= Len(first)
    BY <1>0, <2>1
  <2>3. /\ SubSeq(first, p + 1, k) \in Seq(Byte)
        /\ Len(SubSeq(first, p + 1, k)) = k - p
        /\ SubSeq(first, k + 1, Len(first)) \in Seq(Byte)
    BY <1>1, <2>2, PartOf
  <2>4. SubSeq(first, p + 1, Len(first)) = SubSeq(first, p + 1, k) \o SubSeq(first, k + 1, Len(first))
    BY ONLY <1>1, <2>2, k \in Nat, CutPart
  <2>5. k - p = n
    BY <1>0, <2>1
  <2> QED
    BY ONLY <2>1, <2>3, <2>4, <2>5
<1> DEFINE a == SubSeq(first, p + 1, p + n)
           b == SubSeq(first, p + n + 1, Len(first))
<1>5. a \in Seq(Byte) /\ Len(a) = n /\ b \in Seq(Byte) /\ Rest(all, d, p) = (a \o b) \o more /\ Rest(all, d, p + n) = b \o more
  BY <1>3, <1>4
<1>6. a = SubSeq(all[d + 1], p + 1, p + n)
  BY DEF first
<1> HIDE DEF a, b
<1>7. (a \o b) \o more = a \o (b \o more)
  <2>1. AreSeqs(Byte, a, b, more)
    BY <1>2, <1>5 DEF AreSeqs
  <2> QED
    BY <2>1, Associate
<1> QED
  BY <1>5, <1>6, <1>7

(* ... until it has taken all of them.                                     *)
LEMMA RestNext ==
    ASSUME NEW S, NEW all \in Seq(Seq(S)), NEW d \in 0 .. Len(all), d # Len(all)
    PROVE  Rest(all, d, Len(all[d + 1])) = Rest(all, d + 1, 0)
<1> DEFINE first == all[d + 1]
           more == SubSeq(all, d + 2, Len(all))
<1>1. Len(all) \in Nat /\ d + 1 \in 1 .. Len(all) /\ first \in Seq(S) /\ Len(first) \in Nat
  BY ElementOfSeq, LenProperties
<1>2. d + 1 \in 0 .. Len(all) /\ d + 1 + 1 = d + 2
  BY <1>1
<1>3. Rest(all, d + 1, 0) = FlattenSeq(more)
  BY <1>2, RestFrom
<1>4. FlattenSeq(more) \in Seq(S)
  BY <1>2, <1>3, RestIsBytes
<1>5. SubSeq(first, Len(first) + 1, Len(first)) = <<>>
  <2> HIDE DEF first
  <2> QED
    BY <1>1, SubSeqEmpty
<1>6. Rest(all, d, Len(first)) = SubSeq(first, Len(first) + 1, Len(first)) \o FlattenSeq(more)
  BY DEF Rest
<1> HIDE DEF more
<1> QED
  BY <1>3, <1>4, <1>5, <1>6, ConcatEmptySeq

-----------------------------------------------------------------------------
StreamParts ==
    /\ written \in Seq(Byte) /\ current \in Seq(Byte)
    /\ buffers \in Seq(Seq(Byte)) /\ active \in Seq(Seq(Byte))
    /\ FlattenSeq(buffers) \in Seq(Byte)
    /\ Unwritten = Rest(active, done, pos) /\ Unwritten \in Seq(Byte)
    /\ Stream = ((written \o Unwritten) \o FlattenSeq(buffers)) \o current
    /\ Stream \in Seq(Byte)

LEMMA StreamHasParts == TypeOK => StreamParts
<1> SUFFICES ASSUME TypeOK
             PROVE  StreamParts
  OBVIOUS
<1>1. Buffer \subseteq Seq(Byte)
  BY DEF Buffer, Byte
<1>2. written \in Seq(Byte) /\ current \in Seq(Byte)
  BY <1>1 DEF TypeOK, Byte
<1>3. buffers \in Seq(Seq(Byte)) /\ active \in Seq(Seq(Byte))
  BY <1>1, SeqMonotonic DEF TypeOK
<1>4. FlattenSeq(buffers) \in Seq(Byte)
  BY <1>3, FlattenType
<1>5. Unwritten = Rest(active, done, pos)
  BY DEF Unwritten, Rest
<1>6. Unwritten \in Seq(Byte)
  <2>1. done \in 0 .. Len(active) /\ pos \in Nat
    BY ConstantsAssumption DEF TypeOK
  <2> QED
    BY <1>3, <1>5, <2>1, RestIsBytes
<1>7. Stream = ((written \o Unwritten) \o FlattenSeq(buffers)) \o current
  BY DEF Stream
<1>8. Stream \in Seq(Byte)
  BY <1>2, <1>4, <1>6, <1>7, ConcatProperties
<1> QED
  BY <1>2, <1>3, <1>4, <1>5, <1>6, <1>7, <1>8 DEF StreamParts

(* The buffers that are handed on are empty, pos is a place of the buffer  *)
(* that is written, and the bytes to come are behind those of the stream.  *)
StreamInv ==
    /\ next \in {<<>>, NoBuffer} /\ newCurrent \in {<<>>, NoBuffer} /\ newNext \in {<<>>, NoBuffer}
    /\ pc = "recycle" => done = Len(active)
    /\ IF done = Len(active) THEN pos = 0 ELSE pos <= Len(active[done + 1])
    /\ \A i \in 1 .. Len(Stream) : Stream[i] <= sent

LEMMA RecordIsNext ==
    ASSUME NEW record \in Record, Last(record) <= MaxBytes
    PROVE  /\ record \in Seq(Byte) /\ Len(record) \in 1 .. MaxLen
           /\ Last(record) \in Nat /\ Head(record) \in Nat
           /\ \A i \in 1 .. Len(record) : Head(record) <= record[i] /\ record[i] <= Last(record)
<1>1. PICK first \in 0 .. MaxBytes - 1, len \in 1 .. MaxLen : record = [i \in 1 .. len |-> first + i]
  BY DEF Record
<1>2. Len(record) = len /\ record \in Seq(Nat)
  BY <1>1, ConstantsAssumption
<1>3. Last(record) = first + len /\ Head(record) = first + 1
  BY <1>1, <1>2, ConstantsAssumption DEF Last
<1>4. \A i \in 1 .. len : first + 1 <= record[i] /\ record[i] <= first + len
  BY <1>1, ConstantsAssumption
<1> QED
  BY <1>2, <1>3, <1>4, RecordIsBytes, ConstantsAssumption DEF Byte

(* A record is added to the stream, or it is lost.                         *)
LEMMA AppendStream ==
    ASSUME Inv, StreamInv, StreamParts, StreamParts', NEW record \in Record, AppendRecord(record)
    PROVE  Stream' \in {Stream, Stream \o record}
<1>1. record \in Seq(Byte) /\ Len(record) \in 1 .. MaxLen
  BY RecordIsNext DEF AppendRecord
<1>2. written' = written /\ Unwritten' = Unwritten
  BY DEF AppendRecord, back, Unwritten
<1> DEFINE x == written \o Unwritten
           f == FlattenSeq(buffers)
<1>3. x \in Seq(Byte) /\ f \in Seq(Byte) /\ current \in Seq(Byte)
  BY ConcatProperties DEF StreamParts
<1>str. Stream = (x \o f) \o current
  BY DEF StreamParts
<1>4. Stream' = (x \o FlattenSeq(buffers')) \o current'
  BY <1>2 DEF StreamParts
<1>fl. f = FlattenSeq(buffers)
  OBVIOUS
<1> HIDE DEF x, f
<1>as. AreSeqs(Byte, x \o f, current, record) /\ AreSeqs(Byte, x, f, current)
  BY <1>1, <1>3, ConcatProperties DEF AreSeqs
<1>5. CASE current' = Appended(current, record) /\ UNCHANGED <<next, buffers>>
  <2>1. current' \in {current, current \o record}
    BY <1>5 DEF Appended
  <2>2. (x \o f) \o (current \o record) = Stream \o record
    BY <1>as, <1>str, Associate
  <2> QED
    BY <1>4, <1>5, <1>fl, <1>str, <2>1, <2>2
<1>6. CASE /\ buffers' = Append(buffers, current)
           /\ current' = Appended(IF next # NoBuffer THEN next ELSE <<>>, record)
  <2>1. current' = record
    <3>1. current' = Appended(<<>>, record)
      BY <1>6 DEF StreamInv
    <3>2. avail(<<>>) > Len(record)
      BY <1>1, ConstantsAssumption DEF avail
    <3> QED
      BY <1>1, <3>1, <3>2, ConcatEmptySeq DEF Appended
  <2>2. FlattenSeq(buffers') = f \o current
    BY <1>6, <1>fl, FlattenMore DEF StreamParts
  <2>3. (x \o (f \o current)) \o record = Stream \o record
    BY <1>as, <1>str, Associate
  <2> QED
    BY <1>4, <2>1, <2>2, <2>3
<1> QED
  BY <1>5, <1>6 DEF AppendRecord

LEMMA CollectStream ==
    ASSUME Inv, StreamInv, StreamParts, StreamParts', pc \in {"lock", "wait"}, Collect
    PROVE  Stream' = Stream
<1>1. /\ active = <<>> /\ done = 0 /\ pos = 0 /\ newCurrent = <<>>
  BY DEF Inv, Circulation, Idle, Locked, StreamInv
<1>2. /\ active' = Append(buffers, current) /\ buffers' = <<>> /\ current' = <<>>
      /\ UNCHANGED <<done, pos, written>>
  BY <1>1 DEF Collect, TakeBuffers, RefillFront
<1> DEFINE f == FlattenSeq(buffers)
<1>3. Unwritten = <<>>
  BY <1>1 DEF StreamParts, Rest
<1>4. Unwritten' = f \o current
  <2>1. active' \in Seq(Seq(Byte)) /\ 0 \in 0 .. Len(active')
    BY LenProperties DEF StreamParts
  <2>2. Rest(active', 0, 0) = FlattenSeq(SubSeq(active', 1, Len(active')))
    BY <2>1, RestFrom
  <2>3. SubSeq(active', 1, Len(active')) = active'
    BY <2>1, SubSeqFull
  <2>4. FlattenSeq(active') = f \o current
    BY <1>2, FlattenMore DEF StreamParts
  <2> QED
    BY <1>1, <1>2, <2>2, <2>3, <2>4 DEF StreamParts
<1>5. written \in Seq(Byte) /\ f \in Seq(Byte) /\ current \in Seq(Byte)
  BY DEF StreamParts
<1>6. Stream = (written \o f) \o current
  BY <1>3, <1>5, ConcatEmptySeq DEF StreamParts
<1>7. Stream' = written \o (f \o current)
  <2> DEFINE t == written \o (f \o current)
  <2>1. t \in Seq(Byte)
    BY <1>5, ConcatProperties
  <2>2. Stream' = (t \o <<>>) \o <<>>
    BY <1>2, <1>4, FlattenEmpty DEF StreamParts
  <2> HIDE DEF t
  <2>3. Stream' = t
    BY <2>1, <2>2, ConcatEmptySeq
  <2> QED
    BY <2>3 DEF t
<1>8. (written \o f) \o current = written \o (f \o current)
  <2>1. AreSeqs(Byte, written, f, current)
    BY <1>5 DEF AreSeqs
  <2> QED
    BY <2>1, Associate
<1> QED
  BY <1>6, <1>7, <1>8

LEMMA WriteStream ==
    ASSUME Inv, StreamInv, StreamParts, StreamParts', WriteSome
    PROVE  /\ Stream' = Stream
           /\ written' = written \/ TheLog!Write
<1>1. /\ done \in 0 .. Len(active) /\ done # Len(active) /\ pos \in Nat
      /\ UNCHANGED <<active, buffers, current>>
  BY ConstantsAssumption DEF Inv, TypeOK, WriteSome, front
<1> DEFINE bytes == active[done + 1]
<1>2. bytes \in Seq(Byte) /\ Len(bytes) \in Nat
  BY <1>1, LenProperties, ElementOfSeq DEF StreamParts
<1>3. CASE \E n \in 1 .. Len(bytes) - pos :
              /\ written' = written \o SubSeq(bytes, pos + 1, pos + n)
              /\ pos' = pos + n
              /\ UNCHANGED done
  <2>1. PICK n \in 1 .. Len(bytes) - pos : /\ written' = written \o SubSeq(bytes, pos + 1, pos + n)
                                           /\ pos' = pos + n
                                           /\ UNCHANGED done
    BY <1>3
  <2>2. n \in Nat /\ n > 0 /\ pos + n <= Len(bytes)
    BY <1>1, <1>2
  <2> DEFINE part == SubSeq(bytes, pos + 1, pos + n)
             f == FlattenSeq(buffers)
  <2>3. MayTake(active, done, pos, n)
    BY <1>1, <2>2 DEF MayTake, StreamParts
  <2>4. /\ part \in Seq(Byte) /\ Len(part) = n
        /\ Rest(active, done, pos) = part \o Rest(active, done, pos + n)
    <3>0. done \in Nat /\ pos \in Nat
      BY <1>1, LenProperties DEF StreamParts
    <3>1. /\ SubSeq(active[done + 1], pos + 1, pos + n) \in Seq(Byte)
          /\ Len(SubSeq(active[done + 1], pos + 1, pos + n)) = n
          /\ Rest(active, done, pos) = SubSeq(active[done + 1], pos + 1, pos + n) \o Rest(active, done, pos + n)
      BY ONLY <2>2, <2>3, <3>0, RestTaken
    <3> QED
      BY <3>1
  <2>5. Unwritten = part \o Unwritten' /\ Unwritten' \in Seq(Byte) /\ written' = written \o part
    BY <1>1, <2>1, <2>4 DEF StreamParts
  <2>6. written \in Seq(Byte) /\ f \in Seq(Byte) /\ current \in Seq(Byte)
    BY DEF StreamParts
  <2> HIDE DEF part
  <2>7. (written \o part) \o Unwritten' = written \o (part \o Unwritten')
    <3>1. AreSeqs(Byte, written, part, Unwritten')
      BY <2>4, <2>5, <2>6 DEF AreSeqs
    <3> QED
      BY <3>1, Associate
  <2>8. Stream' = Stream
    BY <1>1, <2>5, <2>7 DEF StreamParts
  <2>9. TheLog!Write
    <3>1. /\ written' \in Seq(Byte) /\ Len(written') = Len(written) + n /\ Len(written) \in Nat
      BY <2>4, <2>5, <2>6, ConcatProperties, LenProperties
    <3>2. Stream' = written' \o (Unwritten' \o (f \o current))
      <4>1. Stream' = ((written' \o Unwritten') \o f) \o current
        BY <1>1 DEF StreamParts
      <4>2. f \o current \in Seq(Byte) /\ written' \o Unwritten' \in Seq(Byte)
        BY <2>5, <2>6, <3>1, ConcatProperties
      <4>3. AreSeqs(Byte, written' \o Unwritten', f, current) /\ AreSeqs(Byte, written', Unwritten', f \o current)
        BY <2>5, <2>6, <3>1, <4>2 DEF AreSeqs
      <4>4. /\ ((written' \o Unwritten') \o f) \o current = (written' \o Unwritten') \o (f \o current)
            /\ (written' \o Unwritten') \o (f \o current) = written' \o (Unwritten' \o (f \o current))
        BY <4>3, Associate
      <4> QED
        BY <4>1, <4>4
    <3> DEFINE more == Unwritten' \o (f \o current)
    <3>3. more \in Seq(Byte)
      BY <2>5, <2>6, ConcatProperties
    <3> HIDE DEF more
    <3>4. Stream' = written' \o more
      BY <3>2 DEF more
    <3>5. SubSeq(Stream, 1, Len(written')) = written'
      BY <2>8, <3>1, <3>3, <3>4, FirstPart
    <3>6. Len(Stream) = Len(written') + Len(more) /\ Len(more) \in Nat
      <4>1. Len(Stream') = Len(written') + Len(more)
        BY ONLY <3>1, <3>3, <3>4, ConcatProperties
      <4> QED
        BY <2>8, <3>3, <4>1, LenProperties
    <3>7. Len(written') \in Len(written) + 1 .. Len(Stream)
      BY <2>2, <3>1, <3>6
    <3> QED
      BY <2>8, <3>5, <3>7 DEF TheLog!Write
  <2> QED
    BY <2>8, <2>9
<1>4. CASE pos = Len(bytes) /\ done' = done + 1 /\ pos' = 0 /\ UNCHANGED written
  <2>1. Rest(active, done, pos) = Rest(active, done + 1, 0)
    BY <1>1, <1>4, RestNext DEF StreamParts
  <2>2. Unwritten' = Unwritten
    BY <1>1, <1>4, <2>1 DEF StreamParts
  <2> QED
    BY <1>1, <1>4, <2>2 DEF StreamParts
<1> QED
  BY <1>3, <1>4 DEF WriteSome

LEMMA AppendStep ==
    ASSUME Inv, StreamInv, StreamParts, StreamParts', NEW record \in Record, AppendRecord(record)
    PROVE  StreamInv' /\ (UNCHANGED <<Stream, written>> \/ TheLog!AppendRecord(record))
<1>1. /\ record \in Seq(Byte) /\ Len(record) \in Nat
      /\ sent \in Nat /\ Head(record) = sent + 1 /\ Last(record) = sent' /\ sent' \in Nat
      /\ \A i \in 1 .. Len(record) : Head(record) <= record[i] /\ record[i] <= sent'
      /\ Len(record) >= 1
  BY RecordIsNext, ConstantsAssumption DEF AppendRecord, Inv, TypeOK
<1>2. sent < sent'
  BY <1>1
<1>3. Stream \in Seq(Byte) /\ Len(Stream) \in Nat
  BY LenProperties DEF StreamParts
<1>4. \A i \in 1 .. Len(Stream) : Stream[i] \in Nat /\ Stream[i] <= sent
  BY <1>3, ElementOfSeq, ConstantsAssumption DEF StreamInv, Byte
<1>5. Stream' \in {Stream, Stream \o record}
  BY AppendStream
<1>6. UNCHANGED <<back, pc, written>> /\ next' \in {next, NoBuffer}
  BY DEF AppendRecord, back
<1>7. \A i \in 1 .. Len(Stream') : Stream'[i] <= sent'
  <2>1. CASE Stream' = Stream
    BY <1>1, <1>2, <1>4, <2>1
  <2>2. CASE Stream' = Stream \o record
    <3>1. /\ Len(Stream') = Len(Stream) + Len(record)
          /\ \A i \in 1 .. Len(Stream) + Len(record) :
                 Stream'[i] = IF i <= Len(Stream) THEN Stream[i] ELSE record[i - Len(Stream)]
      BY ONLY <1>1, <1>3, <2>2, ConcatProperties
    <3>2. ASSUME NEW i \in 1 .. Len(Stream')
          PROVE  Stream'[i] <= sent'
      <4>1. CASE i <= Len(Stream)
        BY <1>1, <1>2, <1>3, <1>4, <3>1, <4>1
      <4>2. CASE i > Len(Stream)
        <5>1. i - Len(Stream) \in 1 .. Len(record)
          BY <1>1, <1>3, <3>1, <4>2
        <5> QED
          BY <1>1, <1>3, <3>1, <4>2, <5>1
      <4> QED
        BY <1>3, <4>1, <4>2
    <3> QED
      BY <3>2
  <2> QED
    BY <1>5, <2>1, <2>2
<1>8. StreamInv'
  BY <1>6, <1>7 DEF StreamInv, back
<1>9. Stream' = Stream \o record => TheLog!AppendRecord(record)
  <2>1. DOMAIN Stream = 1 .. Len(Stream)
    BY <1>3, LenProperties
  <2> QED
    BY <1>1, <1>4, <1>6, <2>1 DEF TheLog!AppendRecord
<1> QED
  BY <1>5, <1>6, <1>8, <1>9

LEMMA CollectStep ==
    ASSUME Inv, StreamInv, StreamParts, StreamParts', pc \in {"lock", "wait"}, Collect
    PROVE  StreamInv' /\ UNCHANGED <<Stream, written>>
<1>1. /\ active = <<>> /\ done = 0 /\ pos = 0
  BY DEF Inv, Circulation, Idle, Locked, StreamInv
<1>2. Stream' = Stream
  BY CollectStream
<1>3. /\ active' = Append(buffers, current) /\ newCurrent' = NoBuffer
      /\ next' \in {next, newNext} /\ newNext' \in {newNext, NoBuffer}
      /\ pc' = "write" /\ UNCHANGED <<sent, done, pos, written>>
  BY DEF Collect, TakeBuffers, RefillFront
<1>4. Len(active') = Len(buffers) + 1 /\ Len(buffers) \in Nat
  BY <1>3, AppendProperties, LenProperties DEF StreamParts
<1>5. Len(active'[1]) \in Nat
  <2>1. active' \in Seq(Seq(Byte)) /\ 1 \in 1 .. Len(active')
    BY <1>4 DEF StreamParts
  <2> QED
    BY <2>1, ElementOfSeq, LenProperties
<1>6. done' # Len(active') /\ pos' <= Len(active'[done' + 1])
  BY <1>1, <1>3, <1>4, <1>5
<1> QED
  BY <1>2, <1>3, <1>6 DEF StreamInv

LEMMA RecycleStep ==
    ASSUME Inv, StreamInv, StreamParts, StreamParts', Recycle
    PROVE  StreamInv' /\ UNCHANGED <<Stream, written>>
<1>1. /\ done = Len(active) /\ pos = 0
      /\ active' = <<>> /\ done' = 0 /\ pc' = "test"
      /\ newCurrent' \in {newCurrent, <<>>} /\ newNext' \in {newNext, <<>>}
      /\ UNCHANGED <<front, pos, written>>
  BY DEF Recycle, StreamInv, Zeroed
<1>2. Len(active') = 0
  BY <1>1
<1>3. Unwritten = <<>> /\ Unwritten' = <<>>
  BY <1>1, <1>2 DEF StreamParts, Rest
<1>4. Stream' = Stream
  BY <1>1, <1>3 DEF StreamParts, front
<1> QED
  BY <1>1, <1>2, <1>4 DEF StreamInv, front

LEMMA WriteStep ==
    ASSUME Inv, StreamInv, StreamParts, StreamParts', WriteSome
    PROVE  StreamInv' /\ [TheLog!Next]_<<Stream, written>>
<1>1. Stream' = Stream /\ (written' = written \/ TheLog!Write)
  BY WriteStream
<1>2. /\ active \in Seq(Seq(Byte)) /\ Len(active) \in Nat
      /\ done \in 0 .. Len(active) /\ done # Len(active) /\ pos \in Nat
      /\ UNCHANGED <<front, newCurrent, newNext, active, pc>> /\ pc = "write"
  BY ConstantsAssumption, LenProperties DEF Inv, TypeOK, WriteSome, StreamParts
<1>3. IF done' = Len(active) THEN pos' = 0 ELSE pos' <= Len(active[done' + 1])
  <2>1. CASE pos' = 0
    <3>1. CASE done' # Len(active)
      <4>1. done' = done \/ done' = done + 1
        BY DEF WriteSome
      <4>2. done' + 1 \in 1 .. Len(active)
        BY <1>2, <3>1, <4>1
      <4> QED
        BY <1>2, <2>1, <3>1, <4>2, ElementOfSeq, LenProperties
    <3> QED
      BY <2>1, <3>1
  <2>2. CASE \E n \in 1 .. Len(active[done + 1]) - pos : pos' = pos + n /\ UNCHANGED done
    <3>1. Len(active[done + 1]) \in Nat
      <4>1. done + 1 \in 1 .. Len(active)
        BY <1>2
      <4> QED
        BY <1>2, <4>1, ElementOfSeq, LenProperties
    <3> QED
      BY <1>2, <2>2, <3>1
  <2> QED
    BY <2>1, <2>2 DEF WriteSome
<1>4. StreamInv'
  BY <1>1, <1>2, <1>3 DEF StreamInv, front
<1> QED
  BY <1>1, <1>4 DEF TheLog!Next

LEMMA OtherStep ==
    ASSUME Inv, StreamInv, StreamParts, StreamParts',
           UNCHANGED <<front, newCurrent, newNext, active, done, pos, written>>
              \/ Begin,
           pc' = "recycle" => done = Len(active)
    PROVE  StreamInv' /\ UNCHANGED <<Stream, written>>
<1>1. /\ UNCHANGED <<front, active, done, pos, written>>
      /\ newCurrent' \in {newCurrent, <<>>} /\ newNext' \in {newNext, <<>>}
  BY DEF Begin
<1>2. Stream' = Stream
  BY <1>1 DEF Stream, Unwritten, front
<1> QED
  BY <1>1, <1>2 DEF StreamInv, front

LEMMA StreamStep ==
    ASSUME Inv, StreamInv, StreamParts, StreamParts', [Next]_vars
    PROVE  StreamInv' /\ [TheLog!Next]_<<Stream, written>>
<1>1. CASE \E record \in Record : AppendRecord(record)
  BY <1>1, AppendStep DEF TheLog!Next
<1>2. CASE WriteSome
  BY <1>2, WriteStep
<1>3. CASE Recycle
  BY <1>3, RecycleStep
<1>4. CASE pc \in {"lock", "wait"} /\ Collect
  BY <1>4, CollectStep
<1>5. CASE \/ Start \/ LatchWait \/ Stop \/ StopNotifies \/ Join
           \/ Begin \/ TestRunning \/ AllWritten
           \/ (LockAndTest /\ buffers = <<>>)
           \/ UNCHANGED vars
  <2>1. /\ UNCHANGED <<front, newCurrent, newNext, active, done, pos, written>> \/ Begin
        /\ pc' = "recycle" => (pc = "recycle" \/ done = Len(active))
    BY <1>5 DEF Start, LatchWait, Stop, StopNotifies, Join, Begin, TestRunning, AllWritten, LockAndTest, vars, back
  <2>2. pc' = "recycle" => done = Len(active)
    BY <2>1 DEF StreamInv
  <2> QED
    BY <2>1, <2>2, OtherStep
<1> QED
  BY <1>1, <1>2, <1>3, <1>4, <1>5 DEF Next, BackEnd, LockAndTest, TimeOut

LEMMA StreamInit ==
    ASSUME Init, Inv, StreamParts
    PROVE  StreamInv /\ TheLog!Init
<1>1. /\ sent = 0 /\ current = <<>> /\ next = <<>> /\ buffers = <<>> /\ newCurrent = NoBuffer
      /\ newNext = NoBuffer /\ active = <<>> /\ done = 0 /\ pos = 0 /\ written = <<>> /\ pc = "none"
  BY DEF Init
<1>2. Len(active) = 0 /\ Unwritten = <<>>
  BY <1>1 DEF Unwritten
<1>3. FlattenSeq(buffers) = <<>>
  BY <1>1, FlattenEmpty
<1>4. Stream = <<>>
  BY <1>1, <1>2, <1>3, ConcatEmptySeq DEF StreamParts
<1> QED
  BY <1>1, <1>2, <1>4 DEF StreamInv, TheLog!Init

(* A record goes to the file in the order of the calls of Append, whole    *)
(* and once, whatever buffers it passes through and however fwrite takes   *)
(* its bytes (AsyncLogging::Append, ThreadFunc, LogFile::Write).           *)
THEOREM IsLog == Spec => ImplementsLog
<1>1. Init => Inv /\ StreamParts
  BY InitInv, StreamHasParts DEF Inv
<1>2. Init => StreamInv /\ TheLog!Init
  BY <1>1, StreamInit
<1>3. Inv => StreamParts
  BY StreamHasParts DEF Inv
<1>4. Inv' => StreamParts'
  BY <1>3, PTL
<1>5. Inv /\ StreamInv /\ [Next]_vars => Inv' /\ StreamInv' /\ [TheLog!Next]_<<Stream, written>>
  BY <1>3, <1>4, NextInv, StreamStep
<1> QED
  BY <1>2, <1>5, InitInv, PTL DEF Spec, ImplementsLog, TheLog!Spec

-----------------------------------------------------------------------------
(* The log with its files. Each of its steps is one of AsyncLogging, or    *)
(* leaves that alone.                                                      *)
LEMMA LogStepIsStep == [LogNext]_logVars => [Next]_vars
BY DEF LogNext, logVars, Next, BackEnd, LogBackEnd, LogMain, WithoutFile, Tick,
       FWrite, EndWrite, Rotate, EndThread

LEMMA LogInvariant == LogSpec => []Inv
<1>1. LogInit => Inv
  BY InitInv DEF LogInit
<1> QED
  BY <1>1, NextInv, LogStepIsStep, PTL DEF LogSpec

(* What was written is on the disk or in the buffer of the FILE, which     *)
(* holds nothing older than the last flush that LogFile knows of; and this *)
(* is at most FlushInterval before the last record.                        *)
FileTypeOK == /\ now \in Nat /\ oldest \in Nat /\ lastwrite \in Nat /\ lastflush \in Nat
              /\ disk \in Seq(1 .. MaxBytes) /\ stdio \in Seq(1 .. MaxBytes)

FileInv == /\ FileTypeOK
           /\ disk \o stdio = written
           /\ pc = "end" => stdio = <<>>
           /\ lastwrite <= now /\ lastflush <= now
           /\ lastwrite - lastflush <= FlushInterval
           /\ stdio # <<>> => lastflush <= oldest

LEMMA FileInit == LogInit => FileInv
<1> SUFFICES ASSUME LogInit
             PROVE  FileInv
  OBVIOUS
<1>1. <<>> \in Seq(1 .. MaxBytes) /\ <<>> \o <<>> = <<>>
  BY EmptySeq, ConcatEmptySeq
<1> QED
  BY <1>1, FileAssumption DEF LogInit, Init, FileInv, FileTypeOK

LEMMA FlushFile ==
    ASSUME FileInv, Flush
    PROVE  /\ disk' = written /\ disk' \o stdio' = written
           /\ stdio' = <<>> /\ oldest' = 0
           /\ disk' \in Seq(1 .. MaxBytes) /\ stdio' \in Seq(1 .. MaxBytes)
<1>1. disk' = written /\ stdio' = <<>> /\ oldest' = 0
  BY DEF Flush, FileInv
<1>2. written \in Seq(1 .. MaxBytes)
  BY ConcatProperties DEF FileInv, FileTypeOK
<1> QED
  BY <1>1, <1>2, EmptySeq, ConcatEmptySeq

LEMMA BytesAssociate ==
    ASSUME NEW s \in Seq(1 .. MaxBytes), NEW t \in Seq(1 .. MaxBytes), NEW u \in Seq(1 .. MaxBytes)
    PROVE  /\ s \o t \in Seq(1 .. MaxBytes)
           /\ (s \o t) \o u = s \o (t \o u)
<1> DEFINE S == 1 .. MaxBytes
<1>1. s \in Seq(S) /\ t \in Seq(S) /\ u \in Seq(S)
  OBVIOUS
<1> HIDE DEF S
<1>2. s \o t \in Seq(S)
  BY <1>1, ConcatProperties
<1>3. (s \o t) \o u = s \o (t \o u)
  BY <1>1, ConcatAssociative
<1> QED
  BY <1>2, <1>3 DEF S

LEMMA TakenIsWritten ==
    ASSUME Inv, WriteSome, done' = done
    PROVE  Taken \in Seq(1 .. MaxBytes) /\ written' = written \o Taken
<1> DEFINE bytes == active[done + 1]
<1>1. bytes \in Buffer /\ Len(bytes) \in Nat /\ pos \in Nat /\ done \in Nat
  BY BufferFacts DEF WriteSome, Inv, TypeOK
<1>2. PICK n \in 1 .. Len(bytes) - pos : written' = written \o SubSeq(bytes, pos + 1, pos + n)
  <2>1. done' # done + 1
    BY <1>1
  <2>2. bytes = active[done + 1]
    OBVIOUS
  <2> HIDE DEF bytes
  <2> QED
    BY <2>1, <2>2 DEF WriteSome
<1> DEFINE part == SubSeq(bytes, pos + 1, pos + n)
<1>3. part \in Seq(1 .. MaxBytes)
  <2>1. n \in Nat /\ pos + n <= Len(bytes)
    BY <1>1
  <2> HIDE DEF bytes
  <2> QED
    BY <1>1, <2>1, PartIsBytes
<1> HIDE DEF part
<1>4. written' = written \o part
  BY <1>2 DEF part
<1>5. written \in Seq(1 .. MaxBytes)
  BY DEF Inv, TypeOK
<1>6. written' \in Seq(1 .. MaxBytes) /\ Len(written') = Len(written) + Len(part)
  BY <1>3, <1>4, <1>5, ConcatProperties
<1>7. Len(written) \in Nat /\ Len(part) \in Nat
  BY <1>3, <1>5, LenProperties
<1>8. \A i \in 1 .. Len(part) : written'[Len(written) + i] = part[i]
  BY <1>3, <1>4, <1>5, <1>7, ConcatProperties
<1>9. \A i \in Len(written) + 1 .. Len(written') : written'[i] \in 1 .. MaxBytes
  <2>1. \A i \in 1 .. Len(written') : written'[i] \in 1 .. MaxBytes
    BY <1>6, ElementOfSeq
  <2> QED
    BY <1>6, <1>7, <2>1
<1>10. /\ Taken \in Seq(1 .. MaxBytes)
       /\ Len(Taken) = Len(part)
       /\ \A i \in 1 .. Len(part) : Taken[i] = written'[Len(written) + i]
  <2>1. Len(written) + 1 \in Int /\ Len(written') \in Int
    BY <1>6, <1>7
  <2>2. /\ Taken \in Seq(1 .. MaxBytes)
        /\ Len(Taken) = IF Len(written) + 1 <= Len(written') THEN Len(written') - (Len(written) + 1) + 1 ELSE 0
        /\ \A i \in 1 .. Len(written') - (Len(written) + 1) + 1 : Taken[i] = written'[Len(written) + 1 + i - 1]
    BY <1>9, <2>1, SubSeqProperties DEF Taken
  <2> HIDE DEF part
  <2> DEFINE k == Len(part)  w == Len(written)
  <2>3. Len(written') - (w + 1) + 1 = k /\ (w + 1 <= Len(written') \/ k = 0)
    BY <1>6, <1>7
  <2>4. Len(Taken) = k
    BY <1>6, <1>7, <2>2, <2>3
  <2>5. \A i \in 1 .. k : Taken[i] = written'[w + i]
    <3>1. \A i \in 1 .. k : w + 1 + i - 1 = w + i
      BY <1>7
    <3> QED
      BY <2>2, <2>3, <3>1
  <2> QED
    BY <2>2, <2>4, <2>5
<1>11. Taken = part
  BY <1>3, <1>8, <1>10, SeqEqual
<1> QED
  BY <1>4, <1>10, <1>11

LEMMA FWriteFile ==
    ASSUME Inv, FileInv, FWrite
    PROVE  FileInv'
<1> USE DEF FileInv, FileTypeOK
<1>1. Taken \in Seq(1 .. MaxBytes) /\ written' = written \o Taken
  BY TakenIsWritten DEF FWrite
<1> DEFINE bytes == stdio \o Taken
<1>2. bytes \in Seq(1 .. MaxBytes)
  BY <1>1, ConcatProperties
<1> HIDE DEF bytes
<1>3. PICK n \in 0 .. Len(bytes) :
          /\ disk' = disk \o SubSeq(bytes, 1, n)
          /\ stdio' = SubSeq(bytes, n + 1, Len(bytes))
  BY DEF FWrite, bytes
<1>4. /\ disk' \in Seq(1 .. MaxBytes) /\ stdio' \in Seq(1 .. MaxBytes)
      /\ disk' \o stdio' = disk \o bytes
  <2> DEFINE passed == SubSeq(bytes, 1, n)
             kept == SubSeq(bytes, n + 1, Len(bytes))
  <2>1. passed \in Seq(1 .. MaxBytes) /\ kept \in Seq(1 .. MaxBytes) /\ passed \o kept = bytes
    BY <1>2, CutInTwo
  <2>2. disk' = disk \o passed /\ stdio' = kept
    BY <1>3
  <2>3. disk \in Seq(1 .. MaxBytes)
    OBVIOUS
  <2> HIDE DEF passed, kept
  <2>4. disk \o passed \in Seq(1 .. MaxBytes) /\ (disk \o passed) \o kept = disk \o (passed \o kept)
    BY ONLY <2>1, <2>3, BytesAssociate
  <2> QED
    BY <2>1, <2>2, <2>4
<1>5. disk \o bytes = written'
  <2>1. disk \in Seq(1 .. MaxBytes) /\ stdio \in Seq(1 .. MaxBytes) /\ disk \o stdio = written
    OBVIOUS
  <2>2. (disk \o stdio) \o Taken = disk \o (stdio \o Taken)
    BY ONLY <1>1, <2>1, BytesAssociate
  <2> QED
    BY <1>1, <2>1, <2>2 DEF bytes
<1>6. UNCHANGED <<now, lastwrite, lastflush, pc>> /\ pc = "write"
  BY DEF FWrite, WriteSome, stamps
<1>7. oldest' = IF stdio' = <<>> THEN 0 ELSE IF stdio = <<>> THEN now ELSE oldest
  BY DEF FWrite
<1>8. oldest' \in Nat /\ (stdio' # <<>> => lastflush' <= oldest')
  BY <1>6, <1>7
<1> QED
  BY <1>4, <1>5, <1>6, <1>8

LEMMA EndWriteFile ==
    ASSUME Inv, FileInv, EndWrite
    PROVE  FileInv'
<1> USE DEF FileInv, FileTypeOK
<1>1. written' = written /\ UNCHANGED <<now, pc>> /\ pc = "write"
  BY DEF EndWrite, WriteSome
<1>2. lastwrite' \in Nat /\ lastwrite' <= now
  BY DEF EndWrite
<1>3. PICK w \in Nat : lastwrite' = w
  BY <1>2
<1>4. w <= now /\ now \in Nat /\ lastflush \in Nat /\ FlushInterval \in Nat
  BY <1>2, <1>3, FileAssumption
<1>5. CASE w - lastflush > FlushInterval
  <2>1. Flush /\ lastflush' = now
    BY <1>3, <1>5 DEF EndWrite
  <2>2. w - now <= FlushInterval
    BY ONLY <1>4
  <2> QED
    BY <1>1, <1>3, <1>4, <2>1, <2>2, FlushFile
<1>6. CASE ~(w - lastflush > FlushInterval)
  <2>1. UNCHANGED <<disk, stdio, oldest, lastflush>>
    BY <1>3, <1>6 DEF EndWrite
  <2>2. w - lastflush <= FlushInterval
    BY ONLY <1>4, <1>6
  <2> QED
    BY <1>1, <1>3, <1>4, <2>1, <2>2
<1> QED
  BY <1>5, <1>6

LEMMA RotateFile ==
    ASSUME FileInv, Rotate
    PROVE  FileInv'
<1> USE DEF FileInv, FileTypeOK
<1>1. written' = written /\ now' = now /\ pc' = "recycle"
  BY DEF Rotate, AllWritten, back
<1>2. CASE Flush /\ Fresh
  BY <1>1, <1>2, FlushFile, FileAssumption DEF Fresh
<1>3. CASE UNCHANGED file
  BY <1>1, <1>3 DEF file, stamps
<1> QED
  BY <1>2, <1>3 DEF Rotate

LEMMA EndThreadFile ==
    ASSUME FileInv, EndThread
    PROVE  FileInv'
<1> USE DEF FileInv, FileTypeOK
<1>1. written' = written /\ UNCHANGED <<now, lastwrite, lastflush>>
  BY DEF EndThread, TestRunning, back, stamps
<1>2. CASE Flush
  BY <1>1, <1>2, FlushFile
<1>3. CASE pc' # "end" /\ UNCHANGED <<disk, stdio, oldest>>
  BY <1>1, <1>3
<1> QED
  BY <1>2, <1>3 DEF EndThread

LEMMA FileStep == Inv /\ FileInv /\ [LogNext]_logVars => FileInv'
<1> SUFFICES ASSUME Inv, FileInv, [LogNext]_logVars
             PROVE  FileInv'
  OBVIOUS
<1>1. CASE FWrite \/ EndWrite \/ Rotate \/ EndThread
  BY <1>1, FWriteFile, EndWriteFile, RotateFile, EndThreadFile
<1>2. CASE Tick
  BY <1>2 DEF Tick, FileInv, FileTypeOK, vars, back, file, stamps
<1>3. ASSUME UNCHANGED <<now, file, written>>, pc' = "end" => pc = "end"
      PROVE  FileInv'
  BY <1>3 DEF FileInv, FileTypeOK, file, stamps
<1>4. CASE WithoutFile(Begin \/ LockAndTest \/ TimeOut \/ Recycle)
  BY <1>3, <1>4 DEF WithoutFile, Begin, LockAndTest, TimeOut, Recycle, Collect, back
<1>5. CASE LogMain
  BY <1>3, <1>5 DEF LogMain, WithoutFile, LatchWait, StopNotifies, Join, back
<1>6. CASE WithoutFile(Start \/ Stop \/ \E record \in Record : AppendRecord(record))
  BY <1>3, <1>6 DEF WithoutFile, Start, Stop, AppendRecord, back
<1>7. CASE UNCHANGED logVars
  BY <1>3, <1>7 DEF logVars, vars, back
<1> QED
  BY <1>1, <1>2, <1>4, <1>5, <1>6, <1>7 DEF LogNext, LogBackEnd

(* What is in the buffer of the FILE was written at most FlushInterval     *)
(* before the last record (LogFile::Write, lines 35 to 45), whatever the   *)
(* interval, the size of the files and the pace of the clock.              *)
THEOREM FlushesInTime == LogSpec => []FlushedInTime
<1>1. FileInv => FlushedInTime
  BY FileAssumption DEF FileInv, FileTypeOK, FlushedInTime
<1> QED
  BY <1>1, FileInit, FileStep, LogInvariant, PTL DEF LogSpec

(* When ThreadFunc has returned, what it wrote is on the disk: no file is  *)
(* let go with bytes in its buffer.                                        *)
THEOREM AllOnDisk == LogSpec => []OnDiskWhenEnded
<1>1. FileInv => OnDiskWhenEnded
  BY ConcatEmptySeq DEF FileInv, FileTypeOK, OnDiskWhenEnded
<1> QED
  BY <1>1, FileInit, FileStep, LogInvariant, PTL DEF LogSpec

(* With the files, the log still writes every record in order and once.    *)
THEOREM LogWithFilesIsLog == LogSpec => ImplementsLog
<1>1. LogInit => Inv /\ StreamInv /\ TheLog!Init
  BY InitInv, StreamHasParts, StreamInit DEF LogInit, Inv
<1>2. Inv => StreamParts
  BY StreamHasParts DEF Inv
<1>3. Inv' => StreamParts'
  BY <1>2, PTL
<1>4. Inv /\ StreamInv /\ [LogNext]_logVars => Inv' /\ StreamInv' /\ [TheLog!Next]_<<Stream, written>>
  BY <1>2, <1>3, NextInv, LogStepIsStep, StreamStep
<1> QED
  BY <1>1, <1>4, PTL DEF LogSpec, ImplementsLog, TheLog!Spec

(* The buffers are right in the log with its files as they are without.    *)
THEOREM LogWithFilesIsSafe == LogSpec => [](TypeOK /\ EnoughBuffers)
<1>1. Inv => TypeOK /\ EnoughBuffers
  BY EnoughToKeep DEF Inv
<1> QED
  BY <1>1, LogInvariant, PTL
=============================================================================
