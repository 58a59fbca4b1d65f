---------------------------- MODULE BufferProofs ----------------------------
(***************************************************************************)
(* Proofs about Buffer, for every set of messages and every initial size,  *)
(* size of the prepended part and bound on the indices.                    *)
(***************************************************************************)
EXTENDS Buffer, SequenceTheorems, TLAPS

IndicesOK(b) == /\ b \in [bytes : Seq(Byte), read : Nat, write : Nat]
                /\ PrependIndex <= b.read
                /\ b.read <= b.write
                /\ b.write <= Len(b.bytes)

LEMMA FunctionIsSeq ==
    ASSUME NEW S, NEW n \in Nat, NEW f \in [1 .. n -> S]
    PROVE  f \in Seq(S) /\ Len(f) = n
BY SeqDef

LEMMA Concatenated ==
    ASSUME NEW S, NEW s \in Seq(S), NEW t \in Seq(S)
    PROVE  /\ s \o t \in Seq(S) /\ Len(s \o t) = Len(s) + Len(t)
           /\ Len(s) \in Nat /\ Len(t) \in Nat
           /\ \A i \in 1 .. Len(s) : (s \o t)[i] = s[i]
           /\ \A i \in 1 .. Len(t) : (s \o t)[Len(s) + i] = t[i]
<1>1. Len(s) \in Nat /\ Len(t) \in Nat
    BY LenProperties
<1>2. /\ s \o t \in Seq(S) /\ Len(s \o t) = Len(s) + Len(t)
      /\ \A i \in 1 .. Len(s) + Len(t) : (s \o t)[i] = IF i <= Len(s) THEN s[i] ELSE t[i - Len(s)]
    BY ConcatProperties
<1>3. \A i \in 1 .. Len(s) : i \in 1 .. Len(s) + Len(t) /\ i <= Len(s)
    BY <1>1
<1>4. \A i \in 1 .. Len(t) : /\ Len(s) + i \in 1 .. Len(s) + Len(t)
                             /\ ~(Len(s) + i <= Len(s)) /\ (Len(s) + i) - Len(s) = i
    BY <1>1
<1>5. QED
    BY <1>1, <1>2, <1>3, <1>4

LEMMA Zeroed ==
    ASSUME NEW n \in Nat
    PROVE  Zeros(n) \in Seq(Byte) /\ Len(Zeros(n)) = n
<1>1. Zeros(n) \in [1 .. n -> Byte]
    BY ConstantsAssumption DEF Zeros
<1>2. QED
    BY <1>1, FunctionIsSeq

(***************************************************************************)
(* What is readable, as a sequence.                                        *)
(***************************************************************************)
LEMMA Peeked ==
    ASSUME NEW b, IndicesOK(b), NEW len \in 0 .. readablebytes(b)
    PROVE  /\ PeekAsString(b, len) \in Seq(Byte)
           /\ Len(PeekAsString(b, len)) = len
           /\ \A i \in 1 .. len : PeekAsString(b, len)[i] = b.bytes[b.read + i]
<1> DEFINE m == b.read + 1
           n == b.read + len
<1>1. m \in Int /\ n \in Int /\ len \in Nat /\ \A i \in m .. n : b.bytes[i] \in Byte
    BY ElementOfSeq DEF IndicesOK, readablebytes
<1>2. /\ SubSeq(b.bytes, m, n) \in Seq(Byte)
      /\ Len(SubSeq(b.bytes, m, n)) = IF m <= n THEN n - m + 1 ELSE 0
      /\ \A i \in 1 .. n - m + 1 : SubSeq(b.bytes, m, n)[i] = b.bytes[m + i - 1]
    BY <1>1, SubSeqProperties
<1>3. b.read \in Nat
    BY DEF IndicesOK
<1>4. n - m + 1 = len /\ (len > 0 <=> m <= n)
    BY <1>1, <1>3
<1>5. \A i \in 1 .. len : m + i - 1 = b.read + i
    BY <1>1, <1>3
<1>6. QED
    BY <1>1, <1>2, <1>4, <1>5 DEF PeekAsString

LEMMA ContentsOf ==
    ASSUME NEW b, IndicesOK(b)
    PROVE  /\ readablebytes(b) \in Nat
           /\ Contents(b) \in Seq(Byte)
           /\ Len(Contents(b)) = readablebytes(b)
           /\ \A i \in 1 .. readablebytes(b) : Contents(b)[i] = b.bytes[b.read + i]
<1>1. readablebytes(b) \in Nat /\ readablebytes(b) \in 0 .. readablebytes(b)
    BY DEF IndicesOK, readablebytes
<1>2. QED
    BY <1>1, Peeked DEF Contents

LEMMA SameContents ==
    ASSUME NEW b, IndicesOK(b), NEW e, IndicesOK(e), readablebytes(e) = readablebytes(b),
           \A i \in 1 .. readablebytes(b) : e.bytes[e.read + i] = b.bytes[b.read + i]
    PROVE  Contents(e) = Contents(b)
<1>1. /\ Contents(b) \in Seq(Byte) /\ Contents(e) \in Seq(Byte)
      /\ Len(Contents(e)) = Len(Contents(b))
      /\ \A i \in 1 .. Len(Contents(e)) : Contents(e)[i] = Contents(b)[i]
    BY ContentsOf
<1>2. QED
    BY <1>1, SeqEqual

(***************************************************************************)
(* Making room keeps what is readable.                                     *)
(***************************************************************************)
LEMMA MovedKeeps ==
    ASSUME NEW b, IndicesOK(b)
    PROVE  /\ IndicesOK(MovedToFront(b))
           /\ Len(MovedToFront(b).bytes) = Len(b.bytes)
           /\ Contents(MovedToFront(b)) = Contents(b)
<1> DEFINE e == MovedToFront(b)
           last == PrependIndex + readablebytes(b)
<1>1. /\ b.bytes \in Seq(Byte) /\ Len(b.bytes) \in Nat /\ b.bytes \in [1 .. Len(b.bytes) -> Byte]
      /\ b.read \in Nat /\ b.write \in Nat /\ PrependIndex \in Nat
      /\ PrependIndex <= b.read /\ b.read <= b.write /\ b.write <= Len(b.bytes)
      /\ readablebytes(b) \in Nat /\ readablebytes(b) = b.write - b.read
    BY ConstantsAssumption, LenProperties DEF IndicesOK, readablebytes
<1>2. ASSUME NEW i \in PrependIndex + 1 .. last
      PROVE  b.read + i - PrependIndex \in 1 .. Len(b.bytes)
    BY SMTT(30), <1>1
<1>3. e.bytes \in [1 .. Len(b.bytes) -> Byte] /\ e.read = PrependIndex /\ e.write = last
    BY <1>1, <1>2 DEF MovedToFront
<1>4. e.bytes \in Seq(Byte) /\ Len(e.bytes) = Len(b.bytes)
    BY <1>1, <1>3, FunctionIsSeq
<1>5. IndicesOK(e)
    BY <1>1, <1>3, <1>4 DEF IndicesOK, MovedToFront
<1>6. readablebytes(e) = readablebytes(b)
    BY <1>1, <1>3 DEF readablebytes
<1>7. ASSUME NEW i \in 1 .. readablebytes(b)
      PROVE  e.bytes[e.read + i] = b.bytes[b.read + i]
    <2>1. /\ PrependIndex + i \in PrependIndex + 1 .. last
          /\ PrependIndex + i \in 1 .. Len(b.bytes)
          /\ b.read + (PrependIndex + i) - PrependIndex = b.read + i
        BY <1>1
    <2>2. e.bytes[PrependIndex + i] = b.bytes[b.read + (PrependIndex + i) - PrependIndex]
        BY <2>1 DEF MovedToFront
    <2>3. QED
        BY <1>3, <2>1, <2>2
<1>8. QED
    BY <1>4, <1>5, <1>6, <1>7, SameContents

LEMMA GrownKeeps ==
    ASSUME NEW b, IndicesOK(b), NEW len \in Nat, writablebytes(b) < len
    PROVE  /\ IndicesOK(Grown(b, len))
           /\ writablebytes(Grown(b, len)) = len
           /\ Contents(Grown(b, len)) = Contents(b)
<1> DEFINE e == Grown(b, len)
           n == b.write + len - Len(b.bytes)
<1>1. /\ b.bytes \in Seq(Byte) /\ Len(b.bytes) \in Nat
      /\ b.read \in Nat /\ b.write \in Nat /\ b.read <= b.write /\ b.write <= Len(b.bytes)
      /\ n \in Nat /\ n > 0
    BY LenProperties DEF IndicesOK, writablebytes
<1>2. Zeros(n) \in Seq(Byte) /\ Len(Zeros(n)) = n
    BY <1>1, Zeroed
<1>3. e.bytes = b.bytes \o Zeros(n) /\ e.read = b.read /\ e.write = b.write
    BY DEF Grown, IndicesOK
<1>4. /\ e.bytes \in Seq(Byte) /\ Len(e.bytes) = b.write + len
      /\ \A i \in 1 .. Len(b.bytes) : e.bytes[i] = b.bytes[i]
    <2>1. /\ b.bytes \o Zeros(n) \in Seq(Byte)
          /\ Len(b.bytes \o Zeros(n)) = Len(b.bytes) + Len(Zeros(n))
          /\ \A i \in 1 .. Len(b.bytes) : (b.bytes \o Zeros(n))[i] = b.bytes[i]
        <3> HIDE DEF n
        <3>1. QED
            BY ZenonT(60), <1>1, <1>2, Concatenated
    <2>2. Len(b.bytes) + n = b.write + len
        BY <1>1
    <2> HIDE DEF n, e
    <2>3. QED
        BY <1>2, <1>3, <2>1, <2>2
<1>5. IndicesOK(e)
    <2>1. e = [bytes |-> b.bytes \o Zeros(n), read |-> b.read, write |-> b.write]
        BY DEF Grown
    <2>2. PrependIndex <= b.read
        BY DEF IndicesOK
    <2> HIDE DEF e
    <2>3. QED
        BY <1>1, <1>3, <1>4, <2>1, <2>2 DEF IndicesOK
<1> HIDE DEF n, e
<1>6. readablebytes(e) = readablebytes(b) /\ writablebytes(e) = len
    BY <1>1, <1>3, <1>4 DEF readablebytes, writablebytes
<1>7. \A i \in 1 .. readablebytes(b) : e.bytes[e.read + i] = b.bytes[b.read + i]
    <2>1. \A i \in 1 .. readablebytes(b) : b.read + i \in 1 .. Len(b.bytes)
        BY <1>1 DEF readablebytes
    <2>2. QED
        BY <1>3, <1>4, <2>1
<1>8. QED
    BY <1>5, <1>6, <1>7, SameContents DEF e

LEMMA EnsureKeeps ==
    ASSUME NEW b, IndicesOK(b), NEW len \in Nat
    PROVE  LET e == EnsureWritableBytes(b, len)
           IN  /\ IndicesOK(e)
               /\ writablebytes(e) >= len
               /\ Contents(e) = Contents(b)
               /\ Len(e.bytes) > Len(b.bytes) => PrependIndex + readablebytes(b) + len > Len(b.bytes)
<1>1. /\ Len(b.bytes) \in Nat /\ b.read \in Nat /\ b.write \in Nat /\ PrependIndex \in Nat
      /\ readablebytes(b) = b.write - b.read /\ writablebytes(b) = Len(b.bytes) - b.write
    BY ConstantsAssumption, LenProperties DEF IndicesOK, readablebytes, writablebytes
<1>2. CASE writablebytes(b) >= len
    BY <1>1, <1>2 DEF EnsureWritableBytes
<1>3. CASE writablebytes(b) < len /\ writablebytes(b) + b.read >= PrependIndex + len
    <2>1. EnsureWritableBytes(b, len) = MovedToFront(b)
        BY <1>1, <1>3 DEF EnsureWritableBytes
    <2>2. MovedToFront(b).write = PrependIndex + readablebytes(b)
        BY DEF MovedToFront
    <2>3. writablebytes(MovedToFront(b)) >= len
        BY <1>1, <1>3, <2>2, MovedKeeps DEF writablebytes
    <2>4. QED
        BY <1>1, <2>1, <2>3, MovedKeeps
<1>4. CASE writablebytes(b) < len /\ writablebytes(b) + b.read < PrependIndex + len
    <2>1. EnsureWritableBytes(b, len) = Grown(b, len)
        BY <1>1, <1>4 DEF EnsureWritableBytes
    <2>2. PrependIndex + readablebytes(b) + len > Len(b.bytes)
        BY <1>1, <1>4
    <2>3. QED
        BY <1>4, <2>1, <2>2, GrownKeeps
<1>5. QED
    BY <1>1, <1>2, <1>3, <1>4

(***************************************************************************)
(* The operations on the contents.                                         *)
(***************************************************************************)
LEMMA AppendedContents ==
    ASSUME NEW b, IndicesOK(b), NEW message \in Seq(Byte)
    PROVE  /\ IndicesOK(Appended(b, message))
           /\ Contents(Appended(b, message)) = Contents(b) \o message
           /\ readablebytes(Appended(b, message)) = readablebytes(b) + Len(message)
           /\ Len(Appended(b, message).bytes) = Len(EnsureWritableBytes(b, Len(message)).bytes)
<1> DEFINE len == Len(message)
           e == EnsureWritableBytes(b, len)
           a == Appended(b, message)
<1>1. len \in Nat /\ \A i \in 1 .. len : message[i] \in Byte
    BY LenProperties, ElementOfSeq
<1>2. IndicesOK(e) /\ writablebytes(e) >= len /\ Contents(e) = Contents(b)
    BY <1>1, EnsureKeeps
<1>3. /\ e.bytes \in Seq(Byte) /\ Len(e.bytes) \in Nat /\ e.bytes \in [1 .. Len(e.bytes) -> Byte]
      /\ e.read \in Nat /\ e.write \in Nat /\ PrependIndex <= e.read /\ e.read <= e.write
      /\ e.write + len <= Len(e.bytes)
    BY <1>1, <1>2, LenProperties DEF IndicesOK, writablebytes
<1> HIDE DEF e, len
<1>4. a = [bytes |-> [i \in 1 .. Len(e.bytes) |->
                        IF i \in e.write + 1 .. e.write + len THEN message[i - e.write] ELSE e.bytes[i]],
           read |-> e.read, write |-> e.write + len]
    BY DEF Appended, e, len
<1> HIDE DEF a
<1>5. a.bytes \in [1 .. Len(e.bytes) -> Byte] /\ a.read = e.read /\ a.write = e.write + len
    <2>1. \A i \in e.write + 1 .. e.write + len : i - e.write \in 1 .. len
        BY <1>1, <1>3
    <2>2. \A i \in 1 .. Len(e.bytes) : e.bytes[i] \in Byte
        BY <1>3
    <2>3. QED
        BY <1>1, <1>4, <2>1, <2>2
<1>6. a.bytes \in Seq(Byte) /\ Len(a.bytes) = Len(e.bytes)
    BY <1>3, <1>5, FunctionIsSeq
<1>7. IndicesOK(a)
    BY <1>1, <1>3, <1>4, <1>5, <1>6 DEF IndicesOK
<1>8. /\ \A i \in 1 .. e.write : a.bytes[i] = e.bytes[i]
      /\ \A i \in 1 .. len : a.bytes[e.write + i] = message[i]
    <2>2. \A i \in 1 .. Len(e.bytes) :
              a.bytes[i] = IF i \in e.write + 1 .. e.write + len THEN message[i - e.write] ELSE e.bytes[i]
        BY <1>4
    <2>3. \A i \in 1 .. e.write : i \in 1 .. Len(e.bytes) /\ i \notin e.write + 1 .. e.write + len
        BY <1>1, <1>3
    <2>4. \A i \in 1 .. len : /\ e.write + i \in 1 .. Len(e.bytes)
                              /\ e.write + i \in e.write + 1 .. e.write + len
                              /\ (e.write + i) - e.write = i
        BY <1>1, <1>3
    <2>5. QED
        BY <2>2, <2>3, <2>4
<1>9. readablebytes(a) = readablebytes(e) + len /\ readablebytes(e) = e.write - e.read
    BY <1>1, <1>3, <1>5 DEF readablebytes
<1>10. readablebytes(b) = readablebytes(e)
    BY <1>2, ContentsOf
<1>11. Contents(a) = Contents(b) \o message
    <2>1. /\ Contents(b) \in Seq(Byte) /\ Len(Contents(b)) = readablebytes(e) /\ readablebytes(e) \in Nat
          /\ \A i \in 1 .. readablebytes(e) : Contents(b)[i] = e.bytes[e.read + i]
        BY <1>2, ContentsOf
    <2>2. /\ Contents(b) \o message \in Seq(Byte)
          /\ Len(Contents(b) \o message) = readablebytes(e) + len
          /\ \A i \in 1 .. readablebytes(e) : (Contents(b) \o message)[i] = Contents(b)[i]
          /\ \A i \in 1 .. len : (Contents(b) \o message)[readablebytes(e) + i] = message[i]
        <3>1. /\ Contents(b) \o message \in Seq(Byte)
              /\ Len(Contents(b) \o message) = Len(Contents(b)) + Len(message)
              /\ \A i \in 1 .. Len(Contents(b)) : (Contents(b) \o message)[i] = Contents(b)[i]
              /\ \A i \in 1 .. Len(message) : (Contents(b) \o message)[Len(Contents(b)) + i] = message[i]
            <4> DEFINE q == Contents(b)
            <4>1. q \in Seq(Byte) /\ message \in Seq(Byte)
                BY <2>1
            <4> HIDE DEF q
            <4>2. /\ q \o message \in Seq(Byte)
                  /\ Len(q \o message) = Len(q) + Len(message)
                  /\ \A i \in 1 .. Len(q) : (q \o message)[i] = q[i]
                  /\ \A i \in 1 .. Len(message) : (q \o message)[Len(q) + i] = message[i]
                BY <4>1, Concatenated
            <4>3. QED
                BY <4>2 DEF q
        <3>2. Len(Contents(b)) = readablebytes(e) /\ Len(message) = len
            BY <2>1 DEF len
        <3>3. QED
            BY <3>1, <3>2
    <2>3. /\ Contents(a) \in Seq(Byte) /\ Len(Contents(a)) = readablebytes(e) + len
          /\ \A i \in 1 .. readablebytes(e) + len : Contents(a)[i] = a.bytes[e.read + i]
        BY <1>5, <1>7, <1>9, ContentsOf
    <2>4. ASSUME NEW i \in 1 .. readablebytes(e) + len
          PROVE  Contents(a)[i] = (Contents(b) \o message)[i]
        <3>1. CASE i <= readablebytes(e)
            <4>1. i \in 1 .. readablebytes(e) /\ e.read + i \in 1 .. e.write
                BY <1>3, <1>9, <2>1, <3>1
            <4>2. QED
                BY <1>8, <2>1, <2>2, <2>3, <4>1
        <3>2. CASE i > readablebytes(e)
            <4> DEFINE j == i - readablebytes(e)
            <4>1. /\ j \in 1 .. len /\ i = readablebytes(e) + j
                  /\ e.read + i = e.write + j
                BY SMTT(30), <1>1, <1>3, <1>9, <2>1, <3>2
            <4> HIDE DEF j
            <4>2. QED
                BY <1>8, <2>2, <2>3, <4>1
        <3>3. i <= readablebytes(e) \/ i > readablebytes(e)
            BY <1>1, <2>1
        <3>4. QED
            BY <3>1, <3>2, <3>3
    <2>5. QED
        BY <2>2, <2>3, <2>4, SeqEqual
<1>12. QED
    BY <1>6, <1>7, <1>9, <1>10, <1>11 DEF e, len, a
LEMMA DroppedContents ==
    ASSUME NEW b, IndicesOK(b), NEW len \in 0 .. readablebytes(b)
    PROVE  LET d == [b EXCEPT !.read = @ + len]
           IN  /\ IndicesOK(d) /\ readablebytes(d) = readablebytes(b) - len
               /\ d.bytes = b.bytes
               /\ Contents(d) = SubSeq(Contents(b), len + 1, Len(Contents(b)))
<1> DEFINE d == [b EXCEPT !.read = @ + len]
           n == readablebytes(b)
<1>1. /\ b.bytes \in Seq(Byte) /\ Len(b.bytes) \in Nat /\ b.read \in Nat /\ b.write \in Nat
      /\ PrependIndex \in Nat /\ PrependIndex <= b.read /\ b.write <= Len(b.bytes)
      /\ n = b.write - b.read /\ n \in Nat /\ len \in Nat /\ len <= n
    BY ConstantsAssumption, LenProperties DEF IndicesOK, readablebytes
<1>2. d.bytes = b.bytes /\ d.read = b.read + len /\ d.write = b.write
    BY DEF IndicesOK
<1>3. IndicesOK(d)
    <2>1. b \in [bytes : Seq(Byte), read : Nat, write : Nat]
        BY DEF IndicesOK
    <2>2. b.read + len \in Nat /\ PrependIndex <= b.read + len /\ b.read + len <= b.write
        BY <1>1
    <2>3. d \in [bytes : Seq(Byte), read : Nat, write : Nat]
        BY <2>1, <2>2
    <2> HIDE DEF d
    <2>4. QED
        BY <1>1, <1>2, <2>2, <2>3 DEF IndicesOK
<1> HIDE DEF d
<1>4. readablebytes(d) = n - len
    BY <1>1, <1>2 DEF readablebytes
<1>5. /\ Contents(d) \in Seq(Byte) /\ Len(Contents(d)) = n - len
      /\ \A i \in 1 .. n - len : Contents(d)[i] = b.bytes[b.read + len + i]
    BY <1>2, <1>3, <1>4, ContentsOf
<1>6. /\ Contents(b) \in Seq(Byte) /\ Len(Contents(b)) = n
      /\ \A i \in 1 .. n : Contents(b)[i] = b.bytes[b.read + i] /\ Contents(b)[i] \in Byte
    BY ContentsOf, ElementOfSeq
<1> DEFINE s == SubSeq(Contents(b), len + 1, n)
<1>7. /\ s \in Seq(Byte) /\ Len(s) = n - len
      /\ \A i \in 1 .. n - len : s[i] = Contents(b)[len + i]
    <2> DEFINE q == Contents(b)
               m == len + 1
    <2>1. m \in Int /\ n \in Int /\ \A i \in m .. n : q[i] \in Byte
        BY <1>1, <1>6
    <2>2. n - m + 1 = n - len /\ (m <= n <=> len < n) /\ \A i \in 1 .. n - len : m + i - 1 = len + i
        BY <1>1
    <2> HIDE DEF q, m, n
    <2>3. /\ SubSeq(q, m, n) \in Seq(Byte)
          /\ Len(SubSeq(q, m, n)) = IF m <= n THEN n - m + 1 ELSE 0
          /\ \A i \in 1 .. n - m + 1 : SubSeq(q, m, n)[i] = q[m + i - 1]
        BY <2>1, SubSeqProperties
    <2>4. QED
        BY <1>1, <2>2, <2>3 DEF q, m
<1>8. \A i \in 1 .. n - len : len + i \in 1 .. n /\ b.read + (len + i) = b.read + len + i
    BY <1>1
<1> HIDE DEF s, n
<1>9. /\ Len(Contents(d)) = Len(s)
      /\ \A i \in 1 .. Len(Contents(d)) : Contents(d)[i] = s[i]
    BY <1>5, <1>6, <1>7, <1>8
<1>10. Contents(d) = s
    BY <1>5, <1>7, <1>9, SeqEqual
<1>11. QED
    BY <1>2, <1>3, <1>4, <1>6, <1>10 DEF d, s, n

LEMMA FirstContents ==
    ASSUME NEW b, IndicesOK(b), NEW len \in 0 .. readablebytes(b)
    PROVE  PeekAsString(b, len) = SubSeq(Contents(b), 1, len)
<1>1. /\ Contents(b) \in Seq(Byte) /\ Len(Contents(b)) = readablebytes(b) /\ readablebytes(b) \in Nat
      /\ \A i \in 1 .. readablebytes(b) : Contents(b)[i] = b.bytes[b.read + i] /\ Contents(b)[i] \in Byte
    BY ContentsOf, ElementOfSeq
<1>2. /\ PeekAsString(b, len) \in Seq(Byte) /\ Len(PeekAsString(b, len)) = len
      /\ \A i \in 1 .. len : PeekAsString(b, len)[i] = b.bytes[b.read + i]
    BY Peeked
<1> DEFINE q == Contents(b)
<1>3. 1 \in Int /\ len \in Int /\ len \in Nat /\ \A i \in 1 .. len : i \in 1 .. readablebytes(b) /\ q[i] \in Byte
    BY <1>1
<1>4. /\ SubSeq(q, 1, len) \in Seq(Byte) /\ Len(SubSeq(q, 1, len)) = len
      /\ \A i \in 1 .. len : SubSeq(q, 1, len)[i] = q[i]
    <2> HIDE DEF q
    <2>1. /\ SubSeq(q, 1, len) \in Seq(Byte)
          /\ Len(SubSeq(q, 1, len)) = IF 1 <= len THEN len - 1 + 1 ELSE 0
          /\ \A i \in 1 .. len - 1 + 1 : SubSeq(q, 1, len)[i] = q[1 + i - 1]
        BY <1>3, SubSeqProperties
    <2>2. len - 1 + 1 = len /\ (1 <= len \/ len = 0) /\ \A i \in 1 .. len : 1 + i - 1 = i
        BY <1>3
    <2>3. QED
        BY <1>3, <2>1, <2>2
<1>5. /\ Len(PeekAsString(b, len)) = Len(SubSeq(q, 1, len))
      /\ \A i \in 1 .. Len(PeekAsString(b, len)) : PeekAsString(b, len)[i] = SubSeq(q, 1, len)[i]
    BY <1>1, <1>2, <1>3, <1>4
<1>6. QED
    BY <1>2, <1>4, <1>5, SeqEqual

LEMMA EmptiedContents ==
    ASSUME NEW b, IndicesOK(b)
    PROVE  /\ IndicesOK(RetrievedAll(b)) /\ RetrievedAll(b).bytes = b.bytes
           /\ Contents(RetrievedAll(b)) = <<>>
           /\ SubSeq(Contents(b), readablebytes(b) + 1, Len(Contents(b))) = <<>>
<1>1. Len(b.bytes) \in Nat /\ PrependIndex \in Nat /\ PrependIndex <= Len(b.bytes)
    BY ConstantsAssumption, LenProperties DEF IndicesOK
<1>2. IndicesOK(RetrievedAll(b)) /\ RetrievedAll(b).bytes = b.bytes
    <2>1. b \in [bytes : Seq(Byte), read : Nat, write : Nat]
        BY DEF IndicesOK
    <2>2. /\ RetrievedAll(b) \in [bytes : Seq(Byte), read : Nat, write : Nat]
          /\ RetrievedAll(b).bytes = b.bytes
          /\ RetrievedAll(b).read = PrependIndex /\ RetrievedAll(b).write = PrependIndex
        BY <1>1, <2>1 DEF RetrievedAll
    <2>3. QED
        BY <1>1, <2>2 DEF IndicesOK
<1>3. readablebytes(RetrievedAll(b)) = 0
    BY <1>1 DEF IndicesOK, RetrievedAll, readablebytes
<1>4. Contents(RetrievedAll(b)) = <<>>
    <2>1. Contents(RetrievedAll(b)) \in Seq(Byte) /\ Len(Contents(RetrievedAll(b))) = 0
        BY <1>2, <1>3, ContentsOf
    <2>2. QED
        BY <2>1, EmptySeq
<1>5. readablebytes(b) \in Nat /\ Len(Contents(b)) = readablebytes(b)
    BY ContentsOf
<1>6. SubSeq(Contents(b), readablebytes(b) + 1, Len(Contents(b))) = <<>>
    BY <1>5, SubSeqEmpty
<1>7. QED
    BY <1>2, <1>4, <1>6

(* Retrieve(len) rewinds the indices when it takes everything.             *)
LEMMA RetrievedContents ==
    ASSUME NEW b, IndicesOK(b), NEW len \in 0 .. readablebytes(b)
    PROVE  /\ IndicesOK(Retrieved(b, len)) /\ Retrieved(b, len).bytes = b.bytes
           /\ Contents(Retrieved(b, len)) = SubSeq(Contents(b), len + 1, Len(Contents(b)))
<1>1. CASE readablebytes(b) > len
    BY <1>1, DroppedContents DEF Retrieved
<1>2. CASE ~(readablebytes(b) > len)
    <2>1. len = readablebytes(b)
        BY <1>2, ContentsOf
    <2>2. QED
        BY <1>2, <2>1, EmptiedContents DEF Retrieved
<1>3. QED
    BY <1>1, <1>2

(***************************************************************************)
(* The theorems.                                                           *)
(***************************************************************************)
LEMMA TypeIsIndices ==
    ASSUME TypeOK
    PROVE  /\ IndicesOK(Restored)
           /\ Restored.bytes = buf.bytes
           /\ (~failed => Restored = buf)
<1>1. buf \in [bytes : Seq(Byte), read : Nat, write : Nat] /\ putBack \in Nat /\ buf.read + putBack \in Nat
    BY DEF TypeOK, putBack
<1>2. /\ Restored \in [bytes : Seq(Byte), read : Nat, write : Nat]
      /\ Restored.bytes = buf.bytes /\ Restored.write = buf.write
      /\ Restored.read = buf.read + putBack
    BY <1>1 DEF Restored
<1>3. IndicesOK(Restored)
    BY <1>2 DEF TypeOK, IndicesOK
<1>4. ~failed => Restored = buf
    BY <1>1 DEF Restored, putBack
<1>5. QED
    BY <1>2, <1>3, <1>4

LEMMA IndicesAreType ==
    ASSUME ~failed, IndicesOK(buf), out \in Seq(Byte), failed \in BOOLEAN
    PROVE  TypeOK
<1>1. putBack = 0 /\ buf.read + 0 = buf.read
    BY DEF putBack, IndicesOK
<1>2. QED
    BY <1>1 DEF TypeOK, IndicesOK

LEMMA InitialContents == Init => TypeOK /\ Contents(Restored) = <<>>
<1> SUFFICES ASSUME Init
             PROVE  TypeOK /\ Contents(Restored) = <<>>
    OBVIOUS
<1>1. Zeros(InitialSize) \in Seq(Byte) /\ Len(Zeros(InitialSize)) = InitialSize
    BY Zeroed, ConstantsAssumption
<1>2. IndicesOK(buf)
    BY <1>1, ConstantsAssumption DEF Init, IndicesOK
<1>3. readablebytes(buf) = 0
    BY ConstantsAssumption DEF Init, readablebytes
<1>4. Contents(buf) \in Seq(Byte) /\ Len(Contents(buf)) = 0
    BY <1>2, <1>3, ContentsOf
<1>5. Contents(buf) = <<>>
    BY <1>4, EmptySeq
<1>6. out \in Seq(Byte) /\ ~failed /\ failed \in BOOLEAN
    BY EmptySeq DEF Init
<1>7. QED
    BY <1>2, <1>5, <1>6, IndicesAreType, TypeIsIndices

(* What each operation does to the contents, and to the vector, when no    *)
(* failed write is pending.                                                *)
OperationStep ==
    \/ \E message \in Message :
            /\ IndicesOK(buf')
            /\ out' = <<>>
            /\ Contents(buf') = Contents(buf) \o message
            /\ (Len(buf'.bytes) > Len(buf.bytes) => PrependIndex + readablebytes(buf') > Len(buf.bytes))
    \/ \E len \in 0 .. Len(Contents(buf)) :
            /\ IndicesOK(buf')
            /\ out' \in {<<>>, SubSeq(Contents(buf), 1, len)}
            /\ out' \in Seq(Byte)
            /\ Contents(buf') = SubSeq(Contents(buf), len + 1, Len(Contents(buf)))
            /\ buf'.bytes = buf.bytes

LEMMA Operation == IndicesOK(buf) /\ Operations => OperationStep
<1> SUFFICES ASSUME IndicesOK(buf), Operations
             PROVE  OperationStep
    OBVIOUS
<1>1. IndicesOK(buf) /\ Len(Contents(buf)) = readablebytes(buf) /\ readablebytes(buf) \in Nat
    BY ContentsOf
<1>2. ASSUME NEW message \in Message, append(message)
      PROVE  OperationStep
    <2>1. message \in Seq(Byte) /\ Len(message) \in Nat
        BY ConstantsAssumption, LenProperties
    <2>2. buf' = Appended(buf, message) /\ out' = <<>>
        BY <1>2 DEF append
    <2>3. /\ IndicesOK(buf') /\ Contents(buf') = Contents(buf) \o message
          /\ readablebytes(buf') = readablebytes(buf) + Len(message)
          /\ Len(buf'.bytes) = Len(EnsureWritableBytes(buf, Len(message)).bytes)
        BY <1>1, <2>1, <2>2, AppendedContents
    <2>4. Len(buf'.bytes) > Len(buf.bytes) => PrependIndex + readablebytes(buf) + Len(message) > Len(buf.bytes)
        BY <1>1, <2>1, <2>3, EnsureKeeps
    <2>5. Len(buf.bytes) \in Nat /\ PrependIndex \in Nat
        BY <1>1, ConstantsAssumption, LenProperties DEF IndicesOK
    <2>6. Len(buf'.bytes) > Len(buf.bytes) => PrependIndex + readablebytes(buf') > Len(buf.bytes)
        BY <1>1, <2>1, <2>3, <2>4, <2>5
    <2>7. QED
        BY <2>2, <2>3, <2>6 DEF OperationStep
<1>3. ASSUME NEW len \in 0 .. readablebytes(buf)
      PROVE  /\ PeekAsString(buf, len) = SubSeq(Contents(buf), 1, len) /\ PeekAsString(buf, len) \in Seq(Byte)
             /\ <<>> \in Seq(Byte) /\ len \in 0 .. Len(Contents(buf))
    BY <1>1, FirstContents, Peeked, EmptySeq
<1>4. ASSUME NEW len \in 0 .. readablebytes(buf), Retrieve(len) \/ RetrieveAsString(len)
      PROVE  OperationStep
    <2>1. buf' = Retrieved(buf, len) /\ out' \in {<<>>, PeekAsString(buf, len)}
        BY <1>4 DEF Retrieve, RetrieveAsString
    <2>2. QED
        BY <1>1, <1>3, <2>1, RetrievedContents DEF OperationStep
<1>5. ASSUME NEW len \in 0 .. readablebytes(buf), RetrieveUtil(len) \/ RetrieveUtilAsString(len)
      PROVE  OperationStep
    <2>1. buf' = [buf EXCEPT !.read = @ + len] /\ out' \in {<<>>, PeekAsString(buf, len)}
        BY <1>5 DEF RetrieveUtil, RetrieveUtilAsString
    <2>2. QED
        BY <1>1, <1>3, <2>1, DroppedContents DEF OperationStep
<1>6. CASE RetrieveAll \/ RetrieveAllAsString
    <2> DEFINE len == readablebytes(buf)
    <2>1. buf' = RetrievedAll(buf) /\ out' \in {<<>>, PeekAsString(buf, len)} /\ len \in 0 .. readablebytes(buf)
        BY <1>1, <1>6 DEF RetrieveAll, RetrieveAllAsString, Contents
    <2>2. QED
        BY <1>1, <1>3, <2>1, EmptiedContents DEF OperationStep
<1>7. QED
    BY <1>2, <1>4, <1>5, <1>6 DEF Operations

(* What a step does to the queue, and to the vector: a failed write takes  *)
(* nothing from the queue, and the end of Write all of it.                 *)
QueueStep ==
    \/ \E message \in Message :
            /\ out' = <<>>
            /\ Contents(Restored') = Contents(Restored) \o message
            /\ (Len(buf'.bytes) > Len(buf.bytes) => PrependIndex + readablebytes(buf') > Len(buf.bytes))
    \/ \E len \in 0 .. Len(Contents(Restored)) :
            /\ out' \in {<<>>, SubSeq(Contents(Restored), 1, len)}
            /\ Contents(Restored') = SubSeq(Contents(Restored), len + 1, Len(Contents(Restored)))
            /\ buf'.bytes = buf.bytes

LEMMA OperationsStep ==
    ASSUME TypeOK, ~failed, Operations, failed' = FALSE
    PROVE  TypeOK' /\ QueueStep
<1>1. IndicesOK(buf) /\ Restored = buf
    BY TypeIsIndices
<1>2. OperationStep
    BY <1>1, Operation
<1>3. IndicesOK(buf') /\ out' \in Seq(Byte)
    BY <1>2, EmptySeq DEF OperationStep
<1>4. TypeOK'
    <2>1. putBack' = 0 /\ buf'.read + 0 = buf'.read
        BY <1>3 DEF putBack, IndicesOK
    <2>2. QED
        BY <1>3, <2>1 DEF TypeOK, IndicesOK
<1>5. Restored' = buf'
    BY <1>3 DEF Restored, putBack, IndicesOK
<1>6. QED
    BY <1>1, <1>2, <1>4, <1>5 DEF OperationStep, QueueStep

(* The byte that a failed write puts back lies before the queue.           *)
LEMMA FailureStep ==
    ASSUME TypeOK, ~failed, WriteFails
    PROVE  TypeOK' /\ QueueStep
<1>1. IndicesOK(buf) /\ Restored = buf
    BY TypeIsIndices
<1>2. /\ buf \in [bytes : Seq(Byte), read : Nat, write : Nat]
      /\ buf.read \in Nat /\ buf.write \in Nat /\ PrependIndex \in Nat /\ PrependIndex > 0
      /\ PrependIndex <= buf.read /\ buf.read <= buf.write /\ buf.write <= Len(buf.bytes)
    BY <1>1, ConstantsAssumption DEF IndicesOK
<1>3. buf' = [buf EXCEPT !.read = @ + (-1)] /\ out' = <<>> /\ failed' = TRUE
    <2>1. readablebytes(buf) > -1
        BY <1>2 DEF readablebytes
    <2>2. QED
        BY <2>1 DEF WriteFails, Retrieve, Retrieved
<1>4. buf.read + (-1) \in Nat /\ buf.read + (-1) + 1 = buf.read
    BY <1>2
<1>5. /\ buf' \in [bytes : Seq(Byte), read : Nat, write : Nat]
      /\ buf'.bytes = buf.bytes /\ buf'.write = buf.write /\ buf'.read = buf.read + (-1)
    BY <1>2, <1>3, <1>4
<1>6. putBack' = 1
    BY <1>3 DEF putBack
<1>7. TypeOK'
    BY <1>2, <1>3, <1>4, <1>5, <1>6, EmptySeq DEF TypeOK
<1>8. Restored' = buf
    BY <1>2, <1>3, <1>4, <1>6 DEF Restored
<1>9. Contents(buf) = SubSeq(Contents(buf), 0 + 1, Len(Contents(buf))) /\ 0 \in 0 .. Len(Contents(buf))
    <2>1. 0 \in 0 .. readablebytes(buf) /\ Len(Contents(buf)) = readablebytes(buf)
        BY <1>1, ContentsOf
    <2>2. [buf EXCEPT !.read = @ + 0] = buf
        BY <1>2
    <2>3. QED
        BY <1>1, <2>1, <2>2, DroppedContents
<1>10. QED
    BY <1>1, <1>3, <1>5, <1>7, <1>8, <1>9 DEF QueueStep

LEMMA EndStep ==
    ASSUME TypeOK, failed, WriteEnds
    PROVE  TypeOK' /\ QueueStep
<1>1. IndicesOK(Restored) /\ Restored.bytes = buf.bytes
    BY TypeIsIndices
<1>2. buf' = RetrievedAll(Restored) /\ out' = <<>> /\ failed' = FALSE
    BY DEF WriteEnds, RetrieveAll, RetrievedAll, Restored, TypeOK
<1>3. /\ IndicesOK(buf') /\ buf'.bytes = buf.bytes /\ Contents(buf') = <<>>
      /\ SubSeq(Contents(Restored), readablebytes(Restored) + 1, Len(Contents(Restored))) = <<>>
    BY <1>1, <1>2, EmptiedContents
<1>4. readablebytes(Restored) \in 0 .. Len(Contents(Restored))
    BY <1>1, ContentsOf
<1>5. TypeOK'
    <2>1. putBack' = 0 /\ buf'.read + 0 = buf'.read
        BY <1>2, <1>3 DEF putBack, IndicesOK
    <2>2. QED
        BY <1>2, <1>3, <2>1, EmptySeq DEF TypeOK, IndicesOK
<1>6. Restored' = buf'
    BY <1>2, <1>3 DEF Restored, putBack, IndicesOK
<1>7. QED
    BY <1>2, <1>3, <1>4, <1>5, <1>6 DEF QueueStep

LEMMA NextStep ==
    ASSUME TypeOK, Next
    PROVE  TypeOK' /\ QueueStep
BY OperationsStep, FailureStep, EndStep DEF Next

LEMMA TypeKept == TypeOK /\ [Next]_vars => TypeOK'
<1>1. ASSUME TypeOK, UNCHANGED vars
      PROVE  TypeOK'
    BY <1>1 DEF vars, TypeOK, putBack
<1>2. QED
    BY <1>1, NextStep

(* The indices of a Buffer stay in order and inside its vector, also after *)
(* a write that failed.                                                    *)
THEOREM IndicesInOrder == Spec => []TypeOK
<1>1. Init => TypeOK
    BY InitialContents
<1>2. QED
    BY <1>1, TypeKept, PTL DEF Spec

(* A Buffer implements a queue of bytes: what is retrieved is what was     *)
(* appended, in order, whether the bytes were moved or the vector grew;    *)
(* the byte that a failed write puts back is never returned.               *)
THEOREM IsByteQueue == Spec => ImplementsByteQueue
<1>1. Init => Queue!Init
    BY InitialContents DEF Init, Queue!Init
<1>2. TypeOK /\ [Next]_vars => [Queue!Next]_<<Contents(Restored), out>>
    <2>1. ASSUME TypeOK, Next
          PROVE  Queue!Next
        BY <2>1, NextStep DEF QueueStep, Queue!Next, Queue!append, Queue!Retrieve
    <2>2. ASSUME UNCHANGED vars
          PROVE  UNCHANGED <<Contents(Restored), out>>
        BY <2>2 DEF vars, Restored, putBack
    <2>3. QED
        BY <2>1, <2>2
<1>3. QED
    BY <1>1, <1>2, IndicesInOrder, PTL DEF Spec, ImplementsByteQueue, Queue!Spec

(* The vector of a Buffer grows only when it must.                         *)
THEOREM GrowthIsNeeded == Spec => GrowsOnlyWhenFull
<1>1. TypeOK /\ [Next]_vars
        => [Len(buf'.bytes) > Len(buf.bytes) => PrependIndex + readablebytes(buf') > Len(buf.bytes)]_vars
    <2> SUFFICES ASSUME TypeOK, Next, Len(buf'.bytes) > Len(buf.bytes)
                 PROVE  PrependIndex + readablebytes(buf') > Len(buf.bytes)
        OBVIOUS
    <2>1. Len(buf.bytes) \in Nat
        BY LenProperties DEF TypeOK
    <2>2. buf'.bytes # buf.bytes
        BY <2>1
    <2>3. QED
        BY <2>2, NextStep DEF QueueStep
<1>2. QED
    BY <1>1, IndicesInOrder, PTL DEF Spec, GrowsOnlyWhenFull
=============================================================================
