----------------------- MODULE ConnectionOutputProofs -----------------------
(***************************************************************************)
(* Proofs about ConnectionOutput, for every number of bytes, every length  *)
(* of messages and every size of the socket's send buffer.                 *)
(*                                                                         *)
(* NeverReordered is not inductive: it says nothing of where the bytes of  *)
(* a new message stand. The invariant InOrder does: what has been received *)
(* comes before what the socket holds, this before what waits in sendBuf,  *)
(* and this before what Send has still to append.                          *)
(***************************************************************************)
EXTENDS ConnectionOutput, SequenceTheorems, TLAPS

Byte == 1 .. MaxBytes

(* s increases, and is of numbers above low and at most high.              *)
Within(s, low, high) ==
    /\ s \in Seq(Byte)
    /\ \A i \in 1 .. Len(s) : low < s[i] /\ s[i] <= high
    /\ \A i, j \in 1 .. Len(s) : i < j => s[i] < s[j]

InOrder == \E a, b, c \in 0 .. sent :
              /\ a <= b /\ b <= c
              /\ Within(wire, 0, a) /\ Within(socket, a, b)
              /\ Within(sendBuf, b, c) /\ Within(rest, c, sent)

IInv == TypeOK /\ InOrder

-----------------------------------------------------------------------------
LEMMA WithinEmpty ==
    ASSUME NEW low, NEW high
    PROVE  Within(<<>>, low, high)
BY EmptySeq DEF Within

LEMMA WithinMore ==
    ASSUME NEW low \in Nat, NEW high \in Nat, NEW l \in Nat, NEW h \in Nat,
           l <= low, high <= h,
           NEW s, Within(s, low, high)
    PROVE  Within(s, l, h)
<1>1. \A i \in 1 .. Len(s) : s[i] \in Nat
    BY ElementOfSeq, ConstantsAssumption DEF Within, Byte
<1>2. QED
    BY <1>1 DEF Within

LEMMA WithinConcat ==
    ASSUME NEW low \in Nat, NEW middle \in Nat, NEW high \in Nat,
           low <= middle, middle <= high,
           NEW s, Within(s, low, middle), NEW t, Within(t, middle, high)
    PROVE  Within(s \o t, low, high) /\ Len(s \o t) = Len(s) + Len(t)
<1> DEFINE u == s \o t
<1>1. Len(s) \in Nat /\ Len(t) \in Nat
    BY LenProperties DEF Within
<1>2. /\ u \in Seq(Byte) /\ Len(u) = Len(s) + Len(t)
      /\ \A i \in 1 .. Len(s) + Len(t) : u[i] = IF i <= Len(s) THEN s[i] ELSE t[i - Len(s)]
    BY ConcatProperties DEF Within
<1>3. /\ \A i \in 1 .. Len(s) : s[i] \in Nat
      /\ \A i \in 1 .. Len(t) : t[i] \in Nat
    BY ElementOfSeq, ConstantsAssumption DEF Within, Byte
<1>4. ASSUME NEW i \in 1 .. Len(u)
      PROVE  \/ i \in 1 .. Len(s) /\ u[i] = s[i] /\ low < s[i] /\ s[i] <= middle
             \/ /\ i > Len(s) /\ i - Len(s) \in 1 .. Len(t) /\ u[i] = t[i - Len(s)]
                /\ middle < t[i - Len(s)] /\ t[i - Len(s)] <= high
    <2>1. CASE i <= Len(s)
        BY <2>1, <1>1, <1>2 DEF Within
    <2>2. CASE i > Len(s)
        <3>1. i - Len(s) \in 1 .. Len(t) /\ ~(i <= Len(s))
            BY <2>2, <1>1, <1>2
        <3>2. u[i] = t[i - Len(s)]
            BY <3>1, <1>2
        <3>3. QED
            BY <2>2, <3>1, <3>2 DEF Within
    <2>3. QED
        BY <2>1, <2>2, <1>1
<1>5. \A i \in 1 .. Len(u) : low < u[i] /\ u[i] <= high
    BY <1>4, <1>3
<1>6. ASSUME NEW i \in 1 .. Len(u), NEW j \in 1 .. Len(u), i < j
      PROVE  u[i] < u[j]
    <2>1. CASE j <= Len(s)
        BY <2>1, <1>6, <1>1, <1>2 DEF Within
    <2>2. CASE i <= Len(s) /\ j > Len(s)
        BY SMTT(30), <2>2, <1>4, <1>3, <1>1
    <2>3. CASE i > Len(s)
        <3>1. /\ i - Len(s) \in 1 .. Len(t) /\ u[i] = t[i - Len(s)]
              /\ j - Len(s) \in 1 .. Len(t) /\ u[j] = t[j - Len(s)]
            BY <2>3, <1>6, <1>4, <1>1
        <3>2. i - Len(s) < j - Len(s)
            BY <1>6, <1>1
        <3>3. t[i - Len(s)] < t[j - Len(s)]
            BY <3>1, <3>2 DEF Within
        <3>4. QED
            BY <3>1, <3>3
    <2>4. QED
        BY <2>1, <2>2, <2>3, <1>1, <1>6
<1>7. QED
    BY <1>2, <1>5, <1>6 DEF Within

(* A sequence cut in two: there is a number between the parts.             *)
LEMMA WithinSplit ==
    ASSUME NEW low \in Nat, NEW high \in Nat, low <= high,
           NEW s, Within(s, low, high), NEW n \in 0 .. Len(s)
    PROVE  /\ \E m \in low .. high : /\ Within(SubSeq(s, 1, n), low, m)
                                     /\ Within(SubSeq(s, n + 1, Len(s)), m, high)
           /\ Len(SubSeq(s, 1, n)) = n
           /\ Len(SubSeq(s, n + 1, Len(s))) = Len(s) - n
<1> DEFINE first == SubSeq(s, 1, n)
           last == SubSeq(s, n + 1, Len(s))
           m == IF n = 0 THEN low ELSE s[n]
<1>1. Len(s) \in Nat /\ n \in Nat
    BY LenProperties DEF Within
<1>2. \A i \in 1 .. Len(s) : s[i] \in Byte /\ s[i] \in Nat
    BY ElementOfSeq, ConstantsAssumption DEF Within, Byte
<1>3. /\ first \in Seq(Byte) /\ Len(first) = n
      /\ \A i \in 1 .. n : first[i] = s[i]
    <2>1. \A i \in 1 .. n : s[i] \in Byte
        BY <1>1, <1>2
    <2>2. /\ first \in Seq(Byte) /\ Len(first) = IF 1 <= n THEN n - 1 + 1 ELSE 0
          /\ \A i \in 1 .. n - 1 + 1 : first[i] = s[1 + i - 1]
        BY <2>1, <1>1, SubSeqProperties
    <2>3. QED
        BY <2>2, <1>1
<1>4. /\ last \in Seq(Byte) /\ Len(last) = Len(s) - n
      /\ \A i \in 1 .. Len(s) - n : last[i] = s[n + i]
    <2>1. n + 1 \in Int /\ \A i \in n + 1 .. Len(s) : s[i] \in Byte
        BY <1>1, <1>2
    <2>2. /\ last \in Seq(Byte)
          /\ Len(last) = IF n + 1 <= Len(s) THEN Len(s) - (n + 1) + 1 ELSE 0
          /\ \A i \in 1 .. Len(s) - (n + 1) + 1 : last[i] = s[n + 1 + i - 1]
        BY <2>1, <1>1, SubSeqProperties
    <2>3. QED
        BY <2>2, <1>1
<1>5. m \in low .. high
    BY <1>1, <1>2 DEF Within
<1>6. Within(first, low, m)
    <2>1. \A i \in 1 .. n : /\ i \in 1 .. Len(s) /\ n \in 1 .. Len(s)
                            /\ m = s[n] /\ (i < n \/ i = n)
        BY <1>1
    <2>2. \A i \in 1 .. n : low < s[i] /\ s[i] <= m
        BY <2>1, <1>2 DEF Within
    <2>3. \A i, j \in 1 .. n : i < j => s[i] < s[j]
        BY <2>1 DEF Within
    <2>4. QED
        BY <1>3, <2>2, <2>3 DEF Within
<1>7. Within(last, m, high)
    <2>1. ASSUME NEW i \in 1 .. Len(s) - n
          PROVE  n + i \in 1 .. Len(s) /\ m < s[n + i] /\ s[n + i] <= high
        <3>1. n + i \in 1 .. Len(s) /\ n < n + i
            BY <1>1
        <3>2. CASE n = 0
            BY <3>1, <3>2 DEF Within
        <3>3. CASE n # 0
            <4>1. n \in 1 .. Len(s)
                BY <3>3, <1>1
            <4>2. QED
                BY <4>1, <3>1, <3>3 DEF Within
        <3>4. QED
            BY <3>2, <3>3
    <2>2. \A i, j \in 1 .. Len(s) - n : i < j => n + i < n + j
        BY <1>1
    <2>3. \A i, j \in 1 .. Len(s) - n : i < j => s[n + i] < s[n + j]
        BY <2>1, <2>2 DEF Within
    <2>4. QED
        BY <1>4, <2>1, <2>3 DEF Within
<1>8. QED
    BY <1>3, <1>4, <1>5, <1>6, <1>7

(* The bytes of a message have the places after those already sent.        *)
LEMMA MessageWithin ==
    ASSUME TypeOK, NEW message \in Message
    PROVE  /\ Within(message, sent, sent + Len(message))
           /\ Len(message) \in Nat /\ Len(message) > 0
           /\ sent + Len(message) \in 0 .. MaxBytes
<1>1. PICK len \in 1 .. Smaller(MaxLen, MaxBytes - sent) : message = [i \in 1 .. len |-> sent + i]
    BY DEF Message
<1>2. len \in Nat /\ len > 0 /\ sent \in Nat /\ sent + len <= MaxBytes /\ MaxBytes \in Nat
    BY ConstantsAssumption DEF TypeOK, Smaller
<1>3. message \in [1 .. len -> Byte]
    BY <1>1, <1>2 DEF Byte
<1>4. message \in Seq(Byte) /\ Len(message) = len
    BY <1>2, <1>3, SeqDef
<1>5. \A i \in 1 .. len : message[i] = sent + i
    BY <1>1
<1>6. QED
    BY <1>2, <1>4, <1>5 DEF Within

(* What write() does with bytes that come after those in the socket.       *)
LEMMA WriteWithin ==
    ASSUME TypeOK, NEW a \in Nat, NEW b \in Nat, NEW h \in Nat, a <= b, b <= h,
           Within(socket, a, b),
           NEW bytes, Within(bytes, b, h), Write(bytes)
    PROVE  \E m \in b .. h :
              /\ Within(socket', a, m)
              /\ Within(SubSeq(bytes, Smaller(Room, Len(bytes)) + 1, Len(bytes)), m, h)
              /\ Len(socket') <= SocketSize
              /\ nospace' \in BOOLEAN
<1> DEFINE n == Smaller(Room, Len(bytes))
<1>1. Len(socket) \in Nat /\ Len(bytes) \in Nat /\ Len(socket) <= SocketSize
    BY LenProperties DEF Within, TypeOK
<1>2. n \in 0 .. Len(bytes) /\ n <= SocketSize - Len(socket)
    BY <1>1, ConstantsAssumption DEF Smaller, Room
<1>3. PICK m \in b .. h : /\ Within(SubSeq(bytes, 1, n), b, m)
                          /\ Within(SubSeq(bytes, n + 1, Len(bytes)), m, h)
    BY <1>2, WithinSplit
<1>4. Len(SubSeq(bytes, 1, n)) = n
    BY <1>2, WithinSplit
<1>5. socket' = socket \o SubSeq(bytes, 1, n)
    BY DEF Write
<1>6. Within(socket', a, m) /\ Len(socket') = Len(socket) + n
    <2> DEFINE first == SubSeq(bytes, 1, n)
    <2>1. m \in Nat /\ b <= m /\ Within(first, b, m)
        BY <1>3
    <2> HIDE DEF first
    <2>2. /\ Within(socket \o first, a, m)
          /\ Len(socket \o first) = Len(socket) + Len(first)
        BY <2>1, WithinConcat
    <2>3. QED
        BY <1>4, <1>5, <2>2 DEF first
<1>7. nospace' \in BOOLEAN
    BY DEF Write, TypeOK
<1>8. QED
    BY <1>1, <1>2, <1>3, <1>6, <1>7, ConstantsAssumption

-----------------------------------------------------------------------------
LEMMA InitInvariant == Init => IInv
<1> SUFFICES ASSUME Init PROVE IInv
    OBVIOUS
<1>1. TypeOK
    <2>1. <<>> \in Seq(1 .. MaxBytes) /\ Len(<<>>) = 0
        BY EmptySeq
    <2>2. 0 \in 0 .. MaxBytes /\ 0 <= SocketSize
        BY ConstantsAssumption
    <2>3. QED
        BY <2>1, <2>2 DEF Init, TypeOK
<1>2. InOrder
    BY WithinEmpty DEF Init, InOrder
<1>3. QED
    BY <1>1, <1>2 DEF IInv

(* Steps that change no bytes.                                             *)
LEMMA SameBytes ==
    ASSUME IInv, UNCHANGED <<buffers, socket, wire>>
    PROVE  InOrder'
BY DEF IInv, InOrder, buffers

LEMMA ClientReceivesInvariant == IInv /\ ClientReceives => IInv'
<1> SUFFICES ASSUME IInv, ClientReceives PROVE IInv'
    OBVIOUS
<1> USE DEF IInv
<1>1. PICK n \in 1 .. Len(socket) : /\ wire' = wire \o SubSeq(socket, 1, n)
                                    /\ socket' = SubSeq(socket, n + 1, Len(socket))
    BY DEF ClientReceives
<1>2. PICK a, b, c \in 0 .. sent :
              /\ a <= b /\ b <= c
              /\ Within(wire, 0, a) /\ Within(socket, a, b)
              /\ Within(sendBuf, b, c) /\ Within(rest, c, sent)
    BY DEF InOrder
<1>3. Len(socket) \in Nat /\ n \in 0 .. Len(socket) /\ sent \in Nat
    BY LenProperties DEF TypeOK
<1>4. PICK m \in a .. b : Within(SubSeq(socket, 1, n), a, m) /\ Within(socket', m, b)
    BY <1>1, <1>2, <1>3, WithinSplit
<1>5. Len(socket') = Len(socket) - n
    BY <1>1, <1>2, <1>3, WithinSplit
<1>6. Within(wire', 0, m)
    BY <1>1, <1>2, <1>4, WithinConcat
<1>7. TypeOK'
    <2>1. UNCHANGED <<sent, sendBuf, rest, writing, pc, ready, input, broken>>
        BY DEF ClientReceives, buffers
    <2>2. edge' \in BOOLEAN /\ nospace' \in BOOLEAN
        BY DEF ClientReceives, TypeOK
    <2>3. wire' \in Seq(1 .. MaxBytes) /\ socket' \in Seq(1 .. MaxBytes)
        BY <1>4, <1>6 DEF Within, Byte
    <2>4. Len(socket') <= SocketSize
        BY <1>3, <1>5, ConstantsAssumption DEF TypeOK
    <2>5. QED
        BY <2>1, <2>2, <2>3, <2>4 DEF TypeOK
<1>8. InOrder'
    <2>1. UNCHANGED <<sent, sendBuf, rest>>
        BY DEF ClientReceives, buffers
    <2>2. m \in 0 .. sent /\ m <= b
        BY <1>2, <1>3
    <2>3. QED
        BY <1>2, <1>4, <1>6, <2>1, <2>2 DEF InOrder
<1>9. QED
    BY <1>7, <1>8

LEMMA SendInvariant ==
    ASSUME IInv, NEW message \in Message, Send(message)
    PROVE  IInv'
<1> USE DEF IInv
<1>1. PICK a, b, c \in 0 .. sent :
              /\ a <= b /\ b <= c
              /\ Within(wire, 0, a) /\ Within(socket, a, b)
              /\ Within(sendBuf, b, c) /\ Within(rest, c, sent)
    BY DEF InOrder
<1>2. /\ Within(message, sent, sent') /\ sent' \in 0 .. MaxBytes
      /\ Len(message) \in Nat /\ sent' = sent + Len(message) /\ Len(message) > 0
    BY MessageWithin DEF Send
<1>3. sent \in Nat /\ sent' \in Nat /\ sent <= sent' /\ a \in Nat /\ b \in Nat /\ c \in Nat
    BY <1>2 DEF TypeOK
<1>4. /\ rest = <<>> /\ pc = "read"
      /\ UNCHANGED <<sendBuf, wire, writing, ready, edge, input, broken>>
      /\ pc' = IF rest' = <<>> THEN "read" ELSE "append"
    BY DEF Send, TypeOK
<1>5. ASSUME NEW x \in 0 .. sent', NEW y \in 0 .. sent', NEW z \in 0 .. sent', x <= y, y <= z,
             Within(wire, 0, x), Within(socket', x, y), Within(sendBuf, y, z),
             Within(rest', z, sent'), Len(socket') <= SocketSize, nospace' \in BOOLEAN
      PROVE  IInv'
    <2>1. InOrder'
        BY <1>4, <1>5 DEF InOrder
    <2>2. TypeOK'
        BY <1>2, <1>4, <1>5 DEF TypeOK, Within, Byte
    <2>3. QED
        BY <2>1, <2>2
<1>6. CASE sendBuf # <<>> /\ rest' = message /\ UNCHANGED <<socket, nospace>>
    <2>1. Within(rest', c, sent')
        BY <1>1, <1>2, <1>3, <1>6, WithinMore
    <2>2. a \in 0 .. sent' /\ b \in 0 .. sent' /\ c \in 0 .. sent'
        BY <1>3
    <2>3. nospace' \in BOOLEAN /\ Len(socket') <= SocketSize
        BY <1>6 DEF TypeOK
    <2>4. Within(socket', a, b)
        BY <1>1, <1>6
    <2>5. QED
        BY <1>1, <1>5, <2>1, <2>2, <2>3, <2>4
<1>7. CASE /\ sendBuf = <<>> /\ Write(message)
           /\ rest' = SubSeq(message, Smaller(Room, Len(message)) + 1, Len(message))
    <2>1. Within(socket, a, sent)
        BY <1>1, <1>3, WithinMore
    <2>2. PICK m \in sent .. sent' : /\ Within(socket', a, m) /\ Within(rest', m, sent')
                                     /\ Len(socket') <= SocketSize /\ nospace' \in BOOLEAN
        BY <1>2, <1>3, <1>7, <2>1, WriteWithin
    <2>3. Within(sendBuf, m, m)
        BY <1>7, WithinEmpty
    <2>4. a \in 0 .. sent' /\ m \in 0 .. sent' /\ a <= m /\ m <= m
        BY <1>3
    <2>5. QED
        BY <1>1, <1>5, <2>2, <2>3, <2>4
<1>8. CASE sendBuf = <<>> /\ broken /\ UNCHANGED <<rest, socket, nospace>>
    <2>1. Within(rest', c, sent')
        BY <1>4, <1>8, WithinEmpty
    <2>2. a \in 0 .. sent' /\ b \in 0 .. sent' /\ c \in 0 .. sent'
        BY <1>3
    <2>3. nospace' \in BOOLEAN /\ Len(socket') <= SocketSize
        BY <1>8 DEF TypeOK
    <2>4. Within(socket', a, b)
        BY <1>1, <1>8
    <2>5. QED
        BY <1>1, <1>5, <2>1, <2>2, <2>3, <2>4
<1>9. QED
    BY <1>6, <1>7, <1>8 DEF Send

LEMMA SendRestInvariant == IInv /\ SendRest => IInv'
<1> SUFFICES ASSUME IInv, SendRest PROVE IInv'
    OBVIOUS
<1> USE DEF IInv
<1>1. PICK a, b, c \in 0 .. sent :
              /\ a <= b /\ b <= c
              /\ Within(wire, 0, a) /\ Within(socket, a, b)
              /\ Within(sendBuf, b, c) /\ Within(rest, c, sent)
    BY DEF InOrder
<1>2. sent \in Nat
    BY DEF TypeOK
<1>3. /\ UNCHANGED <<sent, ready, socket, input, wire, broken>>
      /\ sendBuf' = sendBuf \o rest /\ rest' = <<>> /\ pc' = "read"
    BY DEF SendRest
<1>4. Within(sendBuf', b, sent)
    BY <1>1, <1>2, <1>3, WithinConcat
<1>5. Within(rest', sent, sent)
    BY <1>3, WithinEmpty
<1>6. sent \in 0 .. sent /\ b <= sent
    BY <1>1, <1>2
<1>7. InOrder'
    BY <1>1, <1>3, <1>4, <1>5, <1>6 DEF InOrder
<1>8. writing' \in BOOLEAN /\ edge' \in BOOLEAN /\ nospace' \in BOOLEAN
    BY DEF SendRest, TypeOK
<1>9. TypeOK'
    BY <1>3, <1>4, <1>5, <1>8 DEF TypeOK, Within, Byte
<1>10. QED
    BY <1>7, <1>9

LEMMA HandleWriteInvariant == IInv /\ HandleWrite => IInv'
<1> SUFFICES ASSUME IInv, HandleWrite PROVE IInv'
    OBVIOUS
<1> USE DEF IInv
<1>1. PICK a, b, c \in 0 .. sent :
              /\ a <= b /\ b <= c
              /\ Within(wire, 0, a) /\ Within(socket, a, b)
              /\ Within(sendBuf, b, c) /\ Within(rest, c, sent)
    BY DEF InOrder
<1>2. a \in Nat /\ b \in Nat /\ c \in Nat /\ c \in 0 .. sent /\ c <= c
    BY <1>1
<1>3. /\ UNCHANGED <<sent, rest, wire, writing, edge, input, broken>>
      /\ pc = "write" /\ pc' = "poll" /\ ready' = {} /\ rest = <<>>
    BY DEF HandleWrite, TypeOK
<1>4. /\ \E m \in b .. c : Within(socket', a, m)
      /\ sendBuf' = sendBuf \/ sendBuf' = <<>>
      /\ Within(sendBuf', c, c) \/ UNCHANGED <<socket, sendBuf>>
      /\ Len(socket') <= SocketSize /\ nospace' \in BOOLEAN
    <2>1. CASE sendBuf' = <<>> /\ Write(sendBuf)
        <3>1. PICK m \in b .. c : /\ Within(socket', a, m)
                                  /\ Len(socket') <= SocketSize /\ nospace' \in BOOLEAN
            BY <1>1, <1>2, <2>1, WriteWithin
        <3>2. QED
            BY <2>1, <3>1, WithinEmpty
    <2>2. CASE sendBuf' = <<>> /\ UNCHANGED <<socket, nospace>>
        BY <1>1, <2>2, WithinEmpty DEF TypeOK
    <2>3. CASE UNCHANGED <<sendBuf, socket, nospace>>
        BY <1>1, <2>3 DEF TypeOK
    <2>4. QED
        BY <2>1, <2>2, <2>3 DEF HandleWrite, RetrieveAll
<1>5. PICK m \in b .. c : Within(socket', a, m)
    BY <1>4
<1>6. InOrder'
    <2>1. CASE UNCHANGED <<socket, sendBuf>>
        BY <1>1, <1>3, <2>1 DEF InOrder
    <2>2. CASE Within(sendBuf', c, c)
        <3>1. Within(socket', a, c) /\ a <= c
            BY <1>1, <1>2, <1>5, WithinMore
        <3>2. QED
            BY <1>1, <1>2, <1>3, <2>2, <3>1 DEF InOrder
    <2>3. QED
        BY <1>4, <2>1, <2>2
<1>7. TypeOK'
    <2>1. sendBuf' \in Seq(Byte)
        BY <1>1, <1>4, EmptySeq DEF Within
    <2>2. QED
        BY <2>1, <1>3, <1>4, <1>5 DEF TypeOK, Within, Byte
<1>8. QED
    BY <1>6, <1>7

LEMMA StepInvariant == IInv /\ [Next]_vars => IInv'
<1> SUFFICES ASSUME IInv, [Next]_vars PROVE IInv'
    OBVIOUS
<1>1. CASE InputArrives
    <2>1. TypeOK' BY <1>1 DEF IInv, TypeOK, InputArrives, buffers
    <2>2. QED BY <1>1, <2>1, SameBytes DEF IInv, InputArrives
<1>2. CASE ClientReceives
    BY <1>2, ClientReceivesInvariant
<1>3. CASE Breaks
    <2>1. TypeOK' BY <1>3 DEF IInv, TypeOK, Breaks, buffers
    <2>2. QED BY <1>3, <2>1, SameBytes DEF IInv, Breaks
<1>4. CASE Poll
    <2>1. ready' \subseteq {"in", "out"} /\ pc' \in {"poll", "read"} /\ nospace' \in BOOLEAN
        BY <1>4 DEF IInv, TypeOK, Poll
    <2>2. /\ pc = "poll" /\ edge' = FALSE /\ input' = FALSE
          /\ UNCHANGED <<sent, sendBuf, rest, writing, socket, wire, broken>>
        BY <1>4 DEF Poll, buffers
    <2>3. TypeOK' BY <2>1, <2>2 DEF IInv, TypeOK
    <2>4. QED BY <2>2, <2>3, SameBytes DEF IInv, buffers
<1>5. CASE SendRest
    BY <1>5, SendRestInvariant
<1>6. CASE ReadReturns
    <2>1. TypeOK' BY <1>6 DEF IInv, TypeOK, ReadReturns, buffers, kernel
    <2>2. QED BY <1>6, <2>1, SameBytes DEF IInv, ReadReturns, kernel
<1>7. CASE HandleWrite
    BY <1>7, HandleWriteInvariant
<1>8. ASSUME NEW message \in Message, Send(message) PROVE IInv'
    BY <1>8, SendInvariant
<1>9. CASE UNCHANGED vars
    <2>1. TypeOK' BY <1>9 DEF IInv, TypeOK, vars, buffers, kernel
    <2>2. QED BY <1>9, <2>1, SameBytes DEF IInv, vars, kernel
<1>10. QED
    BY <1>1, <1>2, <1>3, <1>4, <1>5, <1>6, <1>7, <1>8, <1>9 DEF Next, LoopStep

(* The state has its types: what Send has not yet appended is there only   *)
(* before it appends, and the socket never holds more than it has room for.*)
THEOREM OutputTypeCorrect == Spec => []TypeOK
<1>1. IInv => TypeOK
    BY DEF IInv
<1>2. QED
    BY <1>1, InitInvariant, StepInvariant, PTL DEF Spec

LEMMA StreamWithin == IInv => Within(Stream, 0, sent)
<1> SUFFICES ASSUME IInv PROVE Within(Stream, 0, sent)
    OBVIOUS
<1>1. PICK a, b, c \in 0 .. sent :
              /\ a <= b /\ b <= c
              /\ Within(wire, 0, a) /\ Within(socket, a, b)
              /\ Within(sendBuf, b, c) /\ Within(rest, c, sent)
    BY DEF IInv, InOrder
<1>2. sent \in Nat /\ a \in Nat /\ b \in Nat /\ c \in Nat /\ 0 <= a /\ 0 <= b /\ 0 <= c /\ c <= sent
    BY <1>1 DEF IInv, TypeOK
<1>3. Within(wire \o socket, 0, b)
    BY <1>1, <1>2, WithinConcat
<1>4. Within(wire \o socket \o sendBuf, 0, c)
    BY <1>1, <1>2, <1>3, WithinConcat
<1>5. QED
    BY <1>1, <1>2, <1>4, WithinConcat DEF Stream

(* The bytes reach the client in the order in which they were given to     *)
(* Send, and none twice, whatever the socket takes and whenever the client *)
(* reads or the connection fails.                                          *)
THEOREM OutputInOrder == Spec => []NeverReordered
<1>1. IInv => NeverReordered
    <2> SUFFICES ASSUME IInv PROVE NeverReordered
        OBVIOUS
    <2>1. Within(Stream, 0, sent)
        BY StreamWithin
    <2>2. DOMAIN Stream = 1 .. Len(Stream)
        BY <2>1, LenProperties DEF Within
    <2>3. QED
        BY <2>1, <2>2 DEF Within, NeverReordered
<1>2. QED
    BY <1>1, InitInvariant, StepInvariant, PTL DEF Spec
=============================================================================
