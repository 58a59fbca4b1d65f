--------------------------- MODULE TcpServerProofs ---------------------------
(***************************************************************************)
(* Proofs about TcpServer, for every number of clients, descriptors and    *)
(* sub loops, with and without the idle timer, and about its StartUp.      *)
(***************************************************************************)
EXTENDS StartUp, SequenceTheorems, TLAPS

(***************************************************************************)
(* Type correctness. The thread of a loop has a connection on its stack    *)
(* wherever its code uses one.                                             *)
(***************************************************************************)
CurOK == \A l \in Loop : pc[l] \notin {"poll", "handle", "timer", "run"} => cur[l] \in Conn

TypeInv == TypeOK /\ CurOK

LEMMA MainIsLoop == Main \in Loop
BY ConstantsAssumption DEF Main, Loop

LEMMA TypeInit == Init => TypeInv
<1> SUFFICES ASSUME Init
             PROVE  TypeInv
    OBVIOUS
<1>1. todo \in [Loop -> Seq(Tasks)] /\ functors \in [Loop -> Seq(Tasks)]
    BY EmptySeq DEF Init
<1>2. edge \in [Conn -> BOOLEAN] /\ data \in [Conn -> BOOLEAN] /\ urgent \in [Conn -> BOOLEAN]
    BY DEF Init
<1>3. QED
    BY <1>1, <1>2, MainIsLoop DEF Init, TypeInv, TypeOK, CurOK, Places

(* What queueing, running a functor, closing and choosing a loop give.     *)
LEMMA QueueType ==
    ASSUME TypeInv, NEW l \in Loop, NEW c \in Conn, NEW kind \in {"delete", "destroy"},
           Queue(l, <<kind, c>>)
    PROVE  todo' \in [Loop -> Seq(Tasks)]
<1>1. <<kind, c>> \in Tasks
    BY DEF Tasks
<1>2. Append(todo[l], <<kind, c>>) \in Seq(Tasks)
    BY <1>1, AppendProperties DEF TypeInv, TypeOK
<1>3. QED
    BY <1>2 DEF Queue, TypeInv, TypeOK

LEMMA DeleteType ==
    ASSUME TypeInv, NEW c \in Conn, DeleteConnectionInLoop(c)
    PROVE  todo' \in [Loop -> Seq(Tasks)]
<1>1. loopOf[c] \in Loop
    BY DEF TypeInv, TypeOK
<1>2. QED
    BY <1>1, QueueType DEF DeleteConnectionInLoop, TypeInv, TypeOK

LEMMA RunType ==
    ASSUME TypeInv, NEW l \in Loop, NEW kind, Run(l, kind)
    PROVE  /\ Head(functors[l]) \in Tasks
           /\ functors' \in [Loop -> Seq(Tasks)]
           /\ spent' \in [Loop -> SUBSET Conn]
<1>1. functors[l] \in Seq(Tasks) /\ functors[l] # <<>>
    BY DEF Run, TypeInv, TypeOK
<1>2. Head(functors[l]) \in Tasks /\ Tail(functors[l]) \in Seq(Tasks)
    BY <1>1, HeadTailProperties
<1>3. Head(functors[l])[2] \in Conn
    BY <1>2 DEF Tasks
<1>4. QED
    BY <1>2, <1>3 DEF Run, TypeInv, TypeOK

LEMMA CloseReturnsType ==
    ASSUME TypeInv, NEW l \in Loop, CloseReturns(l), cur[l] \in Conn
    PROVE  pc' \in [Loop -> Places] /\ cur' \in [Loop -> Conn \cup {None}] /\ CurOK'
<1>1. CASE ret[l] = "message"
    BY <1>1 DEF CloseReturns, Goto, TypeInv, TypeOK, CurOK, Places
<1>2. CASE ret[l] # "message"
    BY <1>2 DEF CloseReturns, Goto, TypeInv, TypeOK, CurOK, Places
<1>3. QED
    BY <1>1, <1>2

LEMMA ReturnType ==
    ASSUME TypeInv, NEW l \in Loop, NEW place \in {"handle", "timer"}, Return(l, place)
    PROVE  pc' \in [Loop -> Places] /\ cur' \in [Loop -> Conn \cup {None}] /\ CurOK'
BY DEF Return, Goto, TypeInv, TypeOK, CurOK, Places

LEMMA GotoType ==
    ASSUME TypeInv, NEW l \in Loop, NEW place \in Places, Goto(l, place),
           NEW c \in Conn, cur' = [cur EXCEPT ![l] = c]
    PROVE  pc' \in [Loop -> Places] /\ cur' \in [Loop -> Conn \cup {None}] /\ CurOK'
BY DEF Goto, TypeInv, TypeOK, CurOK, Places

LEMMA NextLoopType ==
    ASSUME TypeInv
    PROVE  /\ GetNextLoop \in Loop
           /\ NumSub > 0 => (next + 1) % NumSub \in 0 .. NumSub - 1
BY ConstantsAssumption DEF GetNextLoop, Loop, Main, TypeInv, TypeOK

LEMMA TypeStep == TypeInv /\ [Next]_vars => TypeInv'
<1> SUFFICES ASSUME TypeInv, [Next]_vars
             PROVE  TypeInv'
    OBVIOUS
<1> USE MainIsLoop
    DEF TypeInv, TypeOK, CurOK, Places, At, Goto, Return,
        server, kernel, thread, ready, queues, timing
<1>1. ASSUME NEW c \in Conn, PeerConnects(c)
      PROVE  TypeInv'
    BY <1>1 DEF PeerConnects
<1>2. ASSUME NEW c \in Conn, PeerSends(c)
      PROVE  TypeInv'
    BY <1>2 DEF PeerSends
<1>3. ASSUME NEW c \in Conn, PeerCloses(c)
      PROVE  TypeInv'
    BY <1>3 DEF PeerCloses
<1>4. ASSUME NEW l \in Loop, Poll(l)
      PROVE  TypeInv'
    BY ZenonT(60), <1>4 DEF Poll, Watched, ReadEvent
<1>5. ASSUME NEW l \in Loop, NEW c \in Conn, HandleEvent(l, c)
      PROVE  TypeInv'
    BY <1>5 DEF HandleEvent
<1>6. ASSUME NEW l \in Loop, Read(l)
      PROVE  TypeInv'
    BY <1>6 DEF Read
<1>7. ASSUME NEW l \in Loop, Message(l)
      PROVE  TypeInv'
    BY <1>7 DEF Message
<1>8. ASSUME NEW l \in Loop, Reply(l)
      PROVE  TypeInv'
    <2>1. edge' \in [Conn -> BOOLEAN]
        BY ZenonT(60), <1>8 DEF Reply, Modify
    <2>2. /\ pc' \in [Loop -> Places] /\ cur' \in [Loop -> Conn \cup {None}]
          /\ ret' \in [Loop -> {"handle", "message", "timer"}] /\ CurOK'
        <3>1. CASE Return(l, "handle")
            BY <1>8, <3>1, ReturnType DEF Return
        <3>2. CASE Goto(l, "close") /\ ret' = [ret EXCEPT ![l] = "handle"] /\ UNCHANGED cur
            BY <1>8, <3>2 DEF Reply
        <3>3. QED
            BY <1>8, <3>1, <3>2 DEF Reply
    <2>3. QED
        BY <1>8, <2>1, <2>2 DEF Reply
<1>9. ASSUME NEW l \in Loop, CloseTest(l)
      PROVE  TypeInv'
    <2>1. pc' \in [Loop -> Places] /\ cur' \in [Loop -> Conn \cup {None}] /\ CurOK'
        <3>1. CASE state[cur[l]] # "Closed"
            BY ZenonT(60), <1>9, <3>1 DEF CloseTest
        <3>2. CASE state[cur[l]] = "Closed"
            BY <1>9, <3>2, CloseReturnsType DEF CloseTest
        <3>3. QED
            BY <3>1, <3>2
    <2>2. QED
        BY <1>9, <2>1 DEF CloseTest
<1>10. ASSUME NEW l \in Loop, CloseSet(l)
      PROVE  TypeInv'
    BY <1>10 DEF CloseSet
<1>11. ASSUME NEW l \in Loop, CloseNotify(l)
      PROVE  TypeInv'
    <2>1. cur[l] \in Conn
        BY <1>11 DEF CloseNotify
    <2>2. connections' \in [Fd -> Conn \cup {None}] /\ halted' \in {"no", "assert", "input", "accept", "epoll"}
        BY ZenonT(60), <1>11 DEF CloseNotify, DeleteConnectionInLoop
    <2>3. todo' \in [Loop -> Seq(Tasks)]
        BY <1>11, <2>1, QueueType, DeleteType DEF CloseNotify
    <2>4. pc' \in [Loop -> Places] /\ cur' \in [Loop -> Conn \cup {None}] /\ CurOK'
        BY <1>11, CloseReturnsType DEF CloseNotify
    <2>5. QED
        BY <1>11, <2>2, <2>3, <2>4 DEF CloseNotify
<1>12. ASSUME NEW l \in Loop, Swap(l)
      PROVE  TypeInv'
    BY <1>12 DEF Swap
<1>13. ASSUME NEW l \in Loop, RunDestroy(l)
      PROVE  TypeInv'
    <2>1. /\ Head(functors[l]) \in Tasks
          /\ functors' \in [Loop -> Seq(Tasks)] /\ spent' \in [Loop -> SUBSET Conn]
        BY <1>13, RunType DEF RunDestroy
    <2>2. interest' \in [Conn -> {"none", "et", "in"}] /\ halted' \in {"no", "assert", "input", "accept", "epoll"}
        BY <1>13 DEF RunDestroy
    <2>3. QED
        BY <1>13, <2>1, <2>2 DEF RunDestroy
<1>14. ASSUME NEW l \in Loop, EndFunctors(l)
      PROVE  TypeInv'
    BY <1>14 DEF EndFunctors
<1>15. ASSUME NEW c \in Conn, NEW f \in Fd, Accept(c, f)
      PROVE  TypeInv'
    <2>1. GetNextLoop \in Loop /\ next' \in Nat /\ (NumSub > 0 => next' < NumSub)
        BY <1>15, NextLoopType, ConstantsAssumption DEF Accept
    <2>2. QED
        BY <1>15, <2>1 DEF Accept
<1>16. CASE AcceptFails
    BY <1>16 DEF AcceptFails
<1>17. CASE Establish
    BY <1>17 DEF Establish
<1>18. CASE EnableReading
    BY <1>18 DEF EnableReading, Modify
<1>19. CASE OnConnection
    BY ZenonT(60), <1>19 DEF OnConnection
<1>20. CASE HandleTimers
    BY <1>20 DEF HandleTimers
<1>21. ASSUME NEW c \in Conn, TimerFires(c)
      PROVE  TypeInv'
    <2>1. pc' \in [Loop -> Places] /\ cur' \in [Loop -> Conn \cup {None}] /\ CurOK'
        <3>1. CASE Held(c)
            BY <1>21, <3>1, GotoType DEF TimerFires
        <3>2. CASE ~Held(c)
            BY <1>21, <3>2 DEF TimerFires
        <3>3. QED
            BY <3>1, <3>2
    <2>2. QED
        BY <1>21, <2>1 DEF TimerFires
<1>22. CASE ActiveClose
    <2>1. /\ pc' \in [Loop -> Places] /\ cur' \in [Loop -> Conn \cup {None}]
          /\ ret' \in [Loop -> {"handle", "message", "timer"}] /\ CurOK' /\ timers' \in SUBSET Conn
        <3>1. cur[Main] \in Conn
            BY <1>22 DEF ActiveClose
        <3>2. CASE Return(Main, "timer") /\ timers' = timers \cup {cur[Main]}
            BY <3>1, <3>2, ReturnType DEF Return
        <3>3. CASE Goto(Main, "close") /\ ret' = [ret EXCEPT ![Main] = "timer"] /\ UNCHANGED <<cur, timers>>
            BY <1>22, <3>3 DEF ActiveClose
        <3>4. QED
            BY <1>22, <3>2, <3>3 DEF ActiveClose
    <2>2. QED
        BY <1>22, <2>1 DEF ActiveClose
<1>23. CASE TimersDone
    BY <1>23 DEF TimersDone
<1>24. CASE RunDelete
    <2>1. /\ Head(functors[Main]) \in Tasks
          /\ functors' \in [Loop -> Seq(Tasks)] /\ spent' \in [Loop -> SUBSET Conn]
        BY <1>24, RunType DEF RunDelete
    <2>2. Head(functors[Main])[2] \in Conn
        BY <2>1 DEF Tasks
    <2>3. todo' \in [Loop -> Seq(Tasks)]
        BY <1>24, <2>2, DeleteType DEF RunDelete
    <2>4. connections' \in [Fd -> Conn \cup {None}] /\ halted' \in {"no", "assert", "input", "accept", "epoll"}
        BY ZenonT(60), <1>24 DEF RunDelete, DeleteConnectionInLoop
    <2>5. QED
        BY <1>24, <2>1, <2>3, <2>4 DEF RunDelete
<1>25. CASE UNCHANGED vars
    BY <1>25 DEF vars
<1>26. ASSUME NEW c \in Conn, PeerSendsUrgent(c)
       PROVE  TypeInv'
    BY <1>26 DEF PeerSendsUrgent
<1>27. ASSUME NEW l \in Loop, MessageEmpty(l)
       PROVE  TypeInv'
    <2>1. pc' \in [Loop -> Places] /\ cur' \in [Loop -> Conn \cup {None}] /\ CurOK' /\ ret' = ret
        <3>1. CASE Return(l, "handle")
            BY <3>1, ReturnType DEF Return
        <3>2. CASE UNCHANGED thread
            BY <3>2
        <3>3. QED
            BY <1>27, <3>1, <3>2 DEF MessageEmpty
    <2>2. halted' \in {"no", "assert", "input", "accept", "epoll"}
        BY <1>27 DEF MessageEmpty
    <2>3. UNCHANGED <<server, state, kernel, ready, queues, timing>>
        BY <1>27 DEF MessageEmpty
    <2>4. QED
        BY <2>1, <2>2, <2>3
<1>28. QED
    BY <1>26, <1>27, <1>1, <1>2, <1>3, <1>4, <1>5, <1>6, <1>7, <1>8, <1>9, <1>10, <1>11, <1>12, <1>13, <1>14, <1>15, <1>16, <1>17, <1>18, <1>19, <1>20, <1>21, <1>22, <1>23, <1>24, <1>25
       DEF Next, Step, LoopStep, MainStep, PeerStep

(* The variables of the server always have their types.                    *)
THEOREM TypeCorrect == Spec => []TypeOK
<1>1. Spec => []TypeInv
    BY TypeInit, TypeStep, PTL DEF Spec
<1>2. TypeInv => TypeOK
    BY DEF TypeInv
<1>3. QED
    BY <1>1, <1>2, PTL

(***************************************************************************)
(* The invariant: who keeps a connection alive, and in which order it is   *)
(* registered, entered in the map, closed, erased and released.            *)
(***************************************************************************)
Tasked(l) == Elements(todo[l]) \cup Elements(functors[l])

(* A connection in use has a descriptor, and no other one has the same.    *)
HeldHasFd == \A c \in Conn : Held(c) => fdOf[c] \in Fd
DistinctFd == \A c, d \in Conn : Held(c) /\ Held(d) /\ fdOf[c] = fdOf[d] => c = d
EntryFd == \A f \in Fd : connections[f] # None => fdOf[connections[f]] = f

(* The kernel knows a connection's channel only from its construction to   *)
(* its release, and something holds it all along.                          *)
Mapped(c) == fdOf[c] \in Fd /\ connections[fdOf[c]] = c
Registered == \A c \in Conn : interest[c] # "none" =>
                 \/ pc[Main] = "establish" /\ cur[Main] = c
                 \/ Mapped(c)
                 \/ <<"destroy", c>> \in Tasked(loopOf[c])

(* A loop handles its own registered connections, and releases them in     *)
(* DoToDoList, when no event is left to handle.                            *)
EventsRegistered == \A l \in Loop : \A c \in chs[l] : interest[c] = "in" /\ loopOf[c] = l
DestroyAtHome == \A l \in Loop, c \in Conn : <<"destroy", c>> \in Tasked(l) => loopOf[c] = l
Phases == \A l \in Loop : /\ pc[l] # "run" => functors[l] = <<>>
                          /\ pc[l] \in {"poll", "run"} => chs[l] = {}

(* While the main thread sets up a connection nobody else has it, and it   *)
(* stays in the map until the main thread is done.                         *)
SettingUp == /\ pc[Main] = "establish" => /\ state[cur[Main]] = "Invalid"
                                          /\ interest[cur[Main]] = "et"
                                          /\ \A l \in Loop : l # Main => cur[l] # cur[Main]
             /\ pc[Main] = "enable" => Mapped(cur[Main])

(* Only a closed connection is erased and released, and only a constructed *)
(* one is closed.                                                          *)
ClosedFirst == /\ \A l \in Loop : pc[l] = "notify" => state[cur[l]] = "Closed"
               /\ \A l \in Loop : \A task \in Tasked(l) : state[task[2]] = "Closed"
               /\ \A c \in Conn : fdOf[c] = None => state[c] = "Invalid"

LifeInv == /\ HeldHasFd /\ DistinctFd /\ EntryFd /\ Registered /\ EventsRegistered
           /\ DestroyAtHome /\ Phases /\ SettingUp /\ ClosedFirst

(***************************************************************************)
(* The queues as sets of tasks.                                            *)
(***************************************************************************)
LEMMA ElementsOf ==
    ASSUME NEW S, NEW s \in Seq(S)
    PROVE  Elements(s) = {s[i] : i \in 1 .. Len(s)} /\ Elements(s) \subseteq S
BY LenProperties DEF Elements

LEMMA ElementsEmpty == Elements(<<>>) = {}
BY DEF Elements

LEMMA ElementsAppend ==
    ASSUME NEW S, NEW s \in Seq(S), NEW e \in S
    PROVE  Elements(Append(s, e)) = Elements(s) \cup {e}
<1>1. Append(s, e) \in Seq(S) /\ Len(Append(s, e)) = Len(s) + 1 /\ Len(s) \in Nat
    BY AppendProperties, LenProperties
<1>2. /\ \A i \in 1 .. Len(s) : Append(s, e)[i] = s[i]
      /\ Append(s, e)[Len(s) + 1] = e
    BY AppendProperties
<1>3. 1 .. Len(s) + 1 = (1 .. Len(s)) \cup {Len(s) + 1}
    BY <1>1
<1>4. /\ Elements(s) = {s[i] : i \in 1 .. Len(s)}
      /\ Elements(Append(s, e)) = {Append(s, e)[i] : i \in 1 .. Len(s) + 1}
    BY <1>1, ElementsOf
<1>5. QED
    BY <1>1, <1>2, <1>3, <1>4

LEMMA ElementsHeadTail ==
    ASSUME NEW S, NEW s \in Seq(S), s # <<>>
    PROVE  Elements(s) = {Head(s)} \cup Elements(Tail(s))
<1>1. /\ Tail(s) \in Seq(S) /\ Len(Tail(s)) = Len(s) - 1
      /\ \A i \in 1 .. Len(Tail(s)) : Tail(s)[i] = s[i + 1]
      /\ Len(s) \in Nat /\ Len(s) > 0 /\ Head(s) = s[1]
    BY HeadTailProperties, EmptySeq, LenProperties
<1>elems. /\ Elements(s) = {s[i] : i \in 1 .. Len(s)}
      /\ Elements(Tail(s)) = {Tail(s)[i] : i \in 1 .. Len(Tail(s))}
    BY <1>1, ElementsOf
<1>2. ASSUME NEW i \in 1 .. Len(s)
      PROVE  s[i] \in {Head(s)} \cup Elements(Tail(s))
    <2>1. CASE i = 1
        BY <1>1, <2>1
    <2>2. CASE i # 1
        <3>1. i - 1 \in 1 .. Len(Tail(s)) /\ s[i] = Tail(s)[i - 1]
            BY <1>1, <2>2
        <3>2. QED
            BY <1>elems, <3>1
    <2>3. QED
        BY <2>1, <2>2
<1>3. ASSUME NEW i \in 1 .. Len(Tail(s))
      PROVE  Tail(s)[i] \in Elements(s)
    <2>1. i + 1 \in 1 .. Len(s) /\ Tail(s)[i] = s[i + 1]
        BY <1>1
    <2>2. QED
        BY <1>elems, <2>1
<1>4. Head(s) \in Elements(s)
    BY <1>elems, <1>1
<1>5. QED
    BY <1>elems, <1>2, <1>3, <1>4

LEMMA QueueTasks ==
    ASSUME TypeInv, NEW l \in Loop, NEW task \in Tasks, Queue(l, task), NEW k \in Loop
    PROVE  Elements(todo'[k]) = Elements(todo[k]) \cup (IF k = l THEN {task} ELSE {})
<1>1. CASE k = l
    BY <1>1, ElementsAppend DEF Queue, TypeInv, TypeOK
<1>2. CASE k # l
    BY <1>2 DEF Queue, TypeInv, TypeOK
<1>3. QED
    BY <1>1, <1>2

LEMMA DeleteTasks ==
    ASSUME TypeInv, NEW c \in Conn, DeleteConnectionInLoop(c), NEW k \in Loop
    PROVE  \/ UNCHANGED <<connections, todo>>
           \/ /\ connections' = [connections EXCEPT ![fdOf[c]] = None]
              /\ Elements(todo'[k]) = Elements(todo[k])
                                      \cup (IF k = loopOf[c] THEN {<<"destroy", c>>} ELSE {})
<1>1. <<"destroy", c>> \in Tasks /\ loopOf[c] \in Loop
    BY DEF Tasks, TypeInv, TypeOK
<1>2. QED
    BY <1>1, QueueTasks DEF DeleteConnectionInLoop

LEMMA DeleteAddsDestroy ==
    ASSUME TypeInv, NEW c \in Conn, DeleteConnectionInLoop(c), NEW k \in Loop
    PROVE  \A task \in Elements(todo'[k]) :
               task \in Elements(todo[k]) \/ (task = <<"destroy", c>> /\ task[2] = c)
<1>1. <<"destroy", c>>[2] = c
    OBVIOUS
<1>2. CASE UNCHANGED <<connections, todo>>
    BY <1>2
<1>3. CASE Elements(todo'[k]) = Elements(todo[k])
                                \cup (IF k = loopOf[c] THEN {<<"destroy", c>>} ELSE {})
    BY <1>1, <1>3
<1>4. QED
    BY <1>2, <1>3, DeleteTasks

LEMMA RunTasks ==
    ASSUME TypeInv, NEW l \in Loop, NEW kind, Run(l, kind), NEW k \in Loop
    PROVE  /\ Head(functors[l])[2] \in Conn
           /\ Elements(functors[k]) = Elements(functors'[k])
                  \cup (IF k = l THEN {<<kind, Head(functors[l])[2]>>} ELSE {})
<1>1. functors[l] \in Seq(Tasks) /\ functors[l] # <<>>
    BY DEF Run, TypeInv, TypeOK
<1>2. Head(functors[l]) \in Tasks /\ Head(functors[l])[1] = kind
    BY <1>1, HeadTailProperties DEF Run
<1>3. Head(functors[l]) = <<kind, Head(functors[l])[2]>> /\ Head(functors[l])[2] \in Conn
    BY <1>2 DEF Tasks
<1>4. CASE k = l
    <2>1. functors'[k] = Tail(functors[l])
        BY <1>4 DEF Run, TypeInv, TypeOK
    <2>2. Elements(functors[l]) = {Head(functors[l])} \cup Elements(Tail(functors[l]))
        BY <1>1, ElementsHeadTail
    <2>3. QED
        BY <1>3, <1>4, <2>1, <2>2
<1>5. CASE k # l
    BY <1>3, <1>5 DEF Run, TypeInv, TypeOK
<1>6. QED
    BY <1>4, <1>5

LEMMA SwapTasks ==
    ASSUME TypeInv, NEW l \in Loop, Swap(l), functors[l] = <<>>, NEW k \in Loop
    PROVE  Tasked(k)' = Tasked(k)
<1>1. CASE k = l
    <2>1. todo'[k] = <<>> /\ functors'[k] = todo[k]
        BY <1>1 DEF Swap, TypeInv, TypeOK
    <2>2. QED
        BY <1>1, <2>1, ElementsEmpty DEF Tasked
<1>2. CASE k # l
    BY <1>2 DEF Swap, Tasked, TypeInv, TypeOK
<1>3. QED
    BY <1>1, <1>2

(***************************************************************************)
(* Nothing revives a connection: a step other than Accept takes every      *)
(* shared_ptr it stores from one that exists.                              *)
(***************************************************************************)
LEMMA HolderIsHeld ==
    ASSUME TypeInv, NEW c \in Conn
    PROVE  /\ \A f \in Fd : connections[f] = c => Held(c)
           /\ \A l \in Loop : cur[l] = c \/ c \in spent[l] => Held(c)
           /\ \A l \in Loop : \A task \in Tasked(l) : task[2] = c => Held(c)
BY DEF Held, Tasked

NoneRevived == \A c \in Conn : Held(c)' => Held(c)

LEMMA HeldFrame ==
    ASSUME TypeInv,
           \A f \in Fd : connections'[f] \in Conn => Held(connections'[f]),
           \A l \in Loop : cur'[l] \in Conn => Held(cur'[l]),
           \A l \in Loop : \A c \in spent'[l] : Held(c),
           \A l \in Loop : \A task \in Tasked(l)' : Held(task[2])
    PROVE  NoneRevived
BY DEF Held, Tasked, NoneRevived

(* The steps that leave the map and the queues alone, and at most drop the *)
(* shared_ptr on the stack.                                                *)
LEMMA HeldSame ==
    ASSUME TypeInv, UNCHANGED <<connections, queues>>,
           \A l \in Loop : cur'[l] \in {cur[l], None}
    PROVE  NoneRevived
BY ConstantsAssumption DEF Held, NoneRevived, queues

LEMMA HeldNewCur ==
    ASSUME TypeInv, UNCHANGED <<connections, queues>>,
           \A l \in Loop : cur'[l] \in Conn => Held(cur'[l])
    PROVE  NoneRevived
BY DEF Held, NoneRevived, queues

(* A step that copies a held connection d, and otherwise drops or keeps.   *)
LEMMA HeldByOld ==
    ASSUME TypeInv, NEW d, d \in Conn => Held(d),
           \A f \in Fd : connections'[f] \in {connections[f], None, d},
           \A l \in Loop : cur'[l] \in {cur[l], None},
           \A l \in Loop : spent'[l] \subseteq spent[l] \cup {d},
           \A l \in Loop : \A task \in Tasked(l)' : task \in Tasked(l) \/ task[2] = d
    PROVE  NoneRevived
BY ConstantsAssumption DEF Held, Tasked, NoneRevived

LEMMA HeldByDrop ==
    ASSUME TypeInv, UNCHANGED <<connections, cur>>,
           \A l \in Loop : spent'[l] \subseteq spent[l],
           \A l \in Loop : Tasked(l)' = Tasked(l)
    PROVE  NoneRevived
BY DEF Held, Tasked, NoneRevived

(* DoToDoList running a functor, which may queue another for the same      *)
(* connection: the shared_ptr stays in the list until the end.             *)
LEMMA HeldByRun ==
    ASSUME TypeInv, NEW l \in Loop, NEW kind, Run(l, kind), UNCHANGED cur,
           \A f \in Fd : connections'[f] \in {connections[f], None},
           \A k \in Loop : \A task \in Elements(todo'[k]) :
               task \in Elements(todo[k]) \/ task[2] = Head(functors[l])[2]
    PROVE  NoneRevived
<1> DEFINE d == Head(functors[l])[2]
<1>1. d \in Conn /\ <<kind, d>> \in Tasked(l)
    BY RunTasks DEF Tasked
<1>2. Held(d)
    BY <1>1, HolderIsHeld
<1>3. \A k \in Loop : spent'[k] \subseteq spent[k] \cup {d}
    BY DEF Run, TypeInv, TypeOK
<1>4. \A k \in Loop : Elements(functors'[k]) \subseteq Elements(functors[k])
    BY RunTasks
<1>5. \A k \in Loop : \A task \in Tasked(k)' : task \in Tasked(k) \/ task[2] = d
    BY <1>4 DEF Tasked
<1> HIDE DEF d
<1>6. QED
    BY <1>2, <1>3, <1>5, HeldByOld

(* A connection with an event to handle is alive.                          *)
LEMMA RegisteredHeld ==
    ASSUME TypeInv, LifeInv, NEW c \in Conn, interest[c] # "none"
    PROVE  Held(c)
<1>1. CASE Mapped(c)
    BY <1>1, HolderIsHeld DEF Mapped
<1>2. CASE pc[Main] = "establish" /\ cur[Main] = c
    BY <1>2, HolderIsHeld, MainIsLoop
<1>3. CASE <<"destroy", c>> \in Tasked(loopOf[c])
    <2>1. loopOf[c] \in Loop
        BY DEF TypeInv, TypeOK
    <2>2. QED
        BY <1>3, <2>1, HolderIsHeld
<1>4. QED
    BY <1>1, <1>2, <1>3 DEF LifeInv, Registered

LEMMA EventHeld ==
    ASSUME TypeInv, LifeInv, NEW l \in Loop, NEW c \in chs[l]
    PROVE  c \in Conn /\ Held(c)
<1>1. c \in Conn /\ interest[c] = "in"
    BY DEF TypeInv, TypeOK, LifeInv, EventsRegistered
<1>2. QED
    BY <1>1, RegisteredHeld

LEMMA HeldStep ==
    ASSUME TypeInv, LifeInv, [Next]_vars
    PROVE  NoneRevived \/ \E c \in Conn, f \in Fd : Accept(c, f)
<1> USE MainIsLoop DEF TypeInv, TypeOK
<1>1. ASSUME NEW c \in Conn, PeerConnects(c)
      PROVE  NoneRevived
    BY <1>1, HeldSame DEF PeerConnects, server, thread
<1>2. ASSUME NEW c \in Conn, PeerSends(c)
      PROVE  NoneRevived
    BY <1>2, HeldSame DEF PeerSends, server, thread
<1>2a. ASSUME NEW c \in Conn, PeerSendsUrgent(c)
      PROVE  NoneRevived
    BY <1>2a, HeldSame DEF PeerSendsUrgent, server, thread
<1>3. ASSUME NEW c \in Conn, PeerCloses(c)
      PROVE  NoneRevived
    BY <1>3, HeldSame DEF PeerCloses, server, thread
<1>4. ASSUME NEW l \in Loop, Poll(l)
      PROVE  NoneRevived
    BY <1>4, HeldSame DEF Poll, server
<1>5. ASSUME NEW l \in Loop, Read(l)
      PROVE  NoneRevived
    BY <1>5, HeldSame DEF Read, server
<1>6. ASSUME NEW l \in Loop, Message(l)
      PROVE  NoneRevived
    BY <1>6, HeldSame DEF Message, Return, server
<1>6a. ASSUME NEW l \in Loop, MessageEmpty(l)
      PROVE  NoneRevived
    BY <1>6a, HeldSame DEF MessageEmpty, Return, server, thread
<1>7. ASSUME NEW l \in Loop, Reply(l)
      PROVE  NoneRevived
    BY <1>7, HeldSame DEF Reply, Return, server
<1>8. ASSUME NEW l \in Loop, CloseTest(l)
      PROVE  NoneRevived
    BY <1>8, HeldSame DEF CloseTest, CloseReturns, server
<1>9. ASSUME NEW l \in Loop, CloseSet(l)
      PROVE  NoneRevived
    BY <1>9, HeldSame DEF CloseSet, server
<1>10. CASE AcceptFails
    BY <1>10, HeldSame DEF AcceptFails, server, thread
<1>11. CASE EnableReading
    BY <1>11, HeldSame DEF EnableReading, server
<1>12. CASE OnConnection
    BY <1>12, HeldSame DEF OnConnection, Return, server
<1>13. CASE HandleTimers
    BY <1>13, HeldSame DEF HandleTimers, server
<1>14. CASE ActiveClose
    BY <1>14, HeldSame DEF ActiveClose, Return, server
<1>15. CASE TimersDone
    BY <1>15, HeldSame DEF TimersDone, server
<1>16. ASSUME NEW l \in Loop, NEW c \in Conn, HandleEvent(l, c)
      PROVE  NoneRevived
    <2>1. Held(c)
        BY <1>16, EventHeld DEF HandleEvent
    <2>2. /\ \A k \in Loop : cur'[k] \in Conn => Held(cur'[k])
          /\ UNCHANGED <<connections, queues>>
        BY <1>16, <2>1, HolderIsHeld DEF HandleEvent, server
    <2>3. QED
        BY <2>2, HeldNewCur
<1>17. ASSUME NEW c \in Conn, TimerFires(c)
      PROVE  NoneRevived
    <2>1. /\ \A k \in Loop : cur'[k] \in Conn => Held(cur'[k])
          /\ UNCHANGED <<connections, queues>>
        BY <1>17, HolderIsHeld DEF TimerFires, server
    <2>2. QED
        BY <2>1, HeldNewCur
<1>18. ASSUME NEW l \in Loop, CloseNotify(l)
      PROVE  NoneRevived
    <2>1. cur[l] \in Conn /\ Held(cur[l])
        BY <1>18, HolderIsHeld DEF CloseNotify, At, CurOK
    <2>2. \A f \in Fd : connections'[f] \in {connections[f], None}
        BY <1>18 DEF CloseNotify, DeleteConnectionInLoop
    <2>3. \A k \in Loop : cur'[k] \in {cur[k], None}
        BY <1>18 DEF CloseNotify, CloseReturns
    <2>4. \A k \in Loop : \A task \in Tasked(k)' : task \in Tasked(k) \/ task[2] = cur[l]
        <3>1. CASE l = Main
            BY <1>18, <2>1, <3>1, DeleteAddsDestroy DEF CloseNotify, Tasked
        <3>2. CASE l # Main
            <4>1. <<"delete", cur[l]>> \in Tasks
                BY <2>1 DEF Tasks
            <4>2. QED
                BY <1>18, <3>2, <4>1, QueueTasks DEF CloseNotify, Tasked
        <3>3. QED
            BY <3>1, <3>2
    <2>5. QED
        BY <1>18, <2>1, <2>2, <2>3, <2>4, HeldByOld DEF CloseNotify
<1>19. ASSUME NEW l \in Loop, Swap(l)
      PROVE  NoneRevived
    <2>1. functors[l] = <<>>
        BY <1>19 DEF Swap, At, LifeInv, Phases
    <2>2. \A k \in Loop : Tasked(k)' = Tasked(k)
        BY <1>19, <2>1, SwapTasks
    <2>3. QED
        BY <1>19, <2>2, HeldByDrop DEF Swap, server
<1>20. ASSUME NEW l \in Loop, EndFunctors(l)
      PROVE  NoneRevived
    BY <1>20, HeldByDrop DEF EndFunctors, server, Tasked
<1>21. ASSUME NEW l \in Loop, RunDestroy(l)
      PROVE  NoneRevived
    BY <1>21, HeldByRun DEF RunDestroy, server, thread
<1>22. CASE RunDelete
    <2>1. Run(Main, "delete") /\ UNCHANGED cur
        BY <1>22 DEF RunDelete, thread
    <2>2. Head(functors[Main])[2] \in Conn
        BY <2>1, RunTasks
    <2>3. \A f \in Fd : connections'[f] \in {connections[f], None}
        BY <1>22 DEF RunDelete, DeleteConnectionInLoop
    <2>4. \A k \in Loop : \A task \in Elements(todo'[k]) :
              task \in Elements(todo[k]) \/ task[2] = Head(functors[Main])[2]
        BY <1>22, <2>2, DeleteAddsDestroy DEF RunDelete
    <2>5. QED
        BY <2>1, <2>3, <2>4, HeldByRun
<1>23. CASE Establish
    <2>1. Held(cur[Main])
        BY <1>23, HolderIsHeld DEF Establish, At, CurOK
    <2>2. \A f \in Fd : connections'[f] \in {connections[f], cur[Main]}
        BY <1>23 DEF Establish
    <2>3. QED
        BY <1>23, <2>1, <2>2, HeldByOld DEF Establish, queues, Tasked
<1>24. CASE UNCHANGED vars
    BY <1>24, HeldSame DEF vars, server, thread
<1>25. QED
    BY <1>1, <1>2, <1>2a, <1>3, <1>6a, <1>4, <1>5, <1>6, <1>7, <1>8, <1>9, <1>10, <1>11, <1>12, <1>13,
       <1>14, <1>15, <1>16, <1>17, <1>18, <1>19, <1>20, <1>21, <1>22, <1>23, <1>24
       DEF Next, Step, LoopStep, MainStep, PeerStep

(***************************************************************************)
(* The invariant is inductive.                                             *)
(***************************************************************************)

(* The constructor fixes a connection's descriptor and loop.               *)
LEMMA FixedStep ==
    ASSUME [Next]_vars
    PROVE  UNCHANGED <<fdOf, loopOf>> \/ \E c \in Conn, f \in Fd : Accept(c, f)
BY ZenonT(60) DEF Next, Step, LoopStep, MainStep, PeerStep, vars, server,
       PeerConnects, PeerSends, PeerSendsUrgent, PeerCloses, Poll, HandleEvent, Read, Message, MessageEmpty, Reply,
       CloseTest, CloseSet, CloseNotify, Swap, RunDestroy, EndFunctors, AcceptFails,
       Establish, EnableReading, OnConnection, HandleTimers, TimerFires, ActiveClose,
       TimersDone, RunDelete

LEMMA AcceptHolds ==
    ASSUME TypeInv, NEW c \in Conn, NEW f \in Fd, Accept(c, f), NEW d \in Conn, Held(d)'
    PROVE  Held(d) \/ d = c
BY MainIsLoop DEF Accept, Held, queues, TypeInv, TypeOK

LEMMA FdStep ==
    ASSUME TypeInv, LifeInv, [Next]_vars
    PROVE  HeldHasFd' /\ DistinctFd'
<1> USE DEF LifeInv, HeldHasFd, DistinctFd
<1>1. CASE NoneRevived /\ UNCHANGED fdOf
    BY <1>1 DEF NoneRevived
<1>2. ASSUME NEW c \in Conn, NEW f \in Fd, Accept(c, f)
      PROVE  HeldHasFd' /\ DistinctFd'
    <2>1. fdOf' = [fdOf EXCEPT ![c] = f] /\ f \in FreeFd
        BY <1>2 DEF Accept
    <2>2. \A d \in Conn : fdOf[d] = f => ~Held(d)
        BY <2>1 DEF FreeFd
    <2>3. QED
        BY <1>2, <2>1, <2>2, AcceptHolds DEF TypeInv, TypeOK
<1>3. QED
    BY <1>1, <1>2, HeldStep, FixedStep

LifeRest == EntryFd /\ Registered /\ EventsRegistered /\ DestroyAtHome /\ Phases
            /\ SettingUp /\ ClosedFirst

(* The steps that touch neither the map, the queues, the state nor the     *)
(* registration of a connection, and start no phase of its life.           *)
Quiet ==
    /\ UNCHANGED <<connections, fdOf, loopOf, state, interest, todo, functors>>
    /\ \A l \in Loop : \A c \in chs'[l] : c \in chs[l] \/ (interest[c] = "in" /\ loopOf[c] = l)
    /\ \A l \in Loop : pc'[l] \in {"poll", "run"} => chs'[l] = {}
    /\ \A l \in Loop : pc[l] = "run" /\ pc'[l] # "run" => functors[l] = <<>>
    /\ \A l \in Loop : pc'[l] = "notify" => pc[l] = "notify" /\ cur'[l] = cur[l]
    /\ \A place \in {"establish", "enable"} :
          pc[Main] = place \/ pc'[Main] = place => pc'[Main] = pc[Main] /\ cur'[Main] = cur[Main]
    /\ \A l \in Loop : l # Main => cur'[l] = cur[l] \/ cur'[l] = None
                                  \/ (cur'[l] \in Conn /\ interest[cur'[l]] = "in")

LEMMA QuietStep ==
    ASSUME TypeInv, LifeInv, Quiet
    PROVE  LifeRest'
<1> USE DEF LifeInv, LifeRest, Quiet
<1>1. EntryFd'
    BY DEF EntryFd
<1>2. Registered'
    BY DEF Registered, Mapped, Tasked
<1>3. EventsRegistered'
    BY DEF EventsRegistered
<1>4. DestroyAtHome'
    BY DEF DestroyAtHome, Tasked
<1>5. Phases'
    BY DEF Phases
<1>6. SettingUp'
    <2>1. CASE pc'[Main] = "establish"
        <3>1. pc[Main] = "establish" /\ cur'[Main] = cur[Main]
            BY <2>1
        <3>2. cur[Main] \in Conn
            BY <3>1, MainIsLoop DEF TypeInv, CurOK
        <3>3. \A l \in Loop : l # Main => cur'[l] # cur'[Main]
            BY <3>1, <3>2, ConstantsAssumption DEF SettingUp
        <3>4. QED
            BY <2>1, <3>1, <3>3 DEF SettingUp
    <2>2. CASE pc'[Main] = "enable"
        BY <2>2 DEF SettingUp, Mapped
    <2>3. CASE pc'[Main] \notin {"establish", "enable"}
        BY <2>3 DEF SettingUp
    <2>4. QED
        BY <2>1, <2>2, <2>3
<1>7. ClosedFirst'
    BY DEF ClosedFirst, Tasked
<1>8. QED
    BY <1>1, <1>2, <1>3, <1>4, <1>5, <1>6, <1>7

(* The steps by which a closed connection leaves: its entry goes only when *)
(* its release is queued, and its registration only with its release.      *)
Leaving ==
    /\ UNCHANGED <<fdOf, loopOf, state, chs>>
    /\ \A f \in Fd : connections'[f] = connections[f] \/ connections'[f] = None
    /\ \A d \in Conn : interest'[d] = interest[d]
                      \/ (interest'[d] = "none" /\ state[d] = "Closed" /\ chs[loopOf[d]] = {})
    /\ \A d \in Conn : (Mapped(d) => Mapped(d)') \/ interest'[d] = "none"
                      \/ <<"destroy", d>> \in Tasked(loopOf[d])'
    /\ \A d \in Conn : <<"destroy", d>> \in Tasked(loopOf[d]) =>
                          <<"destroy", d>> \in Tasked(loopOf[d])' \/ interest'[d] = "none"
    /\ \A l \in Loop : \A task \in Tasked(l)' :
           \/ task \in Tasked(l)
           \/ (state[task[2]] = "Closed" /\ (task[1] = "destroy" => loopOf[task[2]] = l))
    /\ \A l \in Loop : pc'[l] # "run" => functors'[l] = <<>>
    /\ \A l \in Loop : pc'[l] \in {"poll", "run"} => chs[l] = {}
    /\ \A l \in Loop : pc'[l] = "notify" => pc[l] = "notify" /\ cur'[l] = cur[l]
    /\ \A place \in {"establish", "enable"} :
          pc[Main] = place \/ pc'[Main] = place
              => pc'[Main] = pc[Main] /\ cur'[Main] = cur[Main] /\ UNCHANGED connections
    /\ \A l \in Loop : l # Main => cur'[l] = cur[l] \/ cur'[l] = None

LEMMA LeavingStep ==
    ASSUME TypeInv, LifeInv, Leaving
    PROVE  LifeRest'
<1> USE DEF LifeInv, LifeRest, Leaving
<1>1. EntryFd'
    BY DEF EntryFd
<1>2. Registered'
    BY DEF Registered
<1>3. EventsRegistered'
    BY DEF EventsRegistered, TypeInv, TypeOK
<1>4. DestroyAtHome'
    BY DEF DestroyAtHome
<1>5. Phases'
    BY DEF Phases
<1>6. SettingUp'
    <2>1. CASE pc'[Main] = "establish"
        <3>1. pc[Main] = "establish" /\ cur'[Main] = cur[Main]
            BY <2>1
        <3>2. cur[Main] \in Conn
            BY <3>1, MainIsLoop DEF TypeInv, CurOK
        <3>3. state[cur[Main]] = "Invalid" /\ interest[cur[Main]] = "et"
            BY <3>1 DEF SettingUp
        <3>4. interest'[cur[Main]] = "et"
            BY <3>2, <3>3
        <3>5. \A l \in Loop : l # Main => cur'[l] # cur'[Main]
            BY <3>1, <3>2, ConstantsAssumption DEF SettingUp
        <3>6. QED
            BY <2>1, <3>1, <3>3, <3>4, <3>5 DEF SettingUp
    <2>2. CASE pc'[Main] = "enable"
        BY <2>2 DEF SettingUp, Mapped
    <2>3. CASE pc'[Main] \notin {"establish", "enable"}
        BY <2>3 DEF SettingUp
    <2>4. QED
        BY <2>1, <2>2, <2>3
<1>7. ClosedFirst'
    BY DEF ClosedFirst
<1>8. QED
    BY <1>1, <1>2, <1>3, <1>4, <1>5, <1>6, <1>7

LEMMA DeleteLeaves ==
    ASSUME TypeInv, LifeInv, NEW c \in Conn, Held(c), DeleteConnectionInLoop(c), UNCHANGED fdOf
    PROVE  /\ \A f \in Fd : connections'[f] = connections[f] \/ connections'[f] = None
           /\ \A d \in Conn : (Mapped(d) => Mapped(d)') \/ <<"destroy", d>> \in Elements(todo'[loopOf[d]])
           /\ \A k \in Loop : Elements(todo[k]) \subseteq Elements(todo'[k])
           /\ \A k \in Loop : \A task \in Elements(todo'[k]) :
                  task \in Elements(todo[k]) \/ (task = <<"destroy", c>> /\ k = loopOf[c])
<1> DEFINE grown(k) == Elements(todo'[k]) = Elements(todo[k])
                                 \cup (IF k = loopOf[c] THEN {<<"destroy", c>>} ELSE {})
<1>1. CASE UNCHANGED <<connections, todo>>
    BY <1>1 DEF Mapped
<1>2. CASE connections' = [connections EXCEPT ![fdOf[c]] = None] /\ \A k \in Loop : grown(k)
    <2>1. \A f \in Fd : connections'[f] = connections[f] \/ connections'[f] = None
        BY <1>2 DEF TypeInv, TypeOK
    <2>2. ASSUME NEW d \in Conn, Mapped(d), ~Mapped(d)'
          PROVE  <<"destroy", d>> \in Elements(todo'[loopOf[d]])
        <3>1. fdOf[d] = fdOf[c]
            BY <1>2, <2>2 DEF Mapped, TypeInv, TypeOK
        <3>2. Held(d)
            BY <2>2, HolderIsHeld DEF Mapped
        <3>3. d = c
            BY <3>1, <3>2 DEF LifeInv, DistinctFd
        <3>4. loopOf[d] \in Loop
            BY DEF TypeInv, TypeOK
        <3>5. QED
            BY <1>2, <3>3, <3>4
    <2>3. QED
        BY <1>2, <2>1, <2>2
<1>3. QED
    <2>1. UNCHANGED <<connections, todo>> \/ connections' = [connections EXCEPT ![fdOf[c]] = None]
        BY DEF DeleteConnectionInLoop
    <2>2. CASE UNCHANGED <<connections, todo>>
        BY <1>1, <2>2
    <2>3. CASE ~ UNCHANGED <<connections, todo>>
        <3>1. \A k \in Loop : grown(k)
            BY <2>3, DeleteTasks
        <3>2. QED
            BY <1>2, <2>1, <2>3, <3>1
    <2>4. QED
        BY <2>2, <2>3

LEMMA LifeStep == TypeInv /\ LifeInv /\ [Next]_vars => LifeInv'
<1> SUFFICES ASSUME TypeInv, LifeInv, [Next]_vars
             PROVE  LifeRest'
    BY FdStep DEF LifeInv, LifeRest
<1> USE MainIsLoop
<1>1. ASSUME NEW c \in Conn, PeerConnects(c)
      PROVE  Quiet
    BY <1>1 DEF PeerConnects, Quiet, At, Goto, server, kernel, thread, ready, queues,
        TypeInv, TypeOK, LifeInv, Phases, EventsRegistered
<1>2. ASSUME NEW c \in Conn, PeerSends(c)
      PROVE  Quiet
    BY <1>2 DEF PeerSends, Quiet, At, Goto, server, kernel, thread, ready, queues,
        TypeInv, TypeOK, LifeInv, Phases, EventsRegistered
<1>2a. ASSUME NEW c \in Conn, PeerSendsUrgent(c)
      PROVE  Quiet
    BY <1>2a DEF PeerSendsUrgent, Quiet, At, Goto, server, kernel, thread, ready, queues,
        TypeInv, TypeOK, LifeInv, Phases, EventsRegistered
<1>3. ASSUME NEW c \in Conn, PeerCloses(c)
      PROVE  Quiet
    BY <1>3 DEF PeerCloses, Quiet, At, Goto, server, kernel, thread, ready, queues,
        TypeInv, TypeOK, LifeInv, Phases, EventsRegistered
<1>4. ASSUME NEW l \in Loop, Poll(l)
      PROVE  Quiet
    BY <1>4 DEF Poll, Quiet, At, Goto, Watched, ReadEvent, server, kernel, thread, ready, queues,
        TypeInv, TypeOK, LifeInv, Phases, EventsRegistered
<1>5. ASSUME NEW l \in Loop, NEW c \in Conn, HandleEvent(l, c)
      PROVE  Quiet
    BY <1>5 DEF HandleEvent, Quiet, At, Goto, server, kernel, thread, ready, queues,
        TypeInv, TypeOK, LifeInv, Phases, EventsRegistered
<1>6. ASSUME NEW l \in Loop, Read(l)
      PROVE  Quiet
    BY <1>6 DEF Read, Quiet, At, Goto, server, kernel, thread, ready, queues,
        TypeInv, TypeOK, LifeInv, Phases, EventsRegistered
<1>7. ASSUME NEW l \in Loop, Message(l)
      PROVE  Quiet
    BY <1>7 DEF Message, Quiet, At, Goto, Return, server, kernel, thread, ready, queues,
        TypeInv, TypeOK, LifeInv, Phases, EventsRegistered
<1>7a. ASSUME NEW l \in Loop, MessageEmpty(l)
      PROVE  Quiet
    BY <1>7a DEF MessageEmpty, Quiet, At, Goto, Return, server, kernel, thread, ready, queues,
        TypeInv, TypeOK, LifeInv, Phases, EventsRegistered
<1>8. ASSUME NEW l \in Loop, Reply(l)
      PROVE  Quiet
    BY <1>8 DEF Reply, Quiet, At, Goto, Return, server, kernel, thread, ready, queues,
        TypeInv, TypeOK, LifeInv, Phases, EventsRegistered
<1>9. ASSUME NEW l \in Loop, CloseTest(l)
      PROVE  Quiet
    <2>1. CASE state[cur[l]] # "Closed"
        BY ZenonT(60), <1>9, <2>1 DEF CloseTest, Quiet, At, Goto, server, kernel, ready, queues,
            TypeInv, TypeOK, LifeInv, Phases
    <2>2. CASE ret[l] = "message" /\ CloseReturns(l)
        BY <1>9, <2>2 DEF CloseTest, CloseReturns, Quiet, At, Goto, server, kernel, ready, queues,
            TypeInv, TypeOK, LifeInv, Phases
    <2>3. CASE ret[l] # "message" /\ CloseReturns(l)
        BY ZenonT(60), <1>9, <2>3 DEF CloseTest, CloseReturns, Quiet, At, Goto, server, kernel, ready, queues,
            TypeInv, TypeOK, LifeInv, Phases
    <2>4. QED
        BY <1>9, <2>1, <2>2, <2>3 DEF CloseTest
<1>10. ASSUME NEW l \in Loop, EndFunctors(l)
      PROVE  Quiet
    BY <1>10 DEF EndFunctors, Quiet, At, Goto, server, kernel, thread, ready, queues,
        TypeInv, TypeOK, LifeInv, Phases, EventsRegistered
<1>11. ASSUME AcceptFails
      PROVE  Quiet
    BY <1>11 DEF AcceptFails, Quiet, At, Goto, server, kernel, thread, ready, queues,
        TypeInv, TypeOK, LifeInv, Phases, EventsRegistered
<1>12. ASSUME OnConnection
      PROVE  Quiet
    BY <1>12 DEF OnConnection, Quiet, At, Goto, Return, server, kernel, thread, ready, queues,
        TypeInv, TypeOK, LifeInv, Phases, EventsRegistered
<1>13. ASSUME HandleTimers
      PROVE  Quiet
    BY <1>13 DEF HandleTimers, Quiet, At, Goto, server, kernel, thread, ready, queues,
        TypeInv, TypeOK, LifeInv, Phases, EventsRegistered
<1>14. ASSUME NEW c \in Conn, TimerFires(c)
      PROVE  Quiet
    <2>1. CASE Held(c)
        <3>1. /\ pc[Main] = "timer"
              /\ pc' = [pc EXCEPT ![Main] = "active"]
              /\ cur' = [cur EXCEPT ![Main] = c]
              /\ UNCHANGED <<server, state, kernel, ready, queues>>
            BY <1>14, <2>1 DEF TimerFires, At, Goto
        <3>2. QED
            BY <3>1 DEF Quiet, server, kernel, ready, queues, TypeInv, TypeOK, LifeInv, Phases
    <2>2. CASE ~Held(c)
        BY <1>14, <2>2 DEF TimerFires, Quiet, At, Goto, server, kernel, ready, queues,
            TypeInv, TypeOK, LifeInv, Phases
    <2>3. QED
        BY <2>1, <2>2
<1>15. ASSUME ActiveClose
      PROVE  Quiet
    <2>1. CASE Goto(Main, "close") /\ UNCHANGED <<cur, timers>>
        BY <1>15, <2>1 DEF ActiveClose, Quiet, At, Goto, server, kernel, ready, queues,
            TypeInv, TypeOK, LifeInv, Phases
    <2>2. CASE Return(Main, "timer")
        BY <1>15, <2>2 DEF ActiveClose, Quiet, At, Goto, Return, server, kernel, ready, queues,
            TypeInv, TypeOK, LifeInv, Phases
    <2>3. QED
        BY <1>15, <2>1, <2>2 DEF ActiveClose
<1>16. ASSUME TimersDone
      PROVE  Quiet
    BY <1>16 DEF TimersDone, Quiet, At, Goto, server, kernel, thread, ready, queues,
        TypeInv, TypeOK, LifeInv, Phases, EventsRegistered
<1>17. ASSUME NEW l \in Loop, CloseNotify(l)
       PROVE  Leaving
    <2> DEFINE c == cur[l]
    <2>1. c \in Conn /\ Held(c) /\ state[c] = "Closed" /\ fdOf[c] \in Fd
        <3>1. c \in Conn /\ state[c] = "Closed"
            BY <1>17 DEF CloseNotify, At, TypeInv, CurOK, LifeInv, ClosedFirst
        <3>2. QED
            BY <3>1, HolderIsHeld DEF LifeInv, HeldHasFd
    <2>5. /\ \A k \in Loop : k # l => pc'[k] = pc[k] /\ cur'[k] = cur[k]
          /\ pc[l] = "notify" /\ pc'[l] \in {"handle", "message", "timer"}
          /\ functors[l] = <<>>
          /\ cur'[l] = cur[l] \/ cur'[l] = None
          /\ \A k \in Loop : pc[k] # "run" => functors[k] = <<>>
          /\ \A k \in Loop : pc[k] \in {"poll", "run"} => chs[k] = {}
        BY <1>17 DEF CloseNotify, CloseReturns, At, Goto, TypeInv, TypeOK, LifeInv, Phases
    <2>2. CASE l = Main
        <3>1. DeleteConnectionInLoop(c) /\ UNCHANGED <<fdOf, functors>>
            BY <1>17, <2>2 DEF CloseNotify
        <3>del. /\ \A f \in Fd : connections'[f] = connections[f] \/ connections'[f] = None
                /\ \A d \in Conn : (Mapped(d) => Mapped(d)')
                                   \/ <<"destroy", d>> \in Elements(todo'[loopOf[d]])
                /\ \A k \in Loop : Elements(todo[k]) \subseteq Elements(todo'[k])
                /\ \A k \in Loop : \A task \in Elements(todo'[k]) :
                       task \in Elements(todo[k]) \/ (task = <<"destroy", c>> /\ k = loopOf[c])
            BY <2>1, <3>1, DeleteLeaves
        <3>fixed. UNCHANGED loopOf
            BY <1>17 DEF CloseNotify
        <3>2. /\ \A f \in Fd : connections'[f] = connections[f] \/ connections'[f] = None
              /\ \A d \in Conn : (Mapped(d) => Mapped(d)') \/ <<"destroy", d>> \in Tasked(loopOf[d])'
              /\ \A k \in Loop : Tasked(k) \subseteq Tasked(k)'
              /\ \A k \in Loop : \A task \in Tasked(k)' :
                     task \in Tasked(k) \/ (task = <<"destroy", c>> /\ k = loopOf[c])
            BY <3>1, <3>del, <3>fixed DEF Tasked
        <3>3. \A k \in Loop : \A task \in Tasked(k)' :
                  task \in Tasked(k)
                  \/ (state[task[2]] = "Closed" /\ (task[1] = "destroy" => loopOf[task[2]] = k))
            BY <2>1, <3>2
        <3>4. UNCHANGED <<loopOf, state, chs, interest, functors>> /\ pc[Main] = "notify"
            BY <1>17, <2>2 DEF CloseNotify, At, kernel, ready
        <3>5. QED
            BY SMTT(30), <2>2, <2>5, <3>1, <3>2, <3>3, <3>4 DEF Leaving, TypeInv, TypeOK
    <2>3. CASE l # Main
        <3>1. Queue(Main, <<"delete", c>>) /\ <<"delete", c>> \in Tasks
            BY <1>17, <2>1, <2>3 DEF CloseNotify, Tasks
        <3>2. /\ \A k \in Loop : Tasked(k) \subseteq Tasked(k)'
              /\ \A k \in Loop : \A task \in Tasked(k)' : task \in Tasked(k) \/ task = <<"delete", c>>
            BY <1>17, <3>1, QueueTasks DEF CloseNotify, Tasked
        <3>3. \A k \in Loop : \A task \in Tasked(k)' :
                  task \in Tasked(k)
                  \/ (state[task[2]] = "Closed" /\ (task[1] = "destroy" => loopOf[task[2]] = k))
            BY <2>1, <3>2
        <3>4. UNCHANGED <<connections, fdOf, loopOf, state, chs, interest, functors>>
            BY <1>17, <2>3 DEF CloseNotify, kernel, ready
        <3>5. QED
            BY SMTT(30), <2>3, <2>5, <3>2, <3>3, <3>4 DEF Leaving, Mapped, TypeInv, TypeOK
    <2>4. QED
        BY <2>2, <2>3
<1>18. ASSUME NEW l \in Loop, Swap(l)
       PROVE  Leaving
    <2>1. functors[l] = <<>>
        BY <1>18 DEF Swap, At, LifeInv, Phases
    <2>2. \A k \in Loop : Tasked(k)' = Tasked(k)
        BY <1>18, <2>1, SwapTasks
    <2>3. loopOf \in [Conn -> Loop]
        BY DEF TypeInv, TypeOK
    <2>4. /\ pc[l] = "handle" /\ chs[l] = {}
          /\ pc' = [pc EXCEPT ![l] = "run"]
          /\ functors' = [functors EXCEPT ![l] = todo[l]]
          /\ UNCHANGED <<connections, fdOf, loopOf, state, interest, chs, cur>>
        BY <1>18 DEF Swap, At, Goto, server, kernel, ready
    <2>5. QED
        BY <2>2, <2>3, <2>4 DEF Leaving, Mapped, LifeInv, Phases, TypeInv, TypeOK
<1>19. ASSUME NEW l \in Loop, RunDestroy(l)
       PROVE  Leaving
    <2> DEFINE c == Head(functors[l])[2]
    <2>1. Run(l, "destroy")
        BY <1>19 DEF RunDestroy
    <2>2. /\ c \in Conn
          /\ \A k \in Loop : Elements(functors[k]) = Elements(functors'[k])
                                \cup (IF k = l THEN {<<"destroy", c>>} ELSE {})
        BY <2>1, RunTasks
    <2>3. /\ interest' = [interest EXCEPT ![c] = "none"]
          /\ UNCHANGED <<connections, fdOf, loopOf, state, chs, todo, pc, cur>>
        BY <1>19 DEF RunDestroy, server, thread, ready
    <2>4. <<"destroy", c>> \in Tasked(l) /\ <<"destroy", c>>[2] = c
        BY <2>2 DEF Tasked
    <2>5. state[c] = "Closed" /\ loopOf[c] = l
        BY <2>2, <2>4 DEF LifeInv, ClosedFirst, DestroyAtHome
    <2>6. pc[l] = "run" /\ chs[l] = {}
        BY <2>1 DEF Run, At, LifeInv, Phases
    <2>7. \A k \in Loop : k # l => functors'[k] = functors[k]
        BY <2>1 DEF Run, TypeInv, TypeOK
    <2>8. \A d \in Conn : \/ interest'[d] = interest[d]
                          \/ (interest'[d] = "none" /\ state[d] = "Closed" /\ chs[loopOf[d]] = {})
        BY <2>3, <2>5, <2>6 DEF TypeInv, TypeOK
    <2>9. \A k \in Loop : Tasked(k)' \subseteq Tasked(k) /\ Tasked(k) \subseteq Tasked(k)' \cup {<<"destroy", c>>}
        BY <2>2, <2>3 DEF Tasked
    <2>10. \A d \in Conn : <<"destroy", d>> \in Tasked(loopOf[d]) =>
                             <<"destroy", d>> \in Tasked(loopOf[d])' \/ interest'[d] = "none"
        <3>1. interest'[c] = "none" /\ loopOf \in [Conn -> Loop] /\ loopOf' = loopOf
            BY <2>2, <2>3 DEF TypeInv, TypeOK
        <3>2. \A d \in Conn : <<"destroy", d>> = <<"destroy", c>> => d = c
            OBVIOUS
        <3>3. QED
            BY <2>9, <3>1, <3>2
    <2>11. \A k \in Loop : pc'[k] # "run" => functors'[k] = <<>>
        BY <2>3, <2>6, <2>7 DEF LifeInv, Phases
    <2>12. \A k \in Loop : pc'[k] \in {"poll", "run"} => chs[k] = {}
        BY <2>3 DEF LifeInv, Phases
    <2> HIDE DEF c
    <2>13. QED
        BY <2>3, <2>8, <2>9, <2>10, <2>11, <2>12 DEF Leaving, Mapped
<1>20. ASSUME RunDelete
       PROVE  Leaving
    <2> DEFINE c == Head(functors[Main])[2]
    <2>1. Run(Main, "delete") /\ DeleteConnectionInLoop(c) /\ UNCHANGED <<fdOf, loopOf, state, interest, chs, pc, cur>>
        BY <1>20 DEF RunDelete, kernel, thread, ready
    <2>2. /\ c \in Conn
          /\ \A k \in Loop : Elements(functors[k]) = Elements(functors'[k])
                                \cup (IF k = Main THEN {<<"delete", c>>} ELSE {})
        BY <2>1, RunTasks
    <2>3. <<"delete", c>> \in Tasked(Main) /\ <<"delete", c>>[2] = c
        BY <2>2 DEF Tasked
    <2>4. state[c] = "Closed" /\ Held(c)
        BY <2>2, <2>3, HolderIsHeld DEF LifeInv, ClosedFirst
    <2>5. pc[Main] = "run" /\ \A k \in Loop : k # Main => functors'[k] = functors[k]
        BY <2>1 DEF Run, At, TypeInv, TypeOK
    <2> HIDE DEF c
    <2>6. /\ \A f \in Fd : connections'[f] = connections[f] \/ connections'[f] = None
          /\ \A d \in Conn : (Mapped(d) => Mapped(d)') \/ <<"destroy", d>> \in Elements(todo'[loopOf[d]])
          /\ \A k \in Loop : Elements(todo[k]) \subseteq Elements(todo'[k])
          /\ \A k \in Loop : \A task \in Elements(todo'[k]) :
                 task \in Elements(todo[k]) \/ (task = <<"destroy", c>> /\ k = loopOf[c])
        BY <2>1, <2>2, <2>4, DeleteLeaves
    <2>7. \A k \in Loop : /\ \A task \in Tasked(k) : task \in Tasked(k)' \/ task = <<"delete", c>>
                          /\ \A task \in Tasked(k)' :
                                task \in Tasked(k) \/ (task = <<"destroy", c>> /\ k = loopOf[c])
        BY <2>2, <2>6 DEF Tasked
    <2>8. \A d \in Conn : (Mapped(d) => Mapped(d)') \/ <<"destroy", d>> \in Tasked(loopOf[d])'
        BY <2>1, <2>6 DEF Tasked
    <2>9. \A d \in Conn : <<"destroy", d>> \in Tasked(loopOf[d]) => <<"destroy", d>> \in Tasked(loopOf[d])'
        <3>1. loopOf \in [Conn -> Loop] /\ loopOf' = loopOf
            BY <2>1 DEF TypeInv, TypeOK
        <3>2. \A d \in Conn : <<"destroy", d>> # <<"delete", c>>
            OBVIOUS
        <3>3. QED
            BY <2>7, <3>1, <3>2
    <2>10. \A k \in Loop : \A task \in Tasked(k)' :
              task \in Tasked(k)
              \/ (state[task[2]] = "Closed" /\ (task[1] = "destroy" => loopOf[task[2]] = k))
        BY <2>4, <2>7
    <2>11. \A k \in Loop : pc'[k] # "run" => functors'[k] = <<>>
        BY <2>1, <2>5 DEF LifeInv, Phases
    <2>12. \A k \in Loop : pc'[k] \in {"poll", "run"} => chs[k] = {}
        BY <2>1 DEF LifeInv, Phases
    <2>13. QED
        BY <2>1, <2>5, <2>6, <2>8, <2>9, <2>10, <2>11, <2>12 DEF Leaving
<1>21. ASSUME NEW l \in Loop, CloseSet(l)
       PROVE  LifeRest'
    <2> DEFINE c == cur[l]
    <2>1. c \in Conn /\ fdOf[c] # None
        <3>1. c \in Conn
            BY <1>21 DEF CloseSet, At, TypeInv, CurOK
        <3>2. QED
            BY <3>1, HolderIsHeld, ConstantsAssumption DEF LifeInv, HeldHasFd
    <2>2. /\ state' = [state EXCEPT ![c] = "Closed"]
          /\ pc[l] = "set" /\ pc' = [pc EXCEPT ![l] = "notify"]
          /\ UNCHANGED <<connections, fdOf, loopOf, interest, chs, todo, functors, cur>>
        BY <1>21 DEF CloseSet, At, Goto, server, kernel, ready, queues
    <2>3. state \in [Conn -> {"Invalid", "Connected", "Closed"}] /\ pc \in [Loop -> Places]
        BY DEF TypeInv, TypeOK
    <2>4. EntryFd' /\ EventsRegistered' /\ DestroyAtHome'
        BY <2>2 DEF LifeInv, EntryFd, EventsRegistered, DestroyAtHome, Tasked
    <2>5. Registered' /\ Phases'
        BY <2>2, <2>3 DEF LifeInv, Registered, Mapped, Tasked, Phases
    <2>6. SettingUp'
        <3>1. pc'[Main] = "establish" => pc[Main] = "establish" /\ l # Main
            BY <2>2, <2>3
        <3>2. pc'[Main] = "enable" => pc[Main] = "enable"
            BY <2>2, <2>3
        <3>3. pc'[Main] = "establish" => state'[cur[Main]] = state[cur[Main]]
            BY <2>2, <2>3, <3>1 DEF LifeInv, SettingUp
        <3>4. QED
            BY <2>2, <3>1, <3>2, <3>3 DEF LifeInv, SettingUp, Mapped
    <2>7. ClosedFirst'
        <3>1. \A k \in Loop : pc'[k] = "notify" => state'[cur'[k]] = "Closed"
            BY <2>1, <2>2, <2>3 DEF LifeInv, ClosedFirst
        <3>2. \A k \in Loop : \A task \in Tasked(k)' : state'[task[2]] = "Closed"
            BY <2>1, <2>2, <2>3 DEF LifeInv, ClosedFirst, Tasked
        <3>3. \A d \in Conn : fdOf'[d] = None => state'[d] = "Invalid"
            BY <2>1, <2>2, <2>3 DEF LifeInv, ClosedFirst
        <3>4. QED
            BY <3>1, <3>2, <3>3 DEF ClosedFirst
    <2>8. QED
        BY <2>4, <2>5, <2>6, <2>7 DEF LifeRest
<1>22. ASSUME NEW c \in Conn, NEW f \in Fd, Accept(c, f)
       PROVE  LifeRest'
    <2>1. /\ fdOf[c] = None
          /\ fdOf' = [fdOf EXCEPT ![c] = f]
          /\ loopOf' = [loopOf EXCEPT ![c] = GetNextLoop]
          /\ interest' = [interest EXCEPT ![c] = "et"]
          /\ cur' = [cur EXCEPT ![Main] = c]
          /\ pc[Main] = "handle" /\ pc' = [pc EXCEPT ![Main] = "establish"]
          /\ UNCHANGED <<connections, state, chs, todo, functors>>
        BY <1>22 DEF Accept, Backlog, At, Goto, queues
    <2>2. /\ fdOf \in [Conn -> Fd \cup {None}] /\ loopOf \in [Conn -> Loop]
          /\ interest \in [Conn -> {"none", "et", "in"}] /\ cur \in [Loop -> Conn \cup {None}]
          /\ pc \in [Loop -> Places] /\ connections \in [Fd -> Conn \cup {None}]
        BY DEF TypeInv, TypeOK
    <2>3. ~Held(c)
        BY <2>1, ConstantsAssumption DEF LifeInv, HeldHasFd
    <2>4. /\ \A g \in Fd : connections[g] # c
          /\ \A l \in Loop : cur[l] # c /\ c \notin chs[l]
          /\ \A l \in Loop : \A task \in Tasked(l) : task[2] # c
        BY <2>3, HolderIsHeld, EventHeld
    <2>5. EntryFd'
        BY <2>1, <2>2, <2>4 DEF LifeInv, EntryFd
    <2>6. Registered'
        <3>1. ASSUME NEW d \in Conn, d # c, interest'[d] # "none"
              PROVE  Mapped(d)' \/ <<"destroy", d>> \in Tasked(loopOf[d])'
            <4>1. Mapped(d) \/ <<"destroy", d>> \in Tasked(loopOf[d])
                BY <2>1, <2>2, <3>1 DEF LifeInv, Registered
            <4>2. fdOf'[d] = fdOf[d] /\ loopOf'[d] = loopOf[d]
                BY <2>1, <2>2, <3>1
            <4>3. QED
                BY <2>1, <4>1, <4>2 DEF Mapped, Tasked
        <3>2. pc'[Main] = "establish" /\ cur'[Main] = c
            BY <2>1, <2>2
        <3>3. QED
            BY <3>1, <3>2 DEF Registered
    <2>7. EventsRegistered'
        BY <2>1, <2>2, <2>4 DEF LifeInv, EventsRegistered, TypeInv, TypeOK
    <2>8. DestroyAtHome'
        <3>1. ASSUME NEW l \in Loop, NEW d \in Conn, <<"destroy", d>> \in Tasked(l)'
              PROVE  loopOf'[d] = l
            <4>1. <<"destroy", d>> \in Tasked(l) /\ <<"destroy", d>>[2] = d
                BY <2>1, <3>1 DEF Tasked
            <4>2. d # c /\ loopOf[d] = l
                BY <2>4, <4>1 DEF LifeInv, DestroyAtHome
            <4>3. QED
                BY <2>1, <2>2, <4>2
        <3>2. QED
            BY <3>1 DEF DestroyAtHome
    <2>9. Phases'
        BY <2>1, <2>2 DEF LifeInv, Phases
    <2>10. SettingUp'
        <3>1. state[c] = "Invalid"
            BY <2>1 DEF LifeInv, ClosedFirst
        <3>2. pc'[Main] = "establish" /\ cur'[Main] = c /\ interest'[c] = "et"
            BY <2>1, <2>2
        <3>3. \A l \in Loop : l # Main => cur'[l] # c
            BY <2>1, <2>2, <2>4
        <3>4. QED
            BY <2>1, <3>1, <3>2, <3>3 DEF SettingUp
    <2>11. ClosedFirst'
        <3>1. \A l \in Loop : pc'[l] = "notify" => pc[l] = "notify" /\ cur'[l] = cur[l]
            BY <2>1, <2>2
        <3>2. \A d \in Conn : fdOf'[d] = None => fdOf[d] = None
            BY <2>1, <2>2
        <3>3. QED
            BY <2>1, <3>1, <3>2 DEF LifeInv, ClosedFirst, Tasked
    <2>12. QED
        BY <2>5, <2>6, <2>7, <2>8, <2>9, <2>10, <2>11 DEF LifeRest
<1>23. ASSUME Establish
       PROVE  LifeRest'
    <2> DEFINE c == cur[Main]
    <2>1. /\ pc[Main] = "establish" /\ pc' = [pc EXCEPT ![Main] = "enable"]
          /\ connections' = [connections EXCEPT ![fdOf[c]] = c]
          /\ state' = [state EXCEPT ![c] = "Connected"]
          /\ UNCHANGED <<fdOf, loopOf, interest, chs, todo, functors, cur>>
        BY <1>23 DEF Establish, At, Goto, kernel, ready, queues
    <2>2. /\ state \in [Conn -> {"Invalid", "Connected", "Closed"}] /\ pc \in [Loop -> Places]
          /\ connections \in [Fd -> Conn \cup {None}]
        BY DEF TypeInv, TypeOK
    <2>3. c \in Conn /\ Held(c) /\ fdOf[c] \in Fd /\ state[c] = "Invalid"
        <3>1. c \in Conn /\ state[c] = "Invalid"
            BY <2>1 DEF TypeInv, CurOK, LifeInv, SettingUp
        <3>2. QED
            BY <3>1, HolderIsHeld DEF LifeInv, HeldHasFd
    <2>4. EntryFd'
        BY <2>1, <2>2, <2>3 DEF LifeInv, EntryFd
    <2>5. Registered'
        <3>1. ASSUME NEW d \in Conn, Mapped(d)
              PROVE  Mapped(d)'
            <4>1. Held(d)
                BY <3>1, HolderIsHeld DEF Mapped
            <4>2. d = c \/ fdOf[d] # fdOf[c]
                BY <2>3, <4>1 DEF LifeInv, DistinctFd
            <4>3. QED
                BY <2>1, <2>2, <2>3, <3>1, <4>2 DEF Mapped
        <3>2. Mapped(c)'
            BY <2>1, <2>2, <2>3 DEF Mapped
        <3>3. \A d \in Conn : Tasked(loopOf[d])' = Tasked(loopOf[d])
            BY <2>1 DEF Tasked
        <3>4. QED
            BY <2>1, <3>1, <3>2, <3>3 DEF LifeInv, Registered
    <2>6. EventsRegistered' /\ DestroyAtHome' /\ Phases'
        BY <2>1, <2>2 DEF LifeInv, EventsRegistered, DestroyAtHome, Phases, Tasked
    <2>7. SettingUp'
        BY <2>1, <2>2, <2>3 DEF SettingUp, Mapped
    <2>8. ClosedFirst'
        <3>1. \A k \in Loop : pc'[k] = "notify" => state'[cur'[k]] = "Closed"
            BY <2>1, <2>2, <2>3 DEF LifeInv, ClosedFirst, SettingUp
        <3>2. \A k \in Loop : \A task \in Tasked(k)' : state'[task[2]] = "Closed"
            BY <2>1, <2>2, <2>3 DEF LifeInv, ClosedFirst, Tasked
        <3>3. \A d \in Conn : fdOf'[d] = None => state'[d] = "Invalid"
            BY <2>1, <2>2, <2>3, ConstantsAssumption DEF LifeInv, ClosedFirst
        <3>4. QED
            BY <3>1, <3>2, <3>3 DEF ClosedFirst
    <2>9. QED
        BY <2>4, <2>5, <2>6, <2>7, <2>8 DEF LifeRest
<1>24. ASSUME EnableReading
       PROVE  LifeRest'
    <2> DEFINE c == cur[Main]
    <2>1. /\ pc[Main] = "enable" /\ pc' = [pc EXCEPT ![Main] = "connected"]
          /\ interest' = [interest EXCEPT ![c] = "in"]
          /\ UNCHANGED <<connections, fdOf, loopOf, state, chs, todo, functors, cur>>
        BY <1>24 DEF EnableReading, At, Goto, server, ready, queues
    <2>2. pc \in [Loop -> Places] /\ interest \in [Conn -> {"none", "et", "in"}] /\ chs \in [Loop -> SUBSET Conn]
        BY DEF TypeInv, TypeOK
    <2>3. c \in Conn /\ Mapped(c)
        BY <2>1 DEF TypeInv, CurOK, LifeInv, SettingUp
    <2>4. EntryFd' /\ DestroyAtHome'
        BY <2>1 DEF LifeInv, EntryFd, DestroyAtHome, Tasked
    <2>5. Registered'
        BY <2>1, <2>2, <2>3 DEF LifeInv, Registered, Mapped, Tasked
    <2>6. EventsRegistered' /\ Phases' /\ SettingUp'
        BY <2>1, <2>2 DEF LifeInv, EventsRegistered, Phases, SettingUp
    <2>7. ClosedFirst'
        BY <2>1, <2>2 DEF LifeInv, ClosedFirst, Tasked
    <2>8. QED
        BY <2>4, <2>5, <2>6, <2>7 DEF LifeRest
<1>25. CASE UNCHANGED vars
    BY <1>25 DEF vars, server, kernel, thread, ready, queues, LifeInv, LifeRest, EntryFd, Registered, Mapped,
        EventsRegistered, DestroyAtHome, Phases, SettingUp, ClosedFirst, Tasked
<1>26. QED
    BY <1>1, <1>2, <1>2a, <1>3, <1>4, <1>5, <1>6, <1>7, <1>7a, <1>8, <1>9, <1>10, <1>11, <1>12, <1>13, <1>14,
       <1>15, <1>16, <1>17, <1>18, <1>19, <1>20, <1>21, <1>22, <1>23, <1>24, <1>25,
       QuietStep, LeavingStep
       DEF Next, Step, LoopStep, MainStep, PeerStep

LEMMA LifeInit == Init => LifeInv
<1> SUFFICES ASSUME Init
             PROVE  LifeInv
    OBVIOUS
<1> USE MainIsLoop, ConstantsAssumption
<1>1. \A c \in Conn : ~Held(c)
    BY ElementsEmpty DEF Init, Held
<1>2. HeldHasFd /\ DistinctFd
    BY <1>1 DEF HeldHasFd, DistinctFd
<1>3. \A l \in Loop : Tasked(l) = {}
    BY ElementsEmpty DEF Init, Tasked
<1>4. EntryFd /\ Registered /\ EventsRegistered /\ Phases /\ SettingUp
    BY DEF Init, EntryFd, Registered, EventsRegistered, Phases, SettingUp
<1>5. DestroyAtHome /\ ClosedFirst
    BY <1>3 DEF Init, DestroyAtHome, ClosedFirst
<1>6. QED
    BY <1>2, <1>4, <1>5 DEF LifeInv

LEMMA Life == Spec => [](TypeInv /\ LifeInv)
<1>1. Init => TypeInv /\ LifeInv
    BY TypeInit, LifeInit
<1>2. TypeInv /\ LifeInv /\ [Next]_vars => (TypeInv /\ LifeInv)'
    BY TypeStep, LifeStep
<1>3. QED
    BY <1>1, <1>2, PTL DEF Spec

(* The kernel never holds the Channel of a deleted connection: nothing     *)
(* deletes a connection before ConnectionDestructor has withdrawn it.      *)
THEOREM NoRegistrationOutlives == Spec => []RegisteredIsHeld
<1>1. TypeInv /\ LifeInv => RegisteredIsHeld
    BY RegisteredHeld DEF RegisteredIsHeld
<1>2. QED
    BY <1>1, Life, PTL

(* Nor does a loop: a Channel that epoll_wait returned is alive until its  *)
(* event is handled, though handleEvent does not test tie.lock().          *)
THEOREM EventsAreAlive == Spec => []NoDanglingChannel
<1>1. TypeInv /\ LifeInv => NoDanglingChannel
    BY EventHeld DEF NoDanglingChannel
<1>2. QED
    BY <1>1, Life, PTL

(***************************************************************************)
(* The map, keyed by descriptors that the kernel gives again.              *)
(***************************************************************************)
EntryStep ==
    \A f \in Fd : connections[f] # None /\ connections'[f] # connections[f]
                   => connections'[f] = None /\ state[connections[f]] = "Closed"

(* What deleteConnectionInLoop erases is the entry of the connection it is *)
(* called for.                                                             *)
LEMMA DeleteErasesOwn ==
    ASSUME TypeInv, LifeInv, NEW c \in Conn, Held(c), state[c] = "Closed", DeleteConnectionInLoop(c)
    PROVE  EntryStep
<1> SUFFICES ASSUME NEW f \in Fd, connections[f] # None, connections'[f] # connections[f]
             PROVE  connections'[f] = None /\ state[connections[f]] = "Closed"
    BY DEF EntryStep
<1>1. connections' = [connections EXCEPT ![fdOf[c]] = None]
    BY DEF DeleteConnectionInLoop
<1>2. f = fdOf[c] /\ connections'[f] = None
    BY <1>1 DEF TypeInv, TypeOK
<1>3. connections[f] \in Conn /\ fdOf[connections[f]] = f /\ Held(connections[f])
    BY HolderIsHeld DEF TypeInv, TypeOK, LifeInv, EntryFd
<1>4. connections[f] = c
    BY <1>2, <1>3 DEF LifeInv, DistinctFd
<1>5. QED
    BY <1>2, <1>4

LEMMA EntryKept == TypeInv /\ LifeInv /\ [Next]_vars => EntryStep
<1> SUFFICES ASSUME TypeInv, LifeInv, [Next]_vars
             PROVE  EntryStep
    OBVIOUS
<1> USE MainIsLoop
<1>1. CASE UNCHANGED connections
    BY <1>1 DEF EntryStep
<1>2. CASE Establish
    <2> DEFINE c == cur[Main]
    <2>1. /\ c \in Conn /\ state[c] = "Invalid" /\ pc[Main] = "establish"
          /\ connections' = [connections EXCEPT ![fdOf[c]] = c]
        BY <1>2 DEF Establish, At, TypeInv, CurOK, LifeInv, SettingUp
    <2>2. Held(c) /\ fdOf[c] \in Fd
        BY <2>1, HolderIsHeld DEF LifeInv, HeldHasFd
    <2>3. ASSUME NEW f \in Fd, connections[f] # None, connections'[f] # connections[f]
          PROVE  FALSE
        <3>1. f = fdOf[c] /\ connections[f] # c
            BY <2>1, <2>3 DEF TypeInv, TypeOK
        <3>2. connections[f] \in Conn /\ fdOf[connections[f]] = f /\ Held(connections[f])
            BY <2>3, HolderIsHeld DEF TypeInv, TypeOK, LifeInv, EntryFd
        <3>3. QED
            BY <2>1, <2>2, <3>1, <3>2 DEF LifeInv, DistinctFd
    <2>4. QED
        BY <2>3 DEF EntryStep
<1>3. ASSUME NEW l \in Loop, CloseNotify(l), l = Main
      PROVE  EntryStep
    <2>1. cur[l] \in Conn /\ state[cur[l]] = "Closed" /\ DeleteConnectionInLoop(cur[l])
        BY <1>3 DEF CloseNotify, At, TypeInv, CurOK, LifeInv, ClosedFirst
    <2>2. QED
        BY <2>1, HolderIsHeld, DeleteErasesOwn
<1>4. CASE RunDelete
    <2> DEFINE c == Head(functors[Main])[2]
    <2>1. Run(Main, "delete") /\ DeleteConnectionInLoop(c)
        BY <1>4 DEF RunDelete
    <2>2. c \in Conn /\ <<"delete", c>> \in Tasked(Main) /\ <<"delete", c>>[2] = c
        BY <2>1, RunTasks DEF Tasked
    <2>3. state[c] = "Closed" /\ Held(c)
        BY <2>2, HolderIsHeld DEF LifeInv, ClosedFirst
    <2>4. QED
        BY <2>1, <2>2, <2>3, DeleteErasesOwn
<1>5. QED
    BY ZenonT(60), <1>1, <1>2, <1>3, <1>4
       DEF Next, Step, LoopStep, MainStep, PeerStep, vars, server,
           PeerConnects, PeerSends, PeerSendsUrgent, PeerCloses, Poll, HandleEvent, Read, Message, MessageEmpty, Reply,
           CloseTest, CloseSet, CloseNotify, Swap, RunDestroy, EndFunctors, Accept, AcceptFails,
           EnableReading, OnConnection, HandleTimers, TimerFires, ActiveClose, TimersDone

(* newConnection never replaces an entry, though the kernel gives the      *)
(* descriptor of a connection again once it is closed, and what            *)
(* deleteConnectionInLoop erases by descriptor is the closed connection's. *)
THEOREM EntriesOutlive == Spec => EntryOutlivesConnection
<1>1. TypeInv /\ LifeInv /\ [Next]_vars
        => [\A f \in Fd : connections[f] # None /\ connections'[f] # connections[f]
                            => connections'[f] = None /\ state[connections[f]] = "Closed"]_vars
    BY EntryKept DEF EntryStep
<1>2. QED
    BY <1>1, Life, PTL DEF Spec, EntryOutlivesConnection

(***************************************************************************)
(* The start. What is proved of a server whose loops run from the first    *)
(* holds of one that starts, because each step of StartSpec is one of      *)
(* TcpServer or leaves its variables as they are.                          *)
(***************************************************************************)
LEMMA StartStep == [StartNext]_startVars => [Next]_vars
BY DEF StartNext, startVars, MainStarts, ThreadStarts, LoopRuns, ClientActs, Next

LEMMA StartsAsServer == StartSpec => Init /\ [][Next]_vars
<1>1. StartInit => Init
    BY DEF StartInit
<1>2. QED
    BY <1>1, StartStep, PTL DEF StartSpec

NoneBeforeLoops ==
    /\ StartTypeOK
    /\ \A l \in 1 .. started : lp[l]
    /\ mpc = "loop" => started = NumSub
    /\ mpc # "loop" => \A c \in Conn : fdOf[c] = None

LEMMA StartInvariant == TypeInv /\ NoneBeforeLoops /\ [StartNext]_startVars => NoneBeforeLoops'
<1> SUFFICES ASSUME TypeInv, NoneBeforeLoops, [StartNext]_startVars
             PROVE  NoneBeforeLoops'
    OBVIOUS
<1> USE ConstantsAssumption DEF NoneBeforeLoops, StartTypeOK, SubLoop
<1>1. CASE MainStarts
    BY <1>1 DEF MainStarts, Launch, AllStarted, Wait, vars, server
<1>2. CASE WakesAnyhow /\ UNCHANGED vars
    BY <1>2 DEF WakesAnyhow, vars, server
<1>3. ASSUME NEW l \in SubLoop, ThreadStarts(l)
      PROVE  NoneBeforeLoops'
    <2>1. CASE Build(l)
        BY <1>3, <2>1 DEF ThreadStarts, Build, vars, server
    <2>2. CASE Publish(l)
        <3>1. /\ started' = started /\ fdOf' = fdOf
              /\ lp' = [lp EXCEPT ![l] = TRUE]
              /\ mpc' = mpc \/ (mpc = "asleep" /\ mpc' = "woken")
              /\ tpc' = [tpc EXCEPT ![l] = "loop"]
            BY <1>3, <2>2 DEF ThreadStarts, Publish, vars, server
        <3>2. StartTypeOK'
            BY <3>1
        <3>3. \A i \in 1 .. started : lp'[i]
            BY <3>1
        <3>4. QED
            BY <3>1, <3>2, <3>3
    <2>3. QED
        BY <1>3, <2>1, <2>2 DEF ThreadStarts
<1>4. ASSUME NEW l \in Loop, LoopRuns(l)
      PROVE  NoneBeforeLoops'
    <2>1. mpc # "loop" => fdOf' = fdOf
        BY <1>4 DEF LoopRuns, InLoop, Step, LoopStep, Poll, HandleEvent, Read, Message, MessageEmpty, Reply,
                    CloseTest, CloseSet, CloseNotify, Swap, RunDestroy, EndFunctors, server
    <2>2. QED
        BY <1>4, <2>1 DEF LoopRuns, start
<1>5. CASE \E c \in Conn : ClientActs(c)
    BY <1>5 DEF ClientActs, PeerStep, PeerConnects, PeerSends, PeerSendsUrgent, PeerCloses, server, start
<1>6. CASE UNCHANGED startVars
    BY <1>6 DEF startVars, start, vars, server
<1>7. QED
    BY <1>1, <1>2, <1>3, <1>4, <1>5, <1>6 DEF StartNext

(* The start order is kept: connections are given only to loops that their *)
(* threads have built, whatever wakes the main thread.                     *)
THEOREM StartOrder == StartSpec => []LoopsAreBuilt
<1>1. StartInit => TypeInv /\ NoneBeforeLoops
    BY TypeInit, ConstantsAssumption DEF StartInit, Init, NoneBeforeLoops, StartTypeOK, SubLoop
<1>2. TypeInv /\ NoneBeforeLoops /\ [StartNext]_startVars => (TypeInv /\ NoneBeforeLoops)'
    BY TypeStep, StartStep, StartInvariant
<1>3. TypeInv /\ NoneBeforeLoops => LoopsAreBuilt
    <2> SUFFICES ASSUME TypeInv, NoneBeforeLoops, NEW c \in Conn, fdOf[c] # None, loopOf[c] # Main
                 PROVE  lp[loopOf[c]] /\ loopOf[c] <= started
        BY DEF LoopsAreBuilt, NoneBeforeLoops
    <2>1. loopOf[c] \in 0 .. NumSub /\ started = NumSub /\ loopOf[c] # 0
        BY DEF TypeInv, TypeOK, Loop, NoneBeforeLoops, Main
    <2>2. QED
        BY <2>1, ConstantsAssumption DEF NoneBeforeLoops
<1>4. QED
    BY <1>1, <1>2, <1>3, PTL DEF StartSpec

(* While the loops start one by one, and after, what is proved of them     *)
(* holds: no Channel in epoll or in its results outlives its connection,   *)
(* and no entry of the map is lost.                                        *)
THEOREM StartedServerIsSafe ==
    StartSpec => [](RegisteredIsHeld /\ NoDanglingChannel) /\ EntryOutlivesConnection
<1>1. TypeInv /\ LifeInv => RegisteredIsHeld /\ NoDanglingChannel
    BY RegisteredHeld, EventHeld DEF RegisteredIsHeld, NoDanglingChannel
<1>2. Init => TypeInv /\ LifeInv
    BY TypeInit, LifeInit
<1>3. TypeInv /\ LifeInv /\ [Next]_vars => (TypeInv /\ LifeInv)'
    BY TypeStep, LifeStep
<1>4. TypeInv /\ LifeInv /\ [Next]_vars
        => [\A f \in Fd : connections[f] # None /\ connections'[f] # connections[f]
                            => connections'[f] = None /\ state[connections[f]] = "Closed"]_vars
    BY EntryKept DEF EntryStep
<1>5. QED
    BY <1>1, <1>2, <1>3, <1>4, StartsAsServer, PTL DEF EntryOutlivesConnection

(***************************************************************************)
(* The read events. A loop handles only its own connections, so no thread  *)
(* but its own reads what an event has announced, and each once.           *)
(***************************************************************************)
(* What makes a read event.                                                *)
Input(c) == Readable(c) \/ urgent[c]

InputThere ==
    \A l \in Loop :
       /\ \A c \in chs[l] : Input(c)
       /\ pc[l] = "read" => /\ loopOf[cur[l]] = l
                            /\ Input(cur[l])
                            /\ cur[l] \notin chs[l]

(* The steps that take no input and choose no connection to read.          *)
NoRead == /\ \A c \in Conn : Input(c) => Input(c)'
          /\ \A l \in Loop : chs'[l] \subseteq chs[l]
          /\ \A l \in Loop : pc'[l] = "read" => pc[l] = "read" /\ cur'[l] = cur[l]
          /\ \A l \in Loop : pc[l] = "read" => loopOf'[cur[l]] = loopOf[cur[l]]

LEMMA NoReadStep ==
    ASSUME TypeInv, InputThere, NoRead
    PROVE  InputThere'
<1>1. \A l \in Loop : /\ \A c \in chs'[l] : c \in Conn /\ c \in chs[l]
                      /\ pc[l] = "read" => cur[l] \in Conn
    BY DEF TypeInv, TypeOK, CurOK, NoRead
<1>2. QED
    BY <1>1 DEF InputThere, NoRead

LEMMA InputStep == TypeInv /\ LifeInv /\ InputThere /\ [Next]_vars => InputThere'
<1> SUFFICES ASSUME TypeInv, LifeInv, InputThere, [Next]_vars
             PROVE  InputThere'
    OBVIOUS
<1> USE MainIsLoop
<1>1. ASSUME NEW c \in Conn, PeerStep(c)
      PROVE  InputThere'
    <2>1. \A d \in Conn : Input(d) => Input(d)'
        BY ZenonT(60), <1>1 DEF PeerStep, PeerConnects, PeerSends, PeerSendsUrgent, PeerCloses, Input, Readable, TypeInv, TypeOK
    <2>2. QED
        BY <1>1, <2>1, NoReadStep DEF NoRead, PeerStep, PeerConnects, PeerSends, PeerSendsUrgent, PeerCloses, server, thread, ready
<1>2. ASSUME NEW l \in Loop, Poll(l)
      PROVE  InputThere'
    <2>1. /\ chs' = [chs EXCEPT ![l] = {c \in Watched(l) : ReadEvent(c)}]
          /\ pc' = [pc EXCEPT ![l] = "handle"]
          /\ UNCHANGED <<loopOf, cur, data, urgent, peer>>
        BY <1>2 DEF Poll, Goto, server
    <2>2. \A c \in Conn : Input(c)' <=> Input(c)
        BY <2>1 DEF Input, Readable
    <2>3. ASSUME NEW k \in Loop, NEW c \in chs'[k]
          PROVE  Input(c)'
        BY <2>1, <2>2 DEF TypeInv, TypeOK, Watched, ReadEvent, Input, InputThere
    <2>4. ASSUME NEW k \in Loop, pc'[k] = "read"
          PROVE  k # l /\ pc[k] = "read" /\ cur[k] \in Conn /\ chs'[k] = chs[k]
        BY <2>1, <2>4 DEF TypeInv, TypeOK, CurOK
    <2>5. QED
        BY <2>1, <2>2, <2>3, <2>4 DEF InputThere
<1>3. ASSUME NEW l \in Loop, NEW c \in Conn, HandleEvent(l, c)
      PROVE  InputThere'
    <2>1. /\ c \in chs[l] /\ chs' = [chs EXCEPT ![l] = @ \ {c}]
          /\ cur' = [cur EXCEPT ![l] = c] /\ pc' = [pc EXCEPT ![l] = "read"]
          /\ UNCHANGED <<loopOf, data, urgent, peer>>
        BY <1>3 DEF HandleEvent, Goto, server, kernel
    <2>2. loopOf[c] = l /\ Input(c)
        BY <2>1 DEF LifeInv, EventsRegistered, InputThere
    <2>3. \A d \in Conn : Input(d)' <=> Input(d)
        BY <2>1 DEF Input, Readable
    <2>4. \A k \in Loop : \A d \in chs'[k] : d \in Conn /\ d \in chs[k]
        BY <2>1 DEF TypeInv, TypeOK
    <2>5. pc'[l] = "read" /\ cur'[l] = c /\ c \notin chs'[l]
        BY <2>1 DEF TypeInv, TypeOK
    <2>6. ASSUME NEW k \in Loop, k # l, pc'[k] = "read"
          PROVE  pc[k] = "read" /\ cur'[k] = cur[k] /\ cur[k] \in Conn /\ chs'[k] = chs[k]
        BY <2>1, <2>6 DEF TypeInv, TypeOK, CurOK
    <2>7. QED
        BY <2>1, <2>2, <2>3, <2>4, <2>5, <2>6 DEF InputThere
<1>4. ASSUME NEW l \in Loop, Read(l)
      PROVE  InputThere'
    <2> DEFINE c == cur[l]
    <2>1. /\ pc[l] = "read" /\ data' = [data EXCEPT ![c] = FALSE] /\ urgent' = [urgent EXCEPT ![c] = FALSE]
          /\ UNCHANGED <<loopOf, peer, cur, chs>>
          /\ \E place \in {"close", "message", "empty"} : pc' = [pc EXCEPT ![l] = place]
        BY <1>4 DEF Read, At, Goto, server, ready
    <2>2. c \in Conn /\ loopOf[c] = l /\ c \notin chs[l]
        BY <2>1 DEF InputThere, TypeInv, CurOK
    <2>3. \A d \in Conn : d # c /\ Input(d) => Input(d)'
        BY <2>1, <2>2 DEF Input, Input, Readable, TypeInv, TypeOK
    <2>4. \A k \in Loop : \A d \in chs[k] : d \in Conn /\ loopOf[d] = k
        BY DEF TypeInv, TypeOK, LifeInv, EventsRegistered
    <2>5. \A k \in Loop : c \notin chs[k]
        BY <2>2, <2>4
    <2>6. ASSUME NEW k \in Loop, pc'[k] = "read"
          PROVE  k # l /\ pc[k] = "read" /\ cur[k] \in Conn
        BY <2>1, <2>6 DEF TypeInv, TypeOK, CurOK
    <2>7. \A k \in Loop : pc'[k] = "read" => cur[k] # c
        BY <2>2, <2>6 DEF InputThere
    <2>8. QED
        BY <2>1, <2>3, <2>4, <2>5, <2>6, <2>7 DEF InputThere
<1>5. ASSUME NEW c \in Conn, NEW f \in Fd, Accept(c, f)
      PROVE  InputThere'
    <2>1. /\ c \in Backlog /\ loopOf' = [loopOf EXCEPT ![c] = GetNextLoop]
          /\ pc' = [pc EXCEPT ![Main] = "establish"] /\ cur' = [cur EXCEPT ![Main] = c]
          /\ UNCHANGED <<chs, data, urgent, peer>>
        BY <1>5 DEF Accept, Goto
    <2>2. fdOf[c] = None
        BY <2>1 DEF Backlog
    <2>3. ASSUME NEW l \in Loop, pc'[l] = "read"
          PROVE  l # Main /\ pc[l] = "read" /\ cur'[l] = cur[l] /\ cur[l] \in Conn
        BY <2>1, <2>3 DEF TypeInv, TypeOK, CurOK
    <2>4. \A l \in Loop : pc'[l] = "read" => Held(cur[l]) /\ fdOf[cur[l]] \in Fd
        BY <2>3, HolderIsHeld DEF LifeInv, HeldHasFd
    <2>5. \A l \in Loop : pc'[l] = "read" => cur[l] # c
        BY <2>2, <2>4, ConstantsAssumption
    <2>6. \A l \in Loop : pc'[l] = "read" => loopOf'[cur[l]] = loopOf[cur[l]]
        BY <2>1, <2>3, <2>5 DEF TypeInv, TypeOK
    <2>7. \A d \in Conn : Input(d)' <=> Input(d)
        BY <2>1 DEF Input, Readable
    <2>8. \A l \in Loop : \A d \in chs[l] : d \in Conn
        BY DEF TypeInv, TypeOK
    <2>9. QED
        BY <2>1, <2>3, <2>6, <2>7, <2>8 DEF InputThere
<1>6. ASSUME UNCHANGED <<loopOf, data, urgent, peer, chs>>,
             \A l \in Loop : pc'[l] = "read" => pc[l] = "read" /\ cur'[l] = cur[l]
      PROVE  InputThere'
    BY <1>6, NoReadStep DEF NoRead, Input, Readable
<1> USE DEF TypeInv, TypeOK, At, Goto, Return, CloseReturns, server, kernel, thread, ready
<1>7. ASSUME NEW l \in Loop,
             Message(l) \/ MessageEmpty(l) \/ Reply(l) \/ CloseTest(l) \/ CloseSet(l) \/ CloseNotify(l)
               \/ Swap(l) \/ RunDestroy(l) \/ EndFunctors(l)
      PROVE  InputThere'
    <2>1. UNCHANGED <<loopOf, data, urgent, peer, chs>>
        BY <1>7 DEF Message, MessageEmpty, Reply, CloseTest, CloseSet, CloseNotify, Swap, RunDestroy, EndFunctors
    <2>2. \A k \in Loop : pc'[k] = "read" => pc[k] = "read" /\ cur'[k] = cur[k]
        <3>1. CASE Message(l) \/ MessageEmpty(l) \/ Reply(l) BY <3>1 DEF Message, MessageEmpty, Reply
        <3>2. CASE CloseTest(l) BY ZenonT(60), <3>2 DEF CloseTest
        <3>3. CASE CloseSet(l) BY <3>3 DEF CloseSet
        <3>4. CASE CloseNotify(l) BY <3>4 DEF CloseNotify
        <3>5. CASE Swap(l) \/ RunDestroy(l) \/ EndFunctors(l)
            BY <3>5 DEF Swap, RunDestroy, EndFunctors
        <3>6. QED BY <1>7, <3>1, <3>2, <3>3, <3>4, <3>5
    <2>3. QED
        BY <2>1, <2>2, <1>6
<1>8. CASE AcceptFails \/ Establish \/ EnableReading \/ OnConnection \/ HandleTimers
             \/ ActiveClose \/ TimersDone \/ RunDelete \/ \E c \in Conn : TimerFires(c)
    <2>1. UNCHANGED <<loopOf, data, urgent, peer, chs>>
        BY <1>8 DEF AcceptFails, Establish, EnableReading, OnConnection, HandleTimers, ActiveClose,
                    TimersDone, RunDelete, TimerFires
    <2>2. \A k \in Loop : pc'[k] = "read" => pc[k] = "read" /\ cur'[k] = cur[k]
        BY <1>8 DEF AcceptFails, Establish, EnableReading, OnConnection, HandleTimers, ActiveClose,
                    TimersDone, RunDelete, TimerFires
    <2>3. QED
        BY <2>1, <2>2, <1>6
<1>9. CASE UNCHANGED vars
    BY <1>9, <1>6 DEF vars
<1>10. QED
    BY <1>1, <1>2, <1>3, <1>4, <1>5, <1>7, <1>8, <1>9 DEF Next, Step, LoopStep, MainStep

(* An urgent byte is the only input of which recv may get nothing.         *)
UrgentOnly == /\ \A c \in Conn : urgent[c] => c \in Urgent
              /\ \A l \in Loop : pc[l] = "empty" => cur[l] \in Urgent

LEMMA UrgentStep == TypeInv /\ InputThere /\ UrgentOnly /\ [Next]_vars => UrgentOnly'
<1> SUFFICES ASSUME TypeInv, InputThere, UrgentOnly, [Next]_vars
             PROVE  UrgentOnly'
    OBVIOUS
<1> USE MainIsLoop
<1>1. PICK P, C : pc \in [Loop -> P] /\ cur \in [Loop -> C]
    BY DEF TypeInv, TypeOK
<1>2. ASSUME UNCHANGED urgent,
             \A l \in Loop : pc'[l] = "empty" => pc[l] = "empty" /\ cur'[l] = cur[l]
      PROVE  UrgentOnly'
    BY <1>2 DEF UrgentOnly
<1>3. ASSUME NEW c \in Conn, PeerStep(c)
      PROVE  UrgentOnly'
    <2>1. \A d \in Conn : urgent'[d] => urgent[d] \/ d \in Urgent
        BY <1>3 DEF PeerStep, PeerConnects, PeerSends, PeerSendsUrgent, PeerCloses, TypeInv, TypeOK
    <2>2. UNCHANGED <<pc, cur>>
        BY <1>3 DEF PeerStep, PeerConnects, PeerSends, PeerSendsUrgent, PeerCloses, thread
    <2>3. QED
        BY <2>1, <2>2 DEF UrgentOnly
<1>4. ASSUME NEW l \in Loop, Read(l)
      PROVE  UrgentOnly'
    <2> DEFINE c == cur[l]
    <2>1. /\ pc[l] = "read" /\ urgent' = [urgent EXCEPT ![c] = FALSE] /\ cur' = cur
          /\ pc' = [pc EXCEPT ![l] = IF peer[c] = "shut" THEN "close"
                                     ELSE IF data[c] THEN "message" ELSE "empty"]
        BY <1>4 DEF Read, At, Goto
    <2>2. pc'[l] = "empty" => ~Readable(c)
        BY <1>1, <2>1 DEF Readable
    <2>3. Readable(c) \/ urgent[c]
        BY <2>1 DEF InputThere, Input
    <2>4. c \in Conn
        BY <2>1 DEF TypeInv, CurOK
    <2>5. pc'[l] = "empty" => c \in Urgent
        BY <2>2, <2>3, <2>4 DEF UrgentOnly
    <2>6. \A d \in Conn : urgent'[d] => urgent[d]
        BY <2>1 DEF TypeInv, TypeOK
    <2>7. \A k \in Loop : k # l => pc'[k] = pc[k]
        BY <1>1, <2>1
    <2>8. QED
        BY <2>1, <2>5, <2>6, <2>7 DEF UrgentOnly
<1> USE DEF TypeInv, TypeOK, At, Goto, Return, CloseReturns, server, kernel, thread, ready
<1>5. ASSUME NEW l \in Loop,
             Poll(l) \/ Message(l) \/ MessageEmpty(l) \/ Reply(l) \/ CloseTest(l) \/ CloseSet(l)
               \/ CloseNotify(l) \/ Swap(l) \/ RunDestroy(l) \/ EndFunctors(l)
               \/ \E c \in Conn : HandleEvent(l, c)
      PROVE  UrgentOnly'
    <2>1. UNCHANGED urgent
        BY <1>5 DEF Poll, Message, MessageEmpty, Reply, CloseTest, CloseSet, CloseNotify, Swap,
                    RunDestroy, EndFunctors, HandleEvent
    <2>2. \A k \in Loop : pc'[k] = "empty" => pc[k] = "empty" /\ cur'[k] = cur[k]
        <3>1. CASE Message(l) \/ MessageEmpty(l) \/ Reply(l)
            BY <3>1 DEF Message, MessageEmpty, Reply
        <3>2. CASE CloseTest(l) BY ZenonT(60), <3>2 DEF CloseTest
        <3>3. CASE CloseSet(l) BY <3>3 DEF CloseSet
        <3>4. CASE CloseNotify(l) BY <3>4 DEF CloseNotify
        <3>5. CASE Swap(l) \/ RunDestroy(l) \/ EndFunctors(l) \/ \E c \in Conn : HandleEvent(l, c)
            BY <3>5 DEF Swap, RunDestroy, EndFunctors, HandleEvent
        <3>6. CASE Poll(l) BY <3>6 DEF Poll
        <3>7. QED BY <1>5, <3>1, <3>2, <3>3, <3>4, <3>5, <3>6
    <2>3. QED
        BY <1>2, <2>1, <2>2
<1>6. CASE AcceptFails \/ Establish \/ EnableReading \/ OnConnection \/ HandleTimers
             \/ ActiveClose \/ TimersDone \/ RunDelete \/ (\E c \in Conn : TimerFires(c))
             \/ (\E c \in Conn, f \in Fd : Accept(c, f))
    <2>1. UNCHANGED urgent
        BY <1>6 DEF AcceptFails, Establish, EnableReading, OnConnection, HandleTimers, ActiveClose,
                    TimersDone, RunDelete, TimerFires, Accept
    <2>2. \A k \in Loop : pc'[k] = "empty" => pc[k] = "empty" /\ cur'[k] = cur[k]
        BY <1>6 DEF AcceptFails, Establish, EnableReading, OnConnection, HandleTimers, ActiveClose,
                    TimersDone, RunDelete, TimerFires, Accept
    <2>3. QED
        BY <1>2, <2>1, <2>2
<1>7. CASE UNCHANGED vars
    BY <1>2, <1>7 DEF vars
<1>8. QED
    BY <1>3, <1>4, <1>5, <1>6, <1>7 DEF Next, Step, LoopStep, MainStep

EventInv == TypeInv /\ LifeInv /\ InputThere /\ UrgentOnly

LEMMA EventInit == Init => EventInv
<1>1. Init => InputThere /\ UrgentOnly
    BY DEF Init, InputThere, UrgentOnly
<1>2. QED
    BY <1>1, TypeInit, LifeInit DEF EventInv

LEMMA EventStep == EventInv /\ [Next]_vars => EventInv'
BY TypeStep, LifeStep, InputStep, UrgentStep DEF EventInv

(* A read event finds what raised it, though the client, the loops and the *)
(* idle timer go on between epoll_wait and the read, and an enabled write  *)
(* puts a descriptor back on the ready list; and recv gets nothing only    *)
(* from a client that has sent an urgent byte (EPOLLPRI alone).            *)
THEOREM EventsBringInput == StartSpec => []EventHasInput
<1>1. EventInv => EventHasInput
    BY DEF EventInv, InputThere, UrgentOnly, EventHasInput, Input, At
<1>2. QED
    BY <1>1, EventInit, EventStep, StartsAsServer, PTL

(* When no client sends urgent bytes, the assertion of RetrieveAllAsString *)
(* holds: onMessage is never called with an empty recvBuf.                 *)
NoEmptyInput == halted # "input"

THEOREM InputIsNeverEmpty ==
    ASSUME Urgent = {}
    PROVE  StartSpec => []NoEmptyInput
<1>1. Init => NoEmptyInput
    BY DEF Init, NoEmptyInput
<1>2. EventInv /\ NoEmptyInput /\ [Next]_vars => NoEmptyInput'
    <2> SUFFICES ASSUME EventInv, NoEmptyInput, [Next]_vars
                 PROVE  NoEmptyInput'
        OBVIOUS
    <2>1. ASSUME NEW l \in Loop, MessageEmpty(l)
          PROVE  FALSE
        BY <2>1 DEF MessageEmpty, At, EventInv, UrgentOnly
    <2>3. ASSUME NEW l \in Loop, CloseNotify(l)
          PROVE  NoEmptyInput'
        BY <2>3 DEF CloseNotify, DeleteConnectionInLoop, NoEmptyInput
    <2>4. CASE RunDelete
        BY <2>4 DEF RunDelete, DeleteConnectionInLoop, NoEmptyInput
    <2>5. ASSUME NEW l \in Loop, RunDestroy(l)
          PROVE  NoEmptyInput'
        BY <2>5 DEF RunDestroy, NoEmptyInput
    <2>6. CASE AcceptFails
        BY <2>6 DEF AcceptFails, NoEmptyInput
    <2>7. CASE UNCHANGED halted
        BY <2>7 DEF NoEmptyInput
    <2>8. QED
        BY ZenonT(60), <2>1, <2>3, <2>4, <2>5, <2>6, <2>7
           DEF Next, Step, LoopStep, MainStep, PeerStep, vars,
               PeerConnects, PeerSends, PeerSendsUrgent, PeerCloses, Poll, HandleEvent, Read, Message,
               Reply, CloseTest, CloseSet, Swap, EndFunctors, Accept, Establish, EnableReading,
               OnConnection, HandleTimers, TimerFires, ActiveClose, TimersDone
<1>3. QED
    BY <1>1, <1>2, EventInit, EventStep, StartsAsServer, PTL

(***************************************************************************)
(* The removal, in a server without the idle timer or without sub loops.   *)
(* Only the loop of a connection closes it, so a closed connection is, one *)
(* after the other: about to be reported by its loop, in the main loop's   *)
(* queue, in its own loop's queue, and gone; the map has it until it is in *)
(* its loop's queue, and the kernel as long as it is there.                *)
(***************************************************************************)
Used == {"read", "message", "empty", "close", "set", "notify"}
NotQueued(c) == \A l \in Loop : <<"delete", c>> \notin Tasked(l) /\ <<"destroy", c>> \notin Tasked(l)
Unique(s) == \A i, j \in 1 .. Len(s) : s[i] = s[j] => i = j

NoTimers == /\ timers = {} /\ expired = {} /\ "timer" \notin events
            /\ pc[Main] \notin {"timer", "active"} /\ \A l \in Loop : ret[l] # "timer"

(* The timer may find a connection that is closed and no longer registered.*)
UsedAtHome == \A l \in Loop : pc[l] \in Used =>
                 /\ loopOf[cur[l]] = l
                 /\ interest[cur[l]] = "in" \/ (pc[l] # "notify" /\ state[cur[l]] = "Closed")

InTime(c) == \/ c \in timers \cup expired
             \/ pc[Main] \in {"connected", "active"} /\ cur[Main] = c
TimedAreUsed == \A c \in Conn : InTime(c) => interest[c] = "in" \/ state[c] = "Closed"

EnabledLater == /\ \A c \in Conn : interest[c] = "in" => state[c] # "Invalid"
                /\ pc[Main] = "enable" => state[cur[Main]] # "Invalid"

QueuedOnce == \A l \in Loop : /\ Unique(functors[l]) /\ Unique(todo[l])
                              /\ Elements(functors[l]) \cap Elements(todo[l]) = {}

OpenInMap == /\ \A c \in Conn : state[c] = "Connected" => Mapped(c)
             /\ \A l \in Loop : pc[l] = "set" => state[cur[l]] = "Connected"

ClosedInTurn ==
    /\ \A l \in Loop, c \in Conn : pc[l] = "notify" /\ cur[l] = c => Mapped(c) /\ NotQueued(c)
    /\ \A l \in Loop, c \in Conn : <<"delete", c>> \in Tasked(l) =>
           /\ l = Main /\ Mapped(c) /\ interest[c] = "in"
           /\ \A k \in Loop : <<"destroy", c>> \notin Tasked(k)
    /\ \A l \in Loop, c \in Conn : <<"destroy", c>> \in Tasked(l) => interest[c] = "in"

RemovalInv == UsedAtHome /\ EnabledLater /\ QueuedOnce /\ OpenInMap /\ ClosedInTurn /\ RemovedOnce

LEMMA UniqueAppend ==
    ASSUME NEW S, NEW s \in Seq(S), NEW e \in S, Unique(s), e \notin Elements(s)
    PROVE  Unique(Append(s, e))
<1>1. /\ Len(s) \in Nat /\ Len(Append(s, e)) = Len(s) + 1
      /\ \A i \in 1 .. Len(s) : Append(s, e)[i] = s[i]
      /\ Append(s, e)[Len(s) + 1] = e
    BY AppendProperties, LenProperties
<1>2. \A i \in 1 .. Len(s) : s[i] # e
    BY ElementsOf
<1>3. \A i \in 1 .. Len(s) + 1 : i \in 1 .. Len(s) \/ i = Len(s) + 1
    BY <1>1
<1>4. QED
    BY <1>1, <1>2, <1>3 DEF Unique

LEMMA UniqueTail ==
    ASSUME NEW S, NEW s \in Seq(S), s # <<>>, Unique(s)
    PROVE  Unique(Tail(s)) /\ Head(s) \notin Elements(Tail(s))
<1>1. /\ Tail(s) \in Seq(S) /\ Len(Tail(s)) = Len(s) - 1 /\ Len(s) \in Nat /\ Len(s) > 0
      /\ \A i \in 1 .. Len(Tail(s)) : Tail(s)[i] = s[i + 1]
      /\ Head(s) = s[1]
    BY HeadTailProperties, EmptySeq, LenProperties
<1>2. \A i \in 1 .. Len(Tail(s)) : i + 1 \in 1 .. Len(s) /\ 1 \in 1 .. Len(s) /\ i + 1 # 1
    BY <1>1
<1>3. \A i, j \in 1 .. Len(Tail(s)) : i + 1 = j + 1 => i = j
    BY <1>1
<1>4. Elements(Tail(s)) = {Tail(s)[i] : i \in 1 .. Len(Tail(s))}
    BY <1>1, ElementsOf
<1>5. QED
    BY <1>1, <1>2, <1>3, <1>4 DEF Unique

LEMMA QueueOnce ==
    ASSUME TypeInv, QueuedOnce, NEW l \in Loop, NEW task \in Tasks, Queue(l, task),
           task \notin Elements(todo[l]), NEW k \in Loop
    PROVE  Unique(todo'[k])
<1>1. todo[l] \in Seq(Tasks) /\ todo' = [todo EXCEPT ![l] = Append(todo[l], task)]
    BY DEF Queue, TypeInv, TypeOK
<1>2. Unique(Append(todo[l], task)) /\ Unique(todo[k])
    BY <1>1, UniqueAppend DEF QueuedOnce
<1>3. QED
    BY <1>1, <1>2 DEF TypeInv, TypeOK

LEMMA RunOnce ==
    ASSUME TypeInv, QueuedOnce, NEW l \in Loop, NEW kind, Run(l, kind)
    PROVE  /\ \A k \in Loop : Unique(functors'[k]) /\ Elements(functors'[k]) \subseteq Elements(functors[k])
           /\ <<kind, Head(functors[l])[2]>> \in Tasked(l)
           /\ <<kind, Head(functors[l])[2]>> \notin Elements(functors'[l])
           /\ <<kind, Head(functors[l])[2]>> \notin Elements(todo[l])
<1> DEFINE e == <<kind, Head(functors[l])[2]>>
<1>1. functors[l] \in Seq(Tasks) /\ functors[l] # <<>> /\ functors' = [functors EXCEPT ![l] = Tail(functors[l])]
    BY DEF Run, TypeInv, TypeOK
<1>2. Head(functors[l]) \in Tasks /\ Head(functors[l])[1] = kind
    BY <1>1, HeadTailProperties DEF Run
<1>3. Head(functors[l]) = e
    BY <1>2 DEF Tasks
<1>4. Unique(Tail(functors[l])) /\ e \notin Elements(Tail(functors[l]))
    BY <1>1, <1>3, UniqueTail DEF QueuedOnce
<1>5. \A k \in Loop : Unique(functors'[k])
    BY <1>1, <1>4 DEF QueuedOnce, TypeInv, TypeOK
<1>6. \A k \in Loop : Elements(functors'[k]) \subseteq Elements(functors[k])
    BY RunTasks
<1>7. e \in Elements(functors[l])
    BY RunTasks
<1>8. functors'[l] = Tail(functors[l])
    BY <1>1 DEF TypeInv, TypeOK
<1>9. QED
    BY <1>4, <1>5, <1>6, <1>7, <1>8 DEF QueuedOnce, Tasked

(* The timers: HttpServer::onConnection is the only one to add the first.  *)
LEMMA NoTimersStep == ~Http /\ TypeInv /\ NoTimers /\ [Next]_vars => NoTimers'
<1> SUFFICES ASSUME ~Http, TypeInv, NoTimers, [Next]_vars
             PROVE  NoTimers'
    OBVIOUS
<1> USE MainIsLoop DEF NoTimers, At, Goto, Return, CloseReturns, server, kernel, thread, ready, queues, timing,
                       TypeInv, TypeOK, Places
<1>1. ASSUME NEW c \in Conn, PeerStep(c)
      PROVE  NoTimers'
    BY <1>1 DEF PeerStep, PeerConnects, PeerSends, PeerSendsUrgent, PeerCloses
<1>2. ASSUME NEW l \in Loop, Poll(l)
      PROVE  NoTimers'
    BY <1>2 DEF Poll
<1>3. ASSUME NEW l \in Loop, LoopStep(l), ~Poll(l)
      PROVE  NoTimers'
    <2>1. UNCHANGED <<timers, expired, events>>
        BY <1>3 DEF LoopStep, Read, Message, MessageEmpty, Reply, HandleEvent, CloseTest, CloseSet, CloseNotify,
                    Swap, RunDestroy, EndFunctors
    <2>2. pc'[Main] \notin {"timer", "active"}
        BY <1>3 DEF LoopStep, Read, Message, MessageEmpty, Reply, HandleEvent, CloseTest, CloseSet, CloseNotify,
                    Swap, RunDestroy, EndFunctors
    <2>3. \A k \in Loop : ret'[k] # "timer"
        BY <1>3 DEF LoopStep, Read, Message, MessageEmpty, Reply, HandleEvent, CloseTest, CloseSet, CloseNotify,
                    Swap, RunDestroy, EndFunctors
    <2>4. QED
        BY <2>1, <2>2, <2>3
<1>4. CASE MainStep
    BY <1>4 DEF MainStep, Accept, AcceptFails, Establish, EnableReading, OnConnection, HandleTimers,
                ActiveClose, TimersDone, TimerFires, RunDelete
<1>5. CASE UNCHANGED vars
    BY <1>5 DEF vars
<1>6. QED
    BY <1>1, <1>2, <1>3, <1>4, <1>5 DEF Next, Step

(* A connection with a timer is registered until it is released, closed.   *)
LEMMA TimedStep ==
    ASSUME TypeInv, LifeInv, EnabledLater, TimedAreUsed, [Next]_vars
    PROVE  TimedAreUsed'
<1> USE MainIsLoop DEF TimedAreUsed, InTime
<1>1. ASSUME UNCHANGED <<interest, state>>, \A c \in Conn : InTime(c)' => InTime(c)
      PROVE  TimedAreUsed'
    BY <1>1
<1>2. PICK P, C : pc \in [Loop -> P] /\ cur \in [Loop -> C]
    BY DEF TypeInv, TypeOK
<1>3. ASSUME NEW c \in Conn, PeerStep(c)
      PROVE  TimedAreUsed'
    BY <1>1, <1>3 DEF PeerStep, PeerConnects, PeerSends, PeerSendsUrgent, PeerCloses, thread, timing
<1>4. CASE AcceptFails \/ RunDelete \/ UNCHANGED vars
    BY <1>1, <1>4 DEF AcceptFails, RunDelete, vars, kernel, thread, timing
<1>5. ASSUME NEW l \in Loop, LoopStep(l), ~CloseSet(l), ~RunDestroy(l)
      PROVE  TimedAreUsed'
    <2>1. UNCHANGED <<interest, state, timers, expired>>
        BY <1>5 DEF LoopStep, Poll, Read, Message, MessageEmpty, Reply, HandleEvent, CloseTest, CloseNotify, Swap, EndFunctors,
                    kernel, timing
    <2>2. l # Main => pc'[Main] = pc[Main] /\ cur'[Main] = cur[Main]
        BY <1>2, <1>5 DEF LoopStep, Poll, Read, Message, MessageEmpty, Reply, HandleEvent, CloseTest, CloseNotify, Swap, EndFunctors,
                    Goto, Return, CloseReturns, thread
    <2>3. l = Main => pc'[Main] \notin {"connected", "active"}
        <3> SUFFICES ASSUME l = Main
                     PROVE  pc'[Main] \notin {"connected", "active"}
            OBVIOUS
        <3>1. CASE CloseTest(l) \/ CloseNotify(l)
            <4>1. ret[l] \notin {"connected", "active"}
                BY DEF TypeInv, TypeOK
            <4>2. QED
                BY <1>2, <3>1, <4>1 DEF CloseTest, CloseNotify, Goto, CloseReturns
        <3>2. CASE \E c \in Conn : HandleEvent(l, c)
            BY <1>2, <3>2 DEF HandleEvent, Goto
        <3>3. CASE Poll(l) \/ Read(l) \/ Message(l) \/ Reply(l) \/ Swap(l) \/ EndFunctors(l)
            BY <1>2, <3>3 DEF Poll, Read, Message, Reply, Swap, EndFunctors, Goto, Return
        <3>3a. CASE MessageEmpty(l)
            BY <1>2, <3>3a DEF MessageEmpty, At, Goto, Return, thread
        <3>4. QED
            BY <1>5, <3>1, <3>2, <3>3, <3>3a DEF LoopStep
    <2>4. QED
        BY <1>1, <2>1, <2>2, <2>3
<1>6. ASSUME NEW l \in Loop, CloseSet(l)
      PROVE  TimedAreUsed'
    <2>1. \A c \in Conn : state'[c] \in {state[c], "Closed"}
        BY <1>6 DEF CloseSet, TypeInv, TypeOK
    <2>2. UNCHANGED <<interest, timers, expired, cur>> /\ (pc'[Main] = pc[Main] \/ pc'[Main] = "notify")
        BY <1>2, <1>6 DEF CloseSet, Goto, kernel, timing
    <2>3. QED
        BY <2>1, <2>2
<1>7. ASSUME NEW l \in Loop, RunDestroy(l)
      PROVE  TimedAreUsed'
    <2> DEFINE c == Head(functors[l])[2]
    <2>1. /\ Run(l, "destroy") /\ interest' = [interest EXCEPT ![c] = "none"]
          /\ UNCHANGED <<state, timers, expired, pc, cur>>
        BY <1>7 DEF RunDestroy, thread, timing
    <2>2. c \in Conn /\ <<"destroy", c>> \in Tasked(l)
        BY <2>1, RunTasks DEF Tasked
    <2>3. state[c] = "Closed"
        <3>1. <<"destroy", c>>[2] = c
            OBVIOUS
        <3>2. QED
            BY <2>2, <3>1 DEF LifeInv, ClosedFirst
    <2>4. \A d \in Conn : d # c => interest'[d] = interest[d]
        BY <2>1 DEF TypeInv, TypeOK
    <2>5. QED
        BY <2>1, <2>3, <2>4
<1>8. ASSUME NEW c \in Conn, NEW f \in Fd, Accept(c, f)
      PROVE  TimedAreUsed'
    <2>1. state[c] = "Invalid"
        BY <1>8 DEF Accept, Backlog, LifeInv, ClosedFirst
    <2>2. ~InTime(c)
        BY <2>1 DEF EnabledLater
    <2>3. \A d \in Conn : d # c => interest'[d] = interest[d]
        BY <1>8 DEF Accept, TypeInv, TypeOK
    <2>4. UNCHANGED <<state, timers, expired>> /\ pc'[Main] = "establish"
        BY <1>2, <1>8 DEF Accept, Goto, timing
    <2>5. QED
        BY <2>2, <2>3, <2>4
<1>9. CASE Establish
    <2> DEFINE c == cur[Main]
    <2>1. state[c] = "Invalid" /\ interest[c] = "et"
        BY <1>9 DEF Establish, At, LifeInv, SettingUp
    <2>2. \A d \in Conn : d # c => state'[d] = state[d]
        BY <1>9 DEF Establish, TypeInv, TypeOK
    <2>3. UNCHANGED <<interest, timers, expired>> /\ pc'[Main] = "enable"
        BY <1>2, <1>9 DEF Establish, Goto, kernel, timing
    <2>4. QED
        BY <2>1, <2>2, <2>3
<1>10. CASE EnableReading
    <2> DEFINE c == cur[Main]
    <2>1. c \in Conn
        BY <1>10 DEF EnableReading, At, TypeInv, CurOK
    <2>2. \A d \in Conn : interest'[d] = IF d = c THEN "in" ELSE interest[d]
        BY <1>10, <2>1 DEF EnableReading, TypeInv, TypeOK
    <2>3. UNCHANGED <<state, timers, expired, cur>>
        BY <1>10 DEF EnableReading, timing
    <2>4. QED
        BY <2>2, <2>3
<1>11. CASE OnConnection
    <2>1. pc'[Main] = "handle" /\ pc[Main] = "connected" /\ UNCHANGED <<interest, state, expired>>
        BY <1>2, <1>11 DEF OnConnection, Return, Goto, At, kernel
    <2>2. timers' \subseteq timers \cup {cur[Main]}
        BY <1>11 DEF OnConnection
    <2>3. QED
        BY <1>1, <2>1, <2>2
<1>12. CASE HandleTimers
    <2>1. pc'[Main] = "timer" /\ UNCHANGED <<interest, state>>
        BY <1>2, <1>12 DEF HandleTimers, Goto, kernel
    <2>2. timers' \cup expired' \subseteq timers
        BY <1>12 DEF HandleTimers
    <2>3. QED
        BY <1>1, <2>1, <2>2
<1>13. CASE ActiveClose
    <2>1. pc'[Main] \in {"close", "timer"} /\ pc[Main] = "active" /\ UNCHANGED <<interest, state, expired>>
        BY <1>2, <1>13 DEF ActiveClose, Return, Goto, At, kernel
    <2>2. timers' \subseteq timers \cup {cur[Main]}
        BY <1>13 DEF ActiveClose
    <2>3. QED
        BY <1>1, <2>1, <2>2
<1>14. CASE TimersDone
    <2>1. pc'[Main] = "handle" /\ UNCHANGED <<interest, state, timers, expired>>
        BY <1>2, <1>14 DEF TimersDone, Goto, kernel, timing
    <2>2. QED
        BY <1>1, <2>1
<1>15. ASSUME NEW c \in Conn, TimerFires(c)
       PROVE  TimedAreUsed'
    <2>1. /\ c \in expired /\ expired' = expired \ {c} /\ UNCHANGED <<interest, state, timers>>
          /\ pc[Main] = "timer"
          /\ \/ pc'[Main] = "active" /\ cur'[Main] = c
             \/ pc'[Main] = "timer"
        BY <1>2, <1>15 DEF TimerFires, Goto, At, kernel
    <2>2. QED
        BY <1>1, <2>1
<1>16. QED
    BY <1>3, <1>4, <1>5, <1>6, <1>7, <1>8, <1>9, <1>10, <1>11, <1>12, <1>13, <1>14, <1>15 DEF Next, Step, MainStep

(* The steps that neither close a connection nor remove one.               *)
Keeping ==
    /\ UNCHANGED <<connections, fdOf, loopOf, state, interest, todo, functors>>
    /\ \A l \in Loop : pc'[l] \in Used =>
           /\ loopOf[cur'[l]] = l
           /\ interest[cur'[l]] = "in" \/ (pc'[l] # "notify" /\ state[cur'[l]] = "Closed")
    /\ \A l \in Loop : pc'[l] = "set" => state[cur'[l]] = "Connected"
    /\ \A l \in Loop : pc'[l] = "notify" => pc[l] = "notify" /\ cur'[l] = cur[l]
    /\ pc'[Main] = "enable" => pc[Main] = "enable" /\ cur'[Main] = cur[Main]
    /\ halted' \in {halted, "accept", "input"}

LEMMA KeepingStep ==
    ASSUME TypeInv, RemovalInv, Keeping
    PROVE  RemovalInv'
<1> USE DEF RemovalInv, Keeping
<1>1. UsedAtHome' /\ EnabledLater'
    BY DEF UsedAtHome, EnabledLater
<1>2. QueuedOnce'
    BY DEF QueuedOnce
<1>3. OpenInMap'
    BY DEF OpenInMap, Mapped
<1>4. ClosedInTurn'
    BY DEF ClosedInTurn, Mapped, NotQueued, Tasked
<1>5. RemovedOnce'
    BY DEF RemovedOnce
<1>6. QED
    BY <1>1, <1>2, <1>3, <1>4, <1>5

(* What deleteConnectionInLoop does with a connection that is in the map.  *)
LEMMA DeletesOnce ==
    ASSUME TypeInv, NEW c \in Conn, Mapped(c), DeleteConnectionInLoop(c)
    PROVE  /\ connections' = [connections EXCEPT ![fdOf[c]] = None]
           /\ Queue(loopOf[c], <<"destroy", c>>)
           /\ UNCHANGED halted
           /\ loopOf[c] \in Loop /\ <<"destroy", c>> \in Tasks
BY ConstantsAssumption DEF DeleteConnectionInLoop, Mapped, TypeInv, TypeOK, Tasks

LEMMA RemovedInTurn ==
    ASSUME TypeInv, LifeInv, RemovalInv, NEW c \in Conn,
           Mapped(c), interest[c] = "in", state[c] = "Closed",
           connections' = [connections EXCEPT ![fdOf[c]] = None],
           UNCHANGED <<fdOf, loopOf, state, interest>>,
           \A k \in Loop : <<"delete", c>> \notin Tasked(k)',
           \A k \in Loop : \A task \in Tasked(k)' : task \in Tasked(k) \/ task = <<"destroy", c>>,
           \A k \in Loop : pc'[k] = "notify" => pc[k] = "notify" /\ cur'[k] = cur[k] /\ cur[k] # c,
           \A k \in Loop : pc'[k] = "set" => pc[k] = "set" /\ cur'[k] = cur[k]
    PROVE  OpenInMap' /\ ClosedInTurn'
<1> USE DEF RemovalInv
<1>1. ASSUME NEW d \in Conn, d # c, Mapped(d)
      PROVE  Mapped(d)'
    BY <1>1 DEF Mapped, TypeInv, TypeOK
<1>2. OpenInMap'
    BY <1>1 DEF OpenInMap
<1>3. ASSUME NEW k \in Loop, NEW d \in Conn, pc'[k] = "notify", cur'[k] = d
      PROVE  Mapped(d)' /\ NotQueued(d)'
    <2>1. cur[k] = d /\ d # c /\ Mapped(d) /\ NotQueued(d)
        BY <1>3 DEF ClosedInTurn
    <2>2. <<"delete", d>> # <<"destroy", c>> /\ <<"destroy", d>> # <<"destroy", c>>
        BY <2>1
    <2>3. NotQueued(d)'
        BY <2>1, <2>2 DEF NotQueued
    <2>4. QED
        BY <1>1, <2>1, <2>3
<1>4. ASSUME NEW k \in Loop, NEW d \in Conn, <<"delete", d>> \in Tasked(k)'
      PROVE  /\ k = Main /\ Mapped(d)' /\ interest'[d] = "in"
             /\ \A j \in Loop : <<"destroy", d>> \notin Tasked(j)'
    <2>1. d # c /\ <<"delete", d>> # <<"destroy", c>>
        BY <1>4
    <2>2. <<"delete", d>> \in Tasked(k) /\ <<"destroy", d>> # <<"destroy", c>>
        BY <1>4, <2>1
    <2>3. QED
        BY <1>1, <2>1, <2>2 DEF ClosedInTurn
<1>5. \A k \in Loop, d \in Conn : <<"destroy", d>> \in Tasked(k)' => interest'[d] = "in"
    <2>1. \A d \in Conn : <<"destroy", d>> = <<"destroy", c>> => d = c
        OBVIOUS
    <2>2. QED
        BY <2>1 DEF ClosedInTurn
<1>6. QED
    BY <1>2, <1>3, <1>4, <1>5 DEF ClosedInTurn

LEMMA CloseSetRemoval ==
    ASSUME TypeInv, LifeInv, RemovalInv, NEW l \in Loop, CloseSet(l)
    PROVE  RemovalInv'
<1> DEFINE c == cur[l]
<1> USE DEF RemovalInv
<1>1. /\ pc[l] = "set" /\ pc' = [pc EXCEPT ![l] = "notify"]
      /\ state' = [state EXCEPT ![c] = "Closed"]
      /\ UNCHANGED <<connections, fdOf, loopOf, interest, cur, todo, functors, halted>>
    BY DEF CloseSet, At, Goto, server, kernel, queues
<1>2. c \in Conn /\ state[c] = "Connected" /\ Mapped(c) /\ loopOf[c] = l
    BY <1>1 DEF TypeInv, CurOK, OpenInMap, UsedAtHome, Used
<1>3. NotQueued(c)
    <2>1. <<"delete", c>>[2] = c /\ <<"destroy", c>>[2] = c
        OBVIOUS
    <2>2. QED
        BY <1>2, <2>1 DEF NotQueued, LifeInv, ClosedFirst
<1>4. \A k \in Loop : pc'[k] = IF k = l THEN "notify" ELSE pc[k]
    BY <1>1 DEF TypeInv, TypeOK
<1>5. \A d \in Conn : state'[d] = IF d = c THEN "Closed" ELSE state[d]
    BY <1>1, <1>2 DEF TypeInv, TypeOK
<1>6. UsedAtHome'
    <2> SUFFICES ASSUME NEW k \in Loop, pc'[k] \in Used
                 PROVE  /\ loopOf'[cur'[k]] = k
                        /\ interest'[cur'[k]] = "in" \/ (pc'[k] # "notify" /\ state'[cur'[k]] = "Closed")
        BY DEF UsedAtHome
    <2>1. CASE k = l
        <3>1. interest[c] = "in"
            BY <1>1, <1>2 DEF UsedAtHome, Used
        <3>2. QED
            BY <1>1, <1>2, <2>1, <3>1
    <2>2. CASE k # l
        <3>1. pc'[k] = pc[k] /\ pc[k] \in Used /\ cur[k] \in Conn
            BY <1>4, <2>2 DEF TypeInv, CurOK, Used
        <3>2. state[cur[k]] = "Closed" => state'[cur[k]] = "Closed"
            BY <1>5, <3>1
        <3>3. QED
            BY <1>1, <3>1, <3>2 DEF UsedAtHome
    <2>3. QED
        BY <2>1, <2>2
<1>7. EnabledLater'
    <2>1. pc'[Main] = "enable" => pc[Main] = "enable" /\ cur[Main] \in Conn
        BY <1>4, MainIsLoop DEF TypeInv, CurOK
    <2>2. QED
        BY <1>1, <1>5, <2>1 DEF EnabledLater
<1>8. QueuedOnce' /\ RemovedOnce'
    BY <1>1 DEF QueuedOnce, RemovedOnce
<1>9. OpenInMap'
    <2>1. ASSUME NEW k \in Loop, pc'[k] = "set"
          PROVE  state'[cur'[k]] = "Connected"
        <3>1. k # l /\ pc[k] = "set" /\ cur[k] \in Conn
            BY <2>1, <1>4 DEF TypeInv, CurOK
        <3>2. loopOf[cur[k]] = k /\ state[cur[k]] = "Connected"
            BY <3>1 DEF UsedAtHome, Used, OpenInMap
        <3>3. QED
            BY <1>1, <1>2, <1>5, <3>1, <3>2
    <2>2. \A d \in Conn : state'[d] = "Connected" => Mapped(d)'
        BY <1>1, <1>5 DEF OpenInMap, Mapped
    <2>3. QED
        BY <2>1, <2>2 DEF OpenInMap
<1>10. ClosedInTurn'
    BY <1>1, <1>2, <1>3, <1>4 DEF ClosedInTurn, Mapped, NotQueued, Tasked
<1>11. QED
    BY <1>6, <1>7, <1>8, <1>9, <1>10

LEMMA CloseNotifyRemoval ==
    ASSUME TypeInv, LifeInv, RemovalInv, NEW l \in Loop, CloseNotify(l)
    PROVE  RemovalInv'
<1> DEFINE c == cur[l]
<1> USE DEF RemovalInv
<1>1. /\ pc[l] = "notify" /\ UNCHANGED <<fdOf, loopOf, state, interest, functors>>
      /\ pc' = [pc EXCEPT ![l] = ret[l]]
      /\ cur' = IF ret[l] = "message" THEN cur ELSE [cur EXCEPT ![l] = None]
    BY DEF CloseNotify, CloseReturns, At, Goto, kernel
<1>2. /\ c \in Conn /\ state[c] = "Closed" /\ Mapped(c) /\ NotQueued(c)
      /\ loopOf[c] = l /\ interest[c] = "in"
    BY <1>1 DEF TypeInv, CurOK, LifeInv, ClosedFirst, ClosedInTurn, UsedAtHome, Used
<1>3. ret[l] \in {"handle", "message", "timer"} /\ \A k \in Loop : pc'[k] = IF k = l THEN ret[l] ELSE pc[k]
    BY <1>1 DEF TypeInv, TypeOK
<1>4. \A k \in Loop : k # l \/ ret[l] = "message" => cur'[k] = cur[k]
    BY <1>1 DEF TypeInv, TypeOK
<1>5. UsedAtHome'
    <2> SUFFICES ASSUME NEW k \in Loop, pc'[k] \in Used
                 PROVE  /\ loopOf'[cur'[k]] = k
                        /\ interest'[cur'[k]] = "in" \/ (pc'[k] # "notify" /\ state'[cur'[k]] = "Closed")
        BY DEF UsedAtHome
    <2>1. cur'[k] = cur[k] /\ (k = l \/ (pc'[k] = pc[k] /\ pc[k] \in Used))
        BY <1>1, <1>3, <1>4 DEF Used
    <2>2. QED
        BY <1>1, <1>2, <2>1 DEF UsedAtHome
<1>6. EnabledLater'
    <2>1. pc'[Main] = "enable" => pc[Main] = "enable" /\ cur'[Main] = cur[Main]
        BY <1>3, <1>4, MainIsLoop
    <2>2. QED
        BY <1>1, <2>1 DEF EnabledLater
<1>7. \A k \in Loop : pc'[k] = "notify" => pc[k] = "notify" /\ cur'[k] = cur[k] /\ cur[k] # c
    <2> SUFFICES ASSUME NEW k \in Loop, pc'[k] = "notify"
                 PROVE  pc[k] = "notify" /\ cur'[k] = cur[k] /\ cur[k] # c
        OBVIOUS
    <2>1. k # l /\ pc[k] = "notify" /\ cur'[k] = cur[k]
        BY <1>3, <1>4
    <2>2. QED
        BY <1>2, <2>1 DEF UsedAtHome, Used
<1>8. \A k \in Loop : pc'[k] = "set" => pc[k] = "set" /\ cur'[k] = cur[k]
    BY <1>3, <1>4
<1>9. CASE l = Main
    <2>1. DeleteConnectionInLoop(c)
        BY <1>9 DEF CloseNotify
    <2>2. /\ connections' = [connections EXCEPT ![fdOf[c]] = None]
          /\ Queue(l, <<"destroy", c>>)
          /\ UNCHANGED halted /\ <<"destroy", c>> \in Tasks
        BY <1>2, <2>1, DeletesOnce
    <2>3. <<"destroy", c>> \notin Elements(todo[l]) /\ <<"destroy", c>> \notin Elements(functors[l])
        BY <1>2 DEF NotQueued, Tasked
    <2>4. \A k \in Loop : /\ Unique(todo'[k])
                          /\ Elements(todo'[k]) = Elements(todo[k]) \cup (IF k = l THEN {<<"destroy", c>>} ELSE {})
        BY <2>2, <2>3, QueueOnce, QueueTasks
    <2>5. QueuedOnce'
        BY <1>1, <2>3, <2>4 DEF QueuedOnce
    <2>6. \A k \in Loop : <<"delete", c>> \notin Tasked(k)'
        BY <1>1, <1>2, <2>4 DEF NotQueued, Tasked
    <2>7. \A k \in Loop : \A task \in Tasked(k)' : task \in Tasked(k) \/ task = <<"destroy", c>>
        BY <1>1, <2>4 DEF Tasked
    <2>8. OpenInMap' /\ ClosedInTurn'
        BY <1>1, <1>2, <1>7, <1>8, <2>2, <2>6, <2>7, RemovedInTurn
    <2>9. QED
        BY <1>5, <1>6, <2>2, <2>5, <2>8 DEF RemovedOnce
<1>10. CASE l # Main
    <2>1. Queue(Main, <<"delete", c>>) /\ UNCHANGED <<connections, halted>> /\ <<"delete", c>> \in Tasks
        BY <1>2, <1>10 DEF CloseNotify, Tasks
    <2>2. <<"delete", c>> \notin Elements(todo[Main]) /\ <<"delete", c>> \notin Elements(functors[Main])
        BY <1>2, MainIsLoop DEF NotQueued, Tasked
    <2>3. \A k \in Loop : /\ Unique(todo'[k])
                          /\ Elements(todo'[k]) = Elements(todo[k]) \cup (IF k = Main THEN {<<"delete", c>>} ELSE {})
        BY <2>1, <2>2, MainIsLoop, QueueOnce, QueueTasks
    <2>4. QueuedOnce'
        BY <1>1, <2>2, <2>3 DEF QueuedOnce
    <2>5. \A k \in Loop : Tasked(k)' = Tasked(k) \cup (IF k = Main THEN {<<"delete", c>>} ELSE {})
        BY <1>1, <2>3 DEF Tasked
    <2>6. \A d : Mapped(d)' <=> Mapped(d)
        BY <1>1, <2>1 DEF Mapped
    <2>7. OpenInMap'
        BY <1>1, <1>8, <2>6 DEF OpenInMap
    <2>8. ASSUME NEW k \in Loop, NEW d \in Conn, pc'[k] = "notify", cur'[k] = d
          PROVE  Mapped(d)' /\ NotQueued(d)'
        <3>1. cur[k] = d /\ d # c /\ Mapped(d) /\ NotQueued(d)
            BY <1>7, <2>8 DEF ClosedInTurn
        <3>2. <<"delete", d>> # <<"delete", c>> /\ <<"destroy", d>> # <<"delete", c>>
            BY <3>1
        <3>3. NotQueued(d)'
            BY <2>5, <3>1, <3>2 DEF NotQueued
        <3>4. QED
            BY <2>6, <3>1, <3>3
    <2>9. ASSUME NEW k \in Loop, NEW d \in Conn, <<"delete", d>> \in Tasked(k)'
          PROVE  /\ k = Main /\ Mapped(d)' /\ interest'[d] = "in"
                 /\ \A j \in Loop : <<"destroy", d>> \notin Tasked(j)'
        <3>1. /\ \A j \in Loop : <<"destroy", d>> \in Tasked(j)' => <<"destroy", d>> \in Tasked(j)
              /\ <<"delete", d>> \in Tasked(k) \/ (k = Main /\ d = c)
            BY <2>5, <2>9
        <3>2. CASE <<"delete", d>> \in Tasked(k)
            BY <1>1, <2>6, <3>1, <3>2 DEF ClosedInTurn
        <3>3. CASE k = Main /\ d = c
            BY <1>1, <1>2, <2>6, <3>1, <3>3 DEF NotQueued
        <3>4. QED
            BY <3>1, <3>2, <3>3
    <2>10. ASSUME NEW k \in Loop, NEW d \in Conn, <<"destroy", d>> \in Tasked(k)'
           PROVE  interest'[d] = "in"
        <3>1. <<"destroy", d>> \in Tasked(k)
            BY <2>5, <2>10
        <3>2. QED
            BY <1>1, <3>1 DEF ClosedInTurn
    <2>11. QED
        BY <1>5, <1>6, <2>1, <2>4, <2>7, <2>8, <2>9, <2>10 DEF ClosedInTurn, RemovedOnce
<1>11. QED
    BY <1>9, <1>10

LEMMA RunDeleteRemoval ==
    ASSUME TypeInv, LifeInv, RemovalInv, RunDelete
    PROVE  RemovalInv'
<1> DEFINE c == Head(functors[Main])[2]
<1> USE MainIsLoop DEF RemovalInv
<1>1. /\ Run(Main, "delete") /\ DeleteConnectionInLoop(c)
      /\ UNCHANGED <<fdOf, loopOf, state, interest, pc, cur>>
    BY DEF RunDelete, kernel, thread
<1>2. /\ c \in Conn /\ <<"delete", c>> \in Tasked(Main)
      /\ <<"delete", c>> \notin Elements(functors'[Main])
      /\ <<"delete", c>> \notin Elements(todo[Main])
      /\ \A k \in Loop : Unique(functors'[k]) /\ Elements(functors'[k]) \subseteq Elements(functors[k])
    BY <1>1, RunOnce, RunTasks
<1>3. /\ Mapped(c) /\ interest[c] = "in" /\ state[c] = "Closed"
      /\ \A k \in Loop : <<"destroy", c>> \notin Tasked(k)
      /\ \A k \in Loop : k # Main => <<"delete", c>> \notin Tasked(k)
    <2>1. <<"delete", c>>[2] = c
        OBVIOUS
    <2>2. QED
        BY <1>2, <2>1 DEF ClosedInTurn, LifeInv, ClosedFirst
<1>4. /\ connections' = [connections EXCEPT ![fdOf[c]] = None]
      /\ Queue(loopOf[c], <<"destroy", c>>) /\ UNCHANGED halted
      /\ loopOf[c] \in Loop /\ <<"destroy", c>> \in Tasks
    BY <1>1, <1>2, <1>3, DeletesOnce
<1>5. \A k \in Loop :
         /\ Unique(todo'[k])
         /\ Elements(todo'[k]) = Elements(todo[k]) \cup (IF k = loopOf[c] THEN {<<"destroy", c>>} ELSE {})
    BY <1>3, <1>4, QueueOnce, QueueTasks DEF Tasked
<1>6. QueuedOnce'
    <2>1. \A k \in Loop : <<"destroy", c>> \notin Elements(functors'[k])
        BY <1>2, <1>3 DEF Tasked
    <2>2. QED
        BY <1>2, <1>5, <2>1 DEF QueuedOnce
<1>7. \A k \in Loop : <<"delete", c>> \notin Tasked(k)'
    <2>1. <<"delete", c>> # <<"destroy", c>>
        OBVIOUS
    <2>2. QED
        BY <1>2, <1>3, <1>5, <2>1 DEF Tasked
<1>8. \A k \in Loop : \A task \in Tasked(k)' : task \in Tasked(k) \/ task = <<"destroy", c>>
    BY <1>2, <1>5 DEF Tasked
<1>9. \A k \in Loop : pc[k] = "notify" => cur[k] # c
    BY <1>2 DEF ClosedInTurn, NotQueued
<1>10. OpenInMap' /\ ClosedInTurn'
    BY ZenonT(60), <1>1, <1>2, <1>3, <1>4, <1>7, <1>8, <1>9, RemovedInTurn
<1>11. UsedAtHome' /\ EnabledLater'
    BY <1>1 DEF UsedAtHome, EnabledLater
<1>12. QED
    BY <1>4, <1>6, <1>10, <1>11 DEF RemovedOnce

LEMMA RunDestroyRemoval ==
    ASSUME TypeInv, LifeInv, RemovalInv, NEW l \in Loop, RunDestroy(l)
    PROVE  RemovalInv'
<1> DEFINE c == Head(functors[l])[2]
<1> USE DEF RemovalInv
<1>1. /\ Run(l, "destroy") /\ pc[l] = "run"
      /\ interest' = [interest EXCEPT ![c] = "none"]
      /\ halted' = IF interest[c] = "none" THEN "epoll" ELSE halted
      /\ UNCHANGED <<connections, fdOf, loopOf, state, pc, cur, todo>>
    BY DEF RunDestroy, Run, At, server, thread
<1>2. /\ c \in Conn /\ <<"destroy", c>> \in Tasked(l)
      /\ <<"destroy", c>> \notin Elements(functors'[l])
      /\ <<"destroy", c>> \notin Elements(todo[l])
      /\ \A k \in Loop : Unique(functors'[k]) /\ Elements(functors'[k]) \subseteq Elements(functors[k])
    BY <1>1, RunOnce, RunTasks
<1>3. /\ interest[c] = "in" /\ loopOf[c] = l
      /\ \A k \in Loop : <<"delete", c>> \notin Tasked(k)
      /\ \A k \in Loop : k # l => <<"destroy", c>> \notin Tasked(k)
    BY <1>2 DEF ClosedInTurn, LifeInv, DestroyAtHome
<1>4. \A k \in Loop : Tasked(k)' \subseteq Tasked(k)
    BY <1>1, <1>2 DEF Tasked
<1>5. \A k \in Loop : <<"destroy", c>> \notin Tasked(k)'
    BY <1>1, <1>2, <1>3, <1>4 DEF Tasked
<1>6. \A d \in Conn : d # c => interest'[d] = interest[d]
    BY <1>1 DEF TypeInv, TypeOK
<1>7. \A k \in Loop : pc[k] \in Used => cur[k] \in Conn /\ cur[k] # c
    BY <1>1, <1>3 DEF UsedAtHome, Used, TypeInv, CurOK
<1>8. UsedAtHome'
    BY <1>1, <1>6, <1>7 DEF UsedAtHome
<1>9. EnabledLater'
    BY <1>1, <1>2 DEF EnabledLater, TypeInv, TypeOK
<1>10. QueuedOnce'
    BY <1>1, <1>2 DEF QueuedOnce
<1>11. OpenInMap'
    BY <1>1 DEF OpenInMap, Mapped
<1>12. ClosedInTurn'
    <2>1. \A d : Mapped(d)' <=> Mapped(d)
        BY <1>1 DEF Mapped
    <2>2. \A k \in Loop, d \in Conn : pc'[k] = "notify" /\ cur'[k] = d => Mapped(d)' /\ NotQueued(d)'
        BY <1>1, <1>4, <2>1 DEF ClosedInTurn, NotQueued
    <2>3. ASSUME NEW k \in Loop, NEW d \in Conn, <<"delete", d>> \in Tasked(k)'
          PROVE  /\ k = Main /\ Mapped(d)' /\ interest'[d] = "in"
                 /\ \A j \in Loop : <<"destroy", d>> \notin Tasked(j)'
        <3>1. <<"delete", d>> \in Tasked(k) /\ d # c
            BY <1>3, <1>4, <2>3
        <3>2. QED
            BY <1>4, <1>6, <2>1, <3>1 DEF ClosedInTurn
    <2>4. ASSUME NEW k \in Loop, NEW d \in Conn, <<"destroy", d>> \in Tasked(k)'
          PROVE  interest'[d] = "in"
        <3>1. <<"destroy", d>> \in Tasked(k) /\ d # c
            BY <1>4, <1>5, <2>4
        <3>2. QED
            BY <1>6, <3>1 DEF ClosedInTurn
    <2>5. QED
        BY <2>2, <2>3, <2>4 DEF ClosedInTurn
<1>13. RemovedOnce'
    BY <1>1, <1>3 DEF RemovedOnce
<1>14. QED
    BY <1>8, <1>9, <1>10, <1>11, <1>12, <1>13

LEMMA SwapRemoval ==
    ASSUME TypeInv, LifeInv, RemovalInv, NEW l \in Loop, Swap(l)
    PROVE  RemovalInv'
<1> USE DEF RemovalInv
<1>1. /\ pc[l] = "handle" /\ pc' = [pc EXCEPT ![l] = "run"]
      /\ functors' = [functors EXCEPT ![l] = todo[l]] /\ todo' = [todo EXCEPT ![l] = <<>>]
      /\ UNCHANGED <<connections, fdOf, loopOf, state, interest, cur, halted>>
    BY DEF Swap, At, Goto, server, kernel
<1>2. \A k \in Loop : Tasked(k)' = Tasked(k)
    BY <1>1, SwapTasks DEF LifeInv, Phases
<1>3. \A k \in Loop : pc'[k] = IF k = l THEN "run" ELSE pc[k]
    BY <1>1 DEF TypeInv, TypeOK
<1>4. UsedAtHome' /\ EnabledLater'
    BY <1>1, <1>3, MainIsLoop DEF UsedAtHome, EnabledLater, Used
<1>5. QueuedOnce'
    <2>1. Unique(<<>>) /\ Elements(<<>>) = {}
        BY ElementsEmpty DEF Unique
    <2>2. QED
        BY <1>1, <2>1 DEF QueuedOnce, TypeInv, TypeOK
<1>6. OpenInMap' /\ RemovedOnce'
    BY <1>1, <1>3 DEF OpenInMap, Mapped, RemovedOnce
<1>7. ClosedInTurn'
    BY <1>1, <1>2, <1>3 DEF ClosedInTurn, Mapped, NotQueued
<1>8. QED
    BY <1>4, <1>5, <1>6, <1>7

LEMMA AcceptRemoval ==
    ASSUME TypeInv, LifeInv, RemovalInv, NEW c \in Conn, NEW f \in Fd, Accept(c, f)
    PROVE  RemovalInv'
<1> USE MainIsLoop DEF RemovalInv
<1>1. /\ c \in Backlog /\ fdOf' = [fdOf EXCEPT ![c] = f]
      /\ loopOf' = [loopOf EXCEPT ![c] = GetNextLoop]
      /\ interest' = [interest EXCEPT ![c] = "et"]
      /\ pc' = [pc EXCEPT ![Main] = "establish"] /\ cur' = [cur EXCEPT ![Main] = c]
      /\ UNCHANGED <<connections, state, todo, functors, halted>>
    BY DEF Accept, Goto, queues
<1>2. state[c] = "Invalid"
    BY <1>1 DEF Backlog, LifeInv, ClosedFirst
<1>3. \A d \in Conn : state[d] # "Invalid" =>
          d # c /\ fdOf'[d] = fdOf[d] /\ loopOf'[d] = loopOf[d] /\ interest'[d] = interest[d]
    BY <1>1, <1>2 DEF TypeInv, TypeOK
<1>4. \A k \in Loop : pc'[k] \in Used \cup {"enable"} =>
          /\ k # Main /\ pc[k] = pc'[k] /\ cur'[k] = cur[k] /\ cur[k] \in Conn
    BY <1>1 DEF TypeInv, TypeOK, CurOK, Used
<1>5. \A k \in Loop : pc'[k] \in Used => state[cur[k]] # "Invalid"
    BY <1>4 DEF UsedAtHome, EnabledLater, TypeInv, CurOK
<1>6. UsedAtHome'
    BY <1>1, <1>3, <1>4, <1>5 DEF UsedAtHome
<1>7. EnabledLater'
    BY <1>1, <1>2, <1>4 DEF EnabledLater, TypeInv, TypeOK
<1>8. QueuedOnce' /\ RemovedOnce'
    BY <1>1 DEF QueuedOnce, RemovedOnce
<1>9. \A d \in Conn : Mapped(d) /\ state[d] # "Invalid" => Mapped(d)'
    BY <1>1, <1>3 DEF Mapped
<1>10. OpenInMap'
    BY <1>1, <1>4, <1>9 DEF OpenInMap, Used
<1>11. \A k \in Loop : Tasked(k)' = Tasked(k)
    BY <1>1 DEF Tasked
<1>12. \A k \in Loop, d \in Conn : <<"delete", d>> \in Tasked(k) \/ <<"destroy", d>> \in Tasked(k)
                                   => state[d] = "Closed"
    <2>1. \A d \in Conn : <<"delete", d>>[2] = d /\ <<"destroy", d>>[2] = d
        OBVIOUS
    <2>2. QED
        BY <2>1 DEF LifeInv, ClosedFirst
<1>13. ClosedInTurn'
    <2>1. \A k \in Loop, d \in Conn : pc'[k] = "notify" /\ cur'[k] = d => Mapped(d)' /\ NotQueued(d)'
        BY <1>4, <1>5, <1>9, <1>11 DEF ClosedInTurn, NotQueued, Used
    <2>2. QED
        BY <1>3, <1>9, <1>11, <1>12, <2>1 DEF ClosedInTurn
<1>14. QED
    BY <1>6, <1>7, <1>8, <1>10, <1>13

LEMMA EstablishRemoval ==
    ASSUME TypeInv, LifeInv, RemovalInv, Establish
    PROVE  RemovalInv'
<1> DEFINE c == cur[Main]
<1> USE MainIsLoop DEF RemovalInv
<1>1. /\ pc[Main] = "establish" /\ pc' = [pc EXCEPT ![Main] = "enable"]
      /\ connections' = [connections EXCEPT ![fdOf[c]] = c]
      /\ state' = [state EXCEPT ![c] = "Connected"]
      /\ UNCHANGED <<fdOf, loopOf, interest, cur, todo, functors, halted>>
    BY DEF Establish, At, Goto, kernel, queues
<1>2. c \in Conn /\ state[c] = "Invalid" /\ interest[c] = "et" /\ Held(c) /\ fdOf[c] \in Fd
    <2>1. c \in Conn /\ state[c] = "Invalid" /\ interest[c] = "et"
        BY <1>1 DEF TypeInv, CurOK, LifeInv, SettingUp
    <2>2. QED
        BY <2>1, HolderIsHeld DEF LifeInv, HeldHasFd
<1>3. ASSUME NEW d \in Conn, Mapped(d)
      PROVE  Mapped(d)'
    <2>1. Held(d)
        BY <1>3, HolderIsHeld DEF Mapped
    <2>2. d = c \/ fdOf[d] # fdOf[c]
        BY <1>2, <2>1 DEF LifeInv, DistinctFd
    <2>3. QED
        BY <1>1, <1>2, <1>3, <2>2 DEF Mapped, TypeInv, TypeOK
<1>4. Mapped(c)'
    BY <1>1, <1>2 DEF Mapped, TypeInv, TypeOK
<1>5. \A d \in Conn : state'[d] = IF d = c THEN "Connected" ELSE state[d]
    BY <1>1, <1>2 DEF TypeInv, TypeOK
<1>6. \A k \in Loop : pc'[k] = IF k = Main THEN "enable" ELSE pc[k]
    BY <1>1 DEF TypeInv, TypeOK
<1>7. UsedAtHome'
    <2> SUFFICES ASSUME NEW k \in Loop, pc'[k] \in Used
                 PROVE  /\ loopOf'[cur'[k]] = k
                        /\ interest'[cur'[k]] = "in" \/ (pc'[k] # "notify" /\ state'[cur'[k]] = "Closed")
        BY DEF UsedAtHome
    <2>1. pc[k] \in Used /\ pc'[k] = pc[k] /\ cur[k] \in Conn
        BY <1>6 DEF TypeInv, CurOK, Used
    <2>2. /\ loopOf[cur[k]] = k
          /\ interest[cur[k]] = "in" \/ (pc[k] # "notify" /\ state[cur[k]] = "Closed")
        BY <2>1 DEF UsedAtHome
    <2>3. cur[k] # c
        BY <1>2, <2>2
    <2>4. QED
        BY <1>1, <1>5, <2>1, <2>2, <2>3
<1>8. EnabledLater'
    BY <1>1, <1>2, <1>5 DEF EnabledLater
<1>9. QueuedOnce' /\ RemovedOnce'
    BY <1>1 DEF QueuedOnce, RemovedOnce
<1>10. OpenInMap'
    <2>1. \A k \in Loop : pc'[k] = "set" => pc[k] = "set" /\ cur[k] \in Conn
        BY <1>6 DEF TypeInv, CurOK
    <2>2. QED
        BY <1>1, <1>3, <1>4, <1>5, <2>1 DEF OpenInMap
<1>11. ClosedInTurn'
    <2>1. \A k \in Loop : Tasked(k)' = Tasked(k)
        BY <1>1 DEF Tasked
    <2>2. \A k \in Loop : pc'[k] = "notify" => pc[k] = "notify" /\ cur[k] \in Conn
        BY <1>6 DEF TypeInv, CurOK
    <2>3. QED
        BY <1>1, <1>3, <2>1, <2>2 DEF ClosedInTurn, NotQueued
<1>12. QED
    BY <1>7, <1>8, <1>9, <1>10, <1>11

LEMMA EnableRemoval ==
    ASSUME TypeInv, LifeInv, RemovalInv, EnableReading
    PROVE  RemovalInv'
<1> DEFINE c == cur[Main]
<1> USE MainIsLoop DEF RemovalInv
<1>1. /\ pc[Main] = "enable" /\ pc' = [pc EXCEPT ![Main] = "connected"]
      /\ interest' = [interest EXCEPT ![c] = "in"]
      /\ UNCHANGED <<connections, fdOf, loopOf, state, cur, todo, functors, halted>>
    BY DEF EnableReading, At, Goto, server, queues
<1>2. c \in Conn /\ state[c] # "Invalid"
    BY <1>1 DEF TypeInv, CurOK, EnabledLater
<1>3. \A d \in Conn : interest'[d] = IF d = c THEN "in" ELSE interest[d]
    BY <1>1, <1>2 DEF TypeInv, TypeOK
<1>4. \A k \in Loop : pc'[k] = IF k = Main THEN "connected" ELSE pc[k]
    BY <1>1 DEF TypeInv, TypeOK
<1>5. UsedAtHome'
    <2>1. \A k \in Loop : pc'[k] \in Used => pc[k] \in Used /\ cur[k] \in Conn
        BY <1>4 DEF Used, TypeInv, CurOK
    <2>2. QED
        BY <1>1, <1>3, <2>1 DEF UsedAtHome
<1>6. EnabledLater'
    BY <1>1, <1>2, <1>3, <1>4 DEF EnabledLater
<1>7. QueuedOnce' /\ RemovedOnce'
    BY <1>1 DEF QueuedOnce, RemovedOnce
<1>8. OpenInMap'
    BY <1>1, <1>4 DEF OpenInMap, Mapped
<1>9. ClosedInTurn'
    <2>1. \A k \in Loop : Tasked(k)' = Tasked(k)
        BY <1>1 DEF Tasked
    <2>2. \A d : Mapped(d)' <=> Mapped(d)
        BY <1>1 DEF Mapped
    <2>3. \A k \in Loop : pc'[k] = "notify" => pc[k] = "notify"
        BY <1>4
    <2>4. QED
        BY <1>1, <1>3, <2>1, <2>2, <2>3 DEF ClosedInTurn, NotQueued
<1>10. QED
    BY <1>5, <1>6, <1>7, <1>8, <1>9

LEMMA RemovalStep ==
    ASSUME TypeInv, LifeInv, RemovalInv, TimedAreUsed, NoTimers \/ NumSub = 0, [Next]_vars
    PROVE  RemovalInv'
<1> USE MainIsLoop
<1>1. ASSUME NEW l \in Loop, CloseSet(l) \/ CloseNotify(l) \/ RunDestroy(l) \/ Swap(l)
      PROVE  RemovalInv'
    BY <1>1, CloseSetRemoval, CloseNotifyRemoval, RunDestroyRemoval, SwapRemoval
<1>2. CASE RunDelete \/ Establish \/ EnableReading
    BY <1>2, RunDeleteRemoval, EstablishRemoval, EnableRemoval
<1>3. ASSUME NEW c \in Conn, NEW f \in Fd, Accept(c, f)
      PROVE  RemovalInv'
    BY <1>3, AcceptRemoval
<1>4. ASSUME UNCHANGED <<connections, fdOf, loopOf, state, interest, todo, functors, pc, cur>>,
             halted' \in {halted, "accept", "input"}
      PROVE  RemovalInv'
    <2>1. Keeping
        BY <1>4 DEF Keeping, RemovalInv, UsedAtHome, OpenInMap
    <2>2. QED
        BY <2>1, KeepingStep
<1>5. ASSUME UNCHANGED <<connections, fdOf, loopOf, state, interest, todo, functors, halted>>,
             \A l \in Loop : pc'[l] \in Used \cup {"enable"} =>
                 \/ pc'[l] = pc[l] /\ cur'[l] = cur[l]
                 \/ pc'[l] \in {"message", "empty", "close"} /\ pc[l] \in Used /\ cur'[l] = cur[l]
                 \/ pc'[l] = "set" /\ pc[l] = "close" /\ cur'[l] = cur[l] /\ state[cur[l]] # "Closed"
                 \/ /\ pc'[l] \in {"read", "close"} /\ cur'[l] \in Conn /\ loopOf[cur'[l]] = l
                    /\ interest[cur'[l]] = "in" \/ state[cur'[l]] = "Closed"
      PROVE  RemovalInv'
    <2>1. ASSUME NEW l \in Loop, pc'[l] \in Used
          PROVE  /\ loopOf[cur'[l]] = l
                 /\ interest[cur'[l]] = "in" \/ (pc'[l] # "notify" /\ state[cur'[l]] = "Closed")
        BY <1>5, <2>1 DEF RemovalInv, UsedAtHome, Used
    <2>2. ASSUME NEW l \in Loop, pc'[l] = "set"
          PROVE  state[cur'[l]] = "Connected"
        <3>1. CASE pc[l] = "set" /\ cur'[l] = cur[l]
            BY <3>1 DEF RemovalInv, OpenInMap
        <3>2. CASE pc[l] = "close" /\ cur'[l] = cur[l] /\ state[cur[l]] # "Closed"
            <4>1. cur[l] \in Conn /\ interest[cur[l]] = "in"
                BY <3>2 DEF TypeInv, CurOK, RemovalInv, UsedAtHome, Used
            <4>2. state[cur[l]] # "Invalid" /\ state[cur[l]] \in {"Invalid", "Connected", "Closed"}
                BY <4>1 DEF RemovalInv, EnabledLater, TypeInv, TypeOK
            <4>3. QED
                BY <3>2, <4>2
        <3>3. QED
            BY <1>5, <2>2, <3>1, <3>2 DEF Used
    <2>3. \A l \in Loop : pc'[l] \in {"notify", "enable"} => pc'[l] = pc[l] /\ cur'[l] = cur[l]
        BY <1>5 DEF Used
    <2>4. Keeping
        BY <1>5, <2>1, <2>2, <2>3 DEF Keeping
    <2>5. QED
        BY <2>4, KeepingStep
<1>6. ASSUME NEW c \in Conn, PeerStep(c)
      PROVE  RemovalInv'
    BY <1>4, <1>6 DEF PeerStep, PeerConnects, PeerSends, PeerSendsUrgent, PeerCloses, server, thread, queues
<1>7. CASE AcceptFails \/ UNCHANGED vars
    BY <1>4, <1>7 DEF AcceptFails, vars, server, kernel, thread, queues
<1>8. ASSUME NEW l \in Loop, NEW c \in Conn, HandleEvent(l, c)
      PROVE  RemovalInv'
    <2>1. loopOf[c] = l /\ interest[c] = "in"
        BY <1>8 DEF HandleEvent, LifeInv, EventsRegistered
    <2>2. QED
        BY <1>5, <1>8, <2>1 DEF HandleEvent, Goto, server, kernel, queues, TypeInv, TypeOK, Used
<1>9. PICK P, C : pc \in [Loop -> P] /\ cur \in [Loop -> C]
    BY DEF TypeInv, TypeOK
<1>10. ASSUME NEW l \in Loop, Reply(l)
       PROVE  RemovalInv'
    <2>1. UNCHANGED <<connections, fdOf, loopOf, state, interest, todo, functors, halted>>
        BY <1>10 DEF Reply, server, queues
    <2>2. pc[l] = "message" /\ \A k \in Loop : k # l => pc'[k] = pc[k] /\ cur'[k] = cur[k]
        BY <1>9, <1>10 DEF Reply, At, Goto, Return
    <2>3. pc'[l] = "handle" \/ (pc'[l] = "close" /\ cur' = cur)
        BY <1>9, <1>10 DEF Reply, Goto, Return
    <2>4. QED
        BY ONLY <1>5, <2>1, <2>2, <2>3 DEF Used
<1>11. ASSUME NEW l \in Loop, CloseTest(l)
       PROVE  RemovalInv'
    <2>1. UNCHANGED <<connections, fdOf, loopOf, state, interest, todo, functors, halted>>
        BY <1>11 DEF CloseTest, server, kernel, queues
    <2>2. pc[l] = "close" /\ \A k \in Loop : k # l => pc'[k] = pc[k] /\ cur'[k] = cur[k]
        BY <1>9, <1>11 DEF CloseTest, CloseReturns, At, Goto
    <2>3. \/ pc'[l] = "set" /\ cur' = cur /\ state[cur[l]] # "Closed"
          \/ pc'[l] = ret[l] /\ (ret[l] = "message" => cur' = cur)
        BY <1>9, <1>11 DEF CloseTest, CloseReturns, Goto
    <2>4. ret[l] \in {"handle", "message", "timer"}
        BY DEF TypeInv, TypeOK
    <2>5. QED
        BY ONLY <1>5, <2>1, <2>2, <2>3, <2>4 DEF Used
<1> USE DEF At, Goto, Return, CloseReturns, server, kernel, queues, TypeInv, TypeOK, Used
<1>12. ASSUME NEW l \in Loop, Poll(l) \/ Read(l) \/ Message(l) \/ MessageEmpty(l) \/ EndFunctors(l)
      PROVE  RemovalInv'
    <2>1. CASE Poll(l) BY <1>5, <2>1 DEF Poll
    <2>2. CASE Read(l) BY <1>5, <2>2 DEF Read
    <2>3. CASE Message(l) BY <1>5, <2>3 DEF Message
    <2>3a. CASE MessageEmpty(l)
        <3>1. CASE halted' = "input" /\ UNCHANGED thread
            BY <1>4, <2>3a, <3>1 DEF MessageEmpty, thread
        <3>2. CASE Return(l, "handle") /\ UNCHANGED halted
            BY <1>5, <2>3a, <3>2 DEF MessageEmpty
        <3>3. QED
            BY <2>3a, <3>1, <3>2 DEF MessageEmpty
    <2>4. CASE EndFunctors(l)
        <3>1. UNCHANGED <<connections, fdOf, loopOf, state, interest, todo, functors, halted, cur>>
            BY <2>4 DEF EndFunctors
        <3>2. \A k \in Loop : pc'[k] \in Used \cup {"enable"} => pc'[k] = pc[k]
            BY <2>4 DEF EndFunctors
        <3>3. QED
            BY <1>5, <3>1, <3>2
    <2>5. QED BY <1>12, <2>1, <2>2, <2>3, <2>3a, <2>4
<1>13. CASE OnConnection \/ TimersDone \/ HandleTimers
    BY <1>5, <1>13 DEF OnConnection, TimersDone, HandleTimers
<1>14. ASSUME NEW c \in Conn, TimerFires(c)
       PROVE  RemovalInv'
    BY <1>5, <1>14 DEF TimerFires
<1>15. CASE ActiveClose
    <2>1. NumSub = 0 /\ pc[Main] = "active"
        BY <1>15 DEF ActiveClose, NoTimers
    <2>2. cur[Main] \in Conn /\ loopOf[cur[Main]] = Main
        BY <2>1 DEF CurOK, Loop, Main
    <2>3. interest[cur[Main]] = "in" \/ state[cur[Main]] = "Closed"
        BY <2>1, <2>2 DEF TimedAreUsed, InTime
    <2>4. QED
        BY <1>5, <1>15, <2>2, <2>3 DEF ActiveClose
<1>16. QED
    BY <1>1, <1>2, <1>3, <1>6, <1>7, <1>8, <1>10, <1>11, <1>12, <1>13, <1>14, <1>15
       DEF Next, Step, LoopStep, MainStep

LEMMA RemovalInit == Init => NoTimers /\ TimedAreUsed /\ RemovalInv
<1> SUFFICES ASSUME Init
             PROVE  NoTimers /\ TimedAreUsed /\ RemovalInv
    OBVIOUS
<1> USE MainIsLoop, ConstantsAssumption
<1>1. NoTimers /\ TimedAreUsed
    BY DEF Init, NoTimers, TimedAreUsed, InTime
<1>2. \A l \in Loop : Tasked(l) = {}
    BY ElementsEmpty DEF Init, Tasked
<1>3. UsedAtHome /\ EnabledLater
    BY DEF Init, UsedAtHome, EnabledLater, Used
<1>4. QueuedOnce
    <2>1. Unique(<<>>) /\ Elements(<<>>) = {}
        BY ElementsEmpty DEF Unique
    <2>2. QED
        BY <2>1 DEF Init, QueuedOnce
<1>5. OpenInMap /\ ClosedInTurn
    BY <1>2 DEF Init, OpenInMap, ClosedInTurn
<1>6. RemovedOnce
    BY DEF Init, RemovedOnce
<1>7. QED
    BY <1>1, <1>3, <1>4, <1>5, <1>6 DEF RemovalInv

(* Without the idle timer, or with it and without sub loops, a connection  *)
(* is removed once: the assertion of deleteConnectionInLoop and the check  *)
(* of the DEL hold. (With both they do not, as run server_double_close     *)
(* shows.)                                                                 *)
THEOREM RemovalIsOnce ==
    ASSUME ~Http \/ NumSub = 0
    PROVE  StartSpec => []RemovedOnce
<1> DEFINE Inv == /\ TypeInv /\ LifeInv /\ RemovalInv /\ TimedAreUsed
                  /\ NoTimers \/ NumSub = 0
<1>1. Init => Inv
    BY TypeInit, LifeInit, RemovalInit
<1>2. Inv /\ [Next]_vars => Inv'
    <2> SUFFICES ASSUME Inv, [Next]_vars
                 PROVE  Inv'
        OBVIOUS
    <2>1. (NoTimers \/ NumSub = 0)'
        <3>1. CASE NumSub = 0 BY <3>1
        <3>2. CASE NumSub # 0 BY <3>2, NoTimersStep
        <3>3. QED BY <3>1, <3>2
    <2>2. QED
        BY <2>1, TypeStep, LifeStep, RemovalStep, TimedStep DEF RemovalInv
<1>3. Inv => RemovedOnce
    BY DEF RemovalInv
<1>4. QED
    BY <1>1, <1>2, <1>3, StartsAsServer, PTL
=============================================================================
