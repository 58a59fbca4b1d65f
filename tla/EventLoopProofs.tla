--------------------------- MODULE EventLoopProofs ---------------------------
(***************************************************************************)
(* Proofs about EventLoop, for every set of functions and of producers.    *)
(***************************************************************************)
EXTENDS EventLoop, SequenceTheorems, TLAPS

(***************************************************************************)
(* Type correctness.                                                       *)
(***************************************************************************)

(* Every step of the loop and of its producers keeps the variables of      *)
(* EventLoop.cpp in their types.                                           *)
LEMMA TypeStep == TypeOK /\ [Next]_vars => TypeOK'
<1> SUFFICES ASSUME TypeOK, [Next]_vars
             PROVE  TypeOK'
    OBVIOUS
<1> USE DEF TypeOK
<1>1. ASSUME NEW p \in Producer, NEW t \in Task, QueueOneFunc(p, t)
      PROVE  TypeOK'
    BY <1>1 DEF QueueOneFunc, Enqueue
<1>2. ASSUME NEW p \in Producer, ProducerWakes(p)
      PROVE  TypeOK'
    BY <1>2 DEF ProducerWakes, WriteWakeup
<1>3. CASE IoReady
    BY <1>3 DEF IoReady
<1>4. CASE Poll
    BY <1>4 DEF Poll, Ready
<1>5. CASE HandleRead
    BY <1>5 DEF HandleRead
<1>6. CASE HandleIo
    BY <1>6 DEF HandleIo
<1>7. CASE CallbackReturns
    BY <1>7 DEF CallbackReturns
<1>8. CASE BeginFunctors
    BY <1>8 DEF BeginFunctors
<1>9. CASE SwapFunctors
    BY <1>9 DEF SwapFunctors
<1>10. CASE RunFunctor
    <2>1. Head(functors) \in Task /\ Tail(functors) \in Seq(Task)
        BY <1>10, HeadTailProperties DEF RunFunctor
    <2>2. QED
        BY <1>10, <2>1 DEF RunFunctor
<1>11. CASE FunctorReturns
    BY <1>11 DEF FunctorReturns
<1>12. CASE EndFunctors
    BY <1>12 DEF EndFunctors
<1>13. ASSUME NEW t \in Task, LoopRunsDirectly(t)
       PROVE  TypeOK'
    BY <1>13 DEF LoopRunsDirectly
<1>14. ASSUME NEW t \in Task, LoopPosts(t)
       PROVE  TypeOK'
    BY <1>14 DEF LoopPosts, Enqueue
<1>15. CASE LoopWakes
    BY <1>15 DEF LoopWakes, WriteWakeup
<1>16. CASE UNCHANGED vars
    BY <1>16 DEF vars
<1>17. QED
    BY <1>1, <1>2, <1>3, <1>4, <1>5, <1>6, <1>7, <1>8, <1>9, <1>10, <1>11, <1>12,
       <1>13, <1>14, <1>15, <1>16 DEF Next, LoopStep, LoopCalls

(* The variables of the loop always have their types.                      *)
THEOREM TypeCorrect == Spec => []TypeOK
<1>1. ASSUME Init
      PROVE  TypeOK
    <2>1. to_do_list \in Seq(Task) /\ functors \in Seq(Task) /\ ran \in Seq(Task)
        BY <1>1, EmptySeq DEF Init
    <2>2. calling_functors \in BOOLEAN /\ io \in BOOLEAN
        BY <1>1, Zenon DEF Init
    <2>3. wakeup \in Nat /\ chs \in SUBSET {"wakeup", "io"}
        BY <1>1 DEF Init
    <2>4. ppc \in [Producer -> {"idle", "write"}]
        BY <1>1 DEF Init
    <2>5. QED
        BY <1>1, <2>1, <2>2, <2>3, <2>4 DEF Init, TypeOK
<1>2. QED
    BY <1>1, TypeStep, PTL DEF Spec

(***************************************************************************)
(* The wakeup protocol.                                                    *)
(***************************************************************************)

(* calling_functors is up exactly inside DoToDoList, after its first line. *)
CallingFunctors == calling_functors <=> lpc \in {"swap", "run", "functor", "wake"}

(* Wherever the loop's thread is, a queued function is either still ahead  *)
(* of this iteration's swap, or announced on the eventfd, or about to be.  *)
Announced == to_do_list # <<>> => \/ wakeup > 0
                                  \/ \E p \in Producer : ppc[p] = "write"
                                  \/ lpc \in {"handle", "callback", "swap", "wake"}

(* DoToDoList's local copy is empty outside of its for statement.          *)
BatchDone == lpc \in {"poll", "handle", "callback", "swap"} => functors = <<>>

LoopInv == CallingFunctors /\ Announced /\ BatchDone /\ HandleReadNonEmpty

LEMMA LoopInvInit == Init => LoopInv
BY DEF Init, LoopInv, CallingFunctors, Announced, BatchDone, HandleReadNonEmpty

LEMMA LoopInvStep == TypeOK /\ LoopInv /\ [Next]_vars => LoopInv'
<1> SUFFICES ASSUME TypeOK, LoopInv, [Next]_vars
             PROVE  LoopInv'
    OBVIOUS
<1> USE DEF LoopInv, CallingFunctors, Announced, BatchDone, HandleReadNonEmpty, TypeOK
<1>1. ASSUME NEW p \in Producer, NEW t \in Task, QueueOneFunc(p, t)
      PROVE  LoopInv'
    BY <1>1 DEF QueueOneFunc, Enqueue
<1>2. ASSUME NEW p \in Producer, ProducerWakes(p)
      PROVE  LoopInv'
    BY <1>2 DEF ProducerWakes, WriteWakeup
<1>3. CASE IoReady
    BY <1>3 DEF IoReady
<1>4. CASE Poll
    BY <1>4 DEF Poll, Ready
<1>5. CASE HandleRead
    BY <1>5 DEF HandleRead
<1>6. CASE HandleIo
    BY <1>6 DEF HandleIo
<1>7. CASE CallbackReturns
    BY <1>7 DEF CallbackReturns
<1>8. CASE BeginFunctors
    BY <1>8 DEF BeginFunctors
<1>9. CASE SwapFunctors
    BY <1>9 DEF SwapFunctors
<1>10. CASE RunFunctor
    BY <1>10 DEF RunFunctor
<1>11. CASE FunctorReturns
    BY <1>11 DEF FunctorReturns
<1>12. CASE EndFunctors
    BY <1>12 DEF EndFunctors
<1>13. ASSUME NEW t \in Task, LoopRunsDirectly(t)
       PROVE  LoopInv'
    BY <1>13 DEF LoopRunsDirectly
<1>14. ASSUME NEW t \in Task, LoopPosts(t)
       PROVE  LoopInv'
    BY <1>14 DEF LoopPosts, Enqueue, MustWakeup
<1>15. CASE LoopWakes
    BY <1>15 DEF LoopWakes, WriteWakeup
<1>16. CASE UNCHANGED vars
    BY <1>16 DEF vars
<1>17. QED
    BY <1>1, <1>2, <1>3, <1>4, <1>5, <1>6, <1>7, <1>8, <1>9, <1>10, <1>11, <1>12,
       <1>13, <1>14, <1>15, <1>16 DEF Next, LoopStep, LoopCalls

LEMMA LoopInvariant == Spec => []LoopInv
BY TypeCorrect, LoopInvInit, LoopInvStep, PTL DEF Spec

(* The loop never blocks in epoll_wait on a queued function that nobody    *)
(* announces.                                                              *)
THEOREM NoWakeupIsLost == Spec => []NoLostWakeup
<1>1. LoopInv => NoLostWakeup
    BY DEF LoopInv, Announced, NoLostWakeup
<1>2. QED
    BY <1>1, LoopInvariant, PTL

(* The assertion of HandleRead never fails.                                *)
THEOREM HandleReadNeverFails == Spec => []HandleReadNonEmpty
<1>1. LoopInv => HandleReadNonEmpty
    BY DEF LoopInv
<1>2. QED
    BY <1>1, LoopInvariant, PTL

(***************************************************************************)
(* The loop implements the task queue.                                     *)
(***************************************************************************)

(* Queueing a function appends it to what is pending.                      *)
LEMMA ConcatAppend ==
    ASSUME NEW S, NEW s \in Seq(S), NEW u \in Seq(S), NEW e \in S
    PROVE  s \o Append(u, e) = Append(s \o u, e)
<1>1. <<e>> \in Seq(S) /\ s \o u \in Seq(S)
    BY ConcatProperties
<1>2. Append(u, e) = u \o <<e>> /\ Append(s \o u, e) = (s \o u) \o <<e>>
    BY <1>1, AppendIsConcat
<1>3. QED
    BY <1>1, <1>2, ConcatAssociative

(* Running the first function removes the head of what is pending.         *)
LEMMA ConcatTail ==
    ASSUME NEW S, NEW s \in Seq(S), NEW u \in Seq(S), s # <<>>
    PROVE  /\ s \o u # <<>>
           /\ Head(s \o u) = Head(s)
           /\ Tail(s \o u) = Tail(s) \o u
<1>1. s \o u \in Seq(S) /\ Len(s \o u) = Len(s) + Len(u) /\ Len(s) > 0 /\ Len(u) \in Nat
    BY ConcatProperties, EmptySeq, LenProperties
<1>2. s \o u # <<>>
    BY <1>1, EmptySeq
<1>3. Head(s \o u) = Head(s)
    BY <1>1, ConcatProperties
<1>4. Tail(s \o u) \in Seq(S) /\ Tail(s) \o u \in Seq(S)
    BY <1>1, <1>2, HeadTailProperties, ConcatProperties
<1>5. Len(Tail(s \o u)) = Len(Tail(s) \o u)
    BY <1>1, <1>2, HeadTailProperties, ConcatProperties
<1>6. ASSUME NEW i \in 1 .. Len(Tail(s \o u))
      PROVE  Tail(s \o u)[i] = (Tail(s) \o u)[i]
    BY <1>1, <1>2, HeadTailProperties, ConcatProperties, LenProperties
<1>7. Tail(s \o u) = Tail(s) \o u
    BY <1>4, <1>5, <1>6, SeqEqual
<1>8. QED
    BY <1>2, <1>3, <1>7

(* What is pending in the queue's terms is in one of the two lists.        *)
LEMMA ElementsOfConcat ==
    ASSUME NEW S, NEW s \in Seq(S), NEW u \in Seq(S)
    PROVE  Elements(s \o u) \subseteq Elements(s) \cup Elements(u)
<1>1. ASSUME NEW i \in DOMAIN (s \o u)
      PROVE  (s \o u)[i] \in Elements(s) \cup Elements(u)
    <2>1. s \o u \in Seq(S) /\ Len(s \o u) = Len(s) + Len(u) /\ Len(s) \in Nat /\ Len(u) \in Nat
        BY ConcatProperties, LenProperties
    <2>2. i \in 1 .. Len(s) + Len(u) /\ DOMAIN s = 1 .. Len(s) /\ DOMAIN u = 1 .. Len(u)
        BY <1>1, <2>1, LenProperties
    <2>3. (s \o u)[i] = IF i <= Len(s) THEN s[i] ELSE u[i - Len(s)]
        BY <2>2, ConcatProperties
    <2>4. CASE i <= Len(s)
        BY <2>1, <2>2, <2>3, <2>4 DEF Elements
    <2>5. CASE ~(i <= Len(s))
        <3>1. i - Len(s) \in DOMAIN u
            BY <2>1, <2>2, <2>5
        <3>2. QED
            BY <2>3, <2>5, <3>1 DEF Elements
    <2>6. QED
        BY <2>4, <2>5
<1>2. QED
    BY <1>1 DEF Elements

LEMMA FreshMaps ==
    ASSUME TypeOK, NEW t \in Task, Fresh(t)
    PROVE  Queue!Fresh(t)
BY ElementsOfConcat DEF TypeOK, Fresh, Elements, Queue!Fresh, Queue!Elements

(* Every step of the loop and of its producers is a step of the queue, or  *)
(* changes nothing the queue sees.                                         *)
LEMMA QueueStep == TypeOK /\ LoopInv /\ [Next]_vars => [Queue!Next]_(Queue!vars)
<1> SUFFICES ASSUME TypeOK, LoopInv, [Next]_vars
             PROVE  [Queue!Next]_(Queue!vars)
    OBVIOUS
<1> USE DEF Queue!vars
<1>1. ASSUME NEW t \in Task, Enqueue(t), UNCHANGED <<functors, ran>>
      PROVE  Queue!Next
    <2>1. functors' \o to_do_list' = Append(functors \o to_do_list, t)
        BY <1>1, ConcatAppend DEF Enqueue, TypeOK
    <2>2. Queue!Post(t)
        BY <1>1, <2>1, FreshMaps DEF Enqueue, Queue!Post
    <2>3. QED
        BY <2>2 DEF Queue!Next
<1>2. ASSUME NEW p \in Producer, NEW t \in Task, QueueOneFunc(p, t)
      PROVE  Queue!Next
    BY <1>1, <1>2 DEF QueueOneFunc
<1>3. ASSUME NEW t \in Task, LoopPosts(t)
      PROVE  Queue!Next
    BY <1>1, <1>3 DEF LoopPosts
<1>4. ASSUME NEW t \in Task, LoopRunsDirectly(t)
      PROVE  Queue!Next
    <2>1. Queue!RunDirectly(t)
        BY <1>4, FreshMaps DEF LoopRunsDirectly, Queue!RunDirectly
    <2>2. QED
        BY <2>1 DEF Queue!Next
<1>5. CASE RunFunctor
    <2>1. /\ functors \o to_do_list # <<>>
          /\ Head(functors \o to_do_list) = Head(functors)
          /\ Tail(functors \o to_do_list) = Tail(functors) \o to_do_list
        BY <1>5, ConcatTail DEF RunFunctor, TypeOK
    <2>2. Queue!RunQueued
        BY <1>5, <2>1 DEF RunFunctor, Queue!RunQueued
    <2>3. QED
        BY <2>2 DEF Queue!Next
<1>6. CASE SwapFunctors
    <2>1. functors = <<>> /\ functors' = to_do_list /\ to_do_list' = <<>>
        BY <1>6 DEF SwapFunctors, LoopInv, BatchDone
    <2>2. functors' \o to_do_list' = functors \o to_do_list
        BY <2>1, ConcatEmptySeq DEF TypeOK
    <2>3. QED
        BY <1>6, <2>2 DEF SwapFunctors
<1>7. CASE Poll \/ HandleRead \/ HandleIo \/ CallbackReturns \/ BeginFunctors
    BY <1>7 DEF Poll, HandleRead, HandleIo, CallbackReturns, BeginFunctors
<1>8. CASE FunctorReturns \/ EndFunctors \/ LoopWakes \/ IoReady \/ UNCHANGED vars
    BY <1>8 DEF FunctorReturns, EndFunctors, LoopWakes, IoReady, vars
<1>9. ASSUME NEW p \in Producer, ProducerWakes(p)
      PROVE  UNCHANGED Queue!vars
    BY <1>9 DEF ProducerWakes
<1>10. QED
    BY <1>2, <1>3, <1>4, <1>5, <1>6, <1>7, <1>8, <1>9 DEF Next, LoopStep, LoopCalls

(* Safety of the refinement: what is queued runs at most once and in order.*)
THEOREM RunsInOrder == Spec => Queue!Init /\ [][Queue!Next]_(Queue!vars)
<1>1. Init => Queue!Init
    BY DEF Init, Queue!Init
<1>2. QED
    BY <1>1, TypeCorrect, LoopInvariant, QueueStep, PTL DEF Spec
=============================================================================
