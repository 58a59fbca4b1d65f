------------------------------ MODULE EventLoop ------------------------------
(***************************************************************************)
(* One EventLoop (src/day23/tcp/EventLoop.cpp): the thread that runs       *)
(* loop(), and the other threads, which hand it functions through          *)
(* RunOneFunc/QueueOneFunc and wake it by writing to its eventfd.          *)
(*                                                                         *)
(* The granularity is that of the shared accesses: the critical sections   *)
(* under mtx are one step each, and the write to the eventfd is a step of  *)
(* its own after the unlock.  The wakeup channel is level triggered        *)
(* (Channel::useET is never called on it).                                 *)
(***************************************************************************)
EXTENDS Naturals, Sequences

CONSTANTS
    Task,       \* the functions handed to the loop, each one once
    Producer    \* the threads other than the loop's

VARIABLES
    to_do_list,         \* the queue, guarded by mtx
    functors,           \* DoToDoList's local copy, the function being run removed
    calling_functors,   \* read and written by the loop's thread only
    wakeup,             \* the counter of the eventfd
    io,                 \* some other channel of the loop is ready
    chs,                \* the ready channels still to be handled in this iteration
    lpc,                \* where the loop's thread is
    ppc,                \* where each producer is
    ran                 \* history: the functions run, in order

vars == <<to_do_list, functors, calling_functors, wakeup, io, chs, lpc, ppc, ran>>

Elements(s) == {s[i] : i \in DOMAIN s}

Fresh(t) == t \notin Elements(to_do_list) \cup Elements(functors) \cup Elements(ran)

(* The constructor has run and the loop is about to poll.                  *)
Init == /\ to_do_list = <<>>
        /\ functors = <<>>
        /\ calling_functors = FALSE
        /\ wakeup = 0
        /\ io = FALSE
        /\ chs = {}
        /\ lpc = "poll"
        /\ ppc = [p \in Producer |-> "idle"]
        /\ ran = <<>>

-----------------------------------------------------------------------------
(* The critical section of QueueOneFunc.                                   *)
Enqueue(t) == /\ Fresh(t)
              /\ to_do_list' = Append(to_do_list, t)

(* The write of one to the eventfd.                                        *)
WriteWakeup == wakeup' = wakeup + 1

(* QueueOneFunc (and RunOneFunc, which only forwards to it) on another     *)
(* thread: it is not in the loop's thread, so it will write.               *)
QueueOneFunc(p, t) ==
    /\ ppc[p] = "idle"
    /\ Enqueue(t)
    /\ ppc' = [ppc EXCEPT ![p] = "write"]
    /\ UNCHANGED <<functors, calling_functors, wakeup, io, chs, lpc, ran>>

ProducerWakes(p) ==
    /\ ppc[p] = "write"
    /\ WriteWakeup
    /\ ppc' = [ppc EXCEPT ![p] = "idle"]
    /\ UNCHANGED <<to_do_list, functors, calling_functors, io, chs, lpc, ran>>

-----------------------------------------------------------------------------
(* A channel other than the wakeup channel becomes ready.                  *)
IoReady == /\ ~io
           /\ io' = TRUE
           /\ UNCHANGED <<to_do_list, functors, calling_functors, wakeup, chs, lpc, ppc, ran>>

Ready == {ch \in {"wakeup", "io"} : IF ch = "wakeup" THEN wakeup > 0 ELSE io}

(* epoll_wait blocks, without a timeout, until some channel is ready.      *)
Poll == /\ lpc = "poll"
        /\ Ready # {}
        /\ chs' = Ready
        /\ lpc' = "handle"
        /\ UNCHANGED <<to_do_list, functors, calling_functors, wakeup, io, ppc, ran>>

(* Mutant of HandleRead: the callback is called for EPOLLIN and again for  *)
(* EPOLLPRI, so the counter is read twice.                                 *)
HandleReadTwice == /\ lpc = "handle"
                   /\ "wakeup" \in chs
                   /\ wakeup' = 0
                   /\ UNCHANGED <<to_do_list, functors, calling_functors, io, chs, lpc, ppc, ran>>

(* Mutant of HandleRead: an EFD_SEMAPHORE counter, read once too often.    *)
HandleReadSemaphore ==
    /\ lpc = "handle"
    /\ "wakeup" \in chs
    /\ wakeup' = wakeup - 1
    /\ UNCHANGED <<to_do_list, functors, calling_functors, io, chs, lpc, ppc, ran>>

(* The read of the eventfd takes the whole counter.                        *)
HandleRead == /\ lpc = "handle"
              /\ "wakeup" \in chs
              /\ wakeup' = 0
              /\ chs' = chs \ {"wakeup"}
              /\ UNCHANGED <<to_do_list, functors, calling_functors, io, lpc, ppc, ran>>

(* Another channel's callback starts; what it does to the loop is LoopPosts *)
(* and LoopRunsDirectly.                                                   *)
HandleIo == /\ lpc = "handle"
            /\ "io" \in chs
            /\ io' = FALSE
            /\ chs' = chs \ {"io"}
            /\ lpc' = "callback"
            /\ UNCHANGED <<to_do_list, functors, calling_functors, wakeup, ppc, ran>>

CallbackReturns == /\ lpc = "callback"
                   /\ lpc' = "handle"
                   /\ UNCHANGED <<to_do_list, functors, calling_functors, wakeup, io, chs, ppc, ran>>

-----------------------------------------------------------------------------
(* DoToDoList: raise calling_functors, ...                                 *)
BeginFunctors == /\ lpc = "handle"
                 /\ chs = {}
                 /\ calling_functors' = TRUE
                 /\ lpc' = "swap"
                 /\ UNCHANGED <<to_do_list, functors, wakeup, io, chs, ppc, ran>>

(* Mutant of SwapFunctors: the queue is copied and not emptied.            *)
CopyFunctors == /\ lpc = "swap"
                /\ functors' = to_do_list
                /\ lpc' = "run"
                /\ UNCHANGED <<to_do_list, calling_functors, wakeup, io, chs, ppc, ran>>

(* ... take the whole queue in one critical section, ...                   *)
SwapFunctors == /\ lpc = "swap"
                /\ functors' = to_do_list
                /\ to_do_list' = <<>>
                /\ lpc' = "run"
                /\ UNCHANGED <<calling_functors, wakeup, io, chs, ppc, ran>>

(* ... run each function, ...                                              *)
RunFunctor == /\ lpc = "run"
              /\ functors # <<>>
              /\ ran' = Append(ran, Head(functors))
              /\ functors' = Tail(functors)
              /\ lpc' = "functor"
              /\ UNCHANGED <<to_do_list, calling_functors, wakeup, io, chs, ppc>>

FunctorReturns == /\ lpc = "functor"
                  /\ lpc' = "run"
                  /\ UNCHANGED <<to_do_list, functors, calling_functors, wakeup, io, chs, ppc, ran>>

(* ... and lower calling_functors before polling again.                    *)
EndFunctors == /\ lpc = "run"
               /\ functors = <<>>
               /\ calling_functors' = FALSE
               /\ lpc' = "poll"
               /\ UNCHANGED <<to_do_list, functors, wakeup, io, chs, ppc, ran>>

-----------------------------------------------------------------------------
(* A callback or a function runs user code in the loop's thread. A call of *)
(* RunOneFunc there runs its argument at once; ...                         *)
LoopRunsDirectly(t) ==
    /\ lpc \in {"callback", "functor"}
    /\ Fresh(t)
    /\ ran' = Append(ran, t)
    /\ UNCHANGED <<to_do_list, functors, calling_functors, wakeup, io, chs, lpc, ppc>>

(* Mutant of MustWakeup: only the other threads write.                     *)
NeverInLoopThread == FALSE

(* ... a call of QueueOneFunc writes only while the functions are run: the *)
(* loop swaps the queue after the callbacks anyway.                        *)
MustWakeup == calling_functors

LoopPosts(t) ==
    /\ lpc \in {"callback", "functor"}
    /\ Enqueue(t)
    /\ lpc' = IF MustWakeup THEN "wake" ELSE lpc
    /\ UNCHANGED <<functors, calling_functors, wakeup, io, chs, ppc, ran>>

LoopWakes == /\ lpc = "wake"
             /\ WriteWakeup
             /\ lpc' = "functor"
             /\ UNCHANGED <<to_do_list, functors, calling_functors, io, chs, ppc, ran>>

-----------------------------------------------------------------------------
LoopStep == \/ Poll \/ HandleRead \/ HandleIo \/ CallbackReturns
            \/ BeginFunctors \/ SwapFunctors \/ RunFunctor \/ FunctorReturns \/ EndFunctors
            \/ LoopWakes

LoopCalls(t) == LoopRunsDirectly(t) \/ LoopPosts(t)

Next == \/ LoopStep
        \/ \E t \in Task : LoopCalls(t)
        \/ \E p \in Producer : ProducerWakes(p) \/ \E t \in Task : QueueOneFunc(p, t)
        \/ IoReady

(* The scheduler runs every runnable thread: the loop's thread, and a      *)
(* producer between its unlock and its write. No thread has to post.       *)
Fairness == /\ WF_vars(LoopStep)
            /\ \A p \in Producer : WF_vars(ProducerWakes(p))

Spec == Init /\ [][Next]_vars /\ Fairness

-----------------------------------------------------------------------------
TypeOK == /\ to_do_list \in Seq(Task)
          /\ functors \in Seq(Task)
          /\ calling_functors \in BOOLEAN
          /\ wakeup \in Nat
          /\ io \in BOOLEAN
          /\ chs \in SUBSET {"wakeup", "io"}
          /\ lpc \in {"poll", "handle", "callback", "swap", "run", "functor", "wake"}
          /\ ppc \in [Producer -> {"idle", "write"}]
          /\ ran \in Seq(Task)

(* The loop never sleeps on a queued function: when it is about to block   *)
(* in epoll_wait with a function queued, its eventfd is readable, or the   *)
(* thread that queued the function is about to write to it (QueueOneFunc   *)
(* writes after the unlock; DoToDoList swaps once per iteration).          *)
NoLostWakeup ==
    lpc = "poll" /\ to_do_list # <<>> => wakeup > 0 \/ \E p \in Producer : ppc[p] = "write"

(* HandleRead's assertion: the nonblocking read of the eventfd gives its   *)
(* eight bytes, for the counter is still positive when a wakeup event,     *)
(* collected earlier by epoll_wait, is handled.                            *)
HandleReadNonEmpty == "wakeup" \in chs => wakeup > 0

(* The loop implements the task queue: what is queued runs once, in order, *)
(* and eventually.                                                         *)
Queue == INSTANCE TaskQueue WITH pending <- functors \o to_do_list
ImplementsTaskQueue == Queue!Spec
=============================================================================
