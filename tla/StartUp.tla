------------------------------- MODULE StartUp -------------------------------
(***************************************************************************)
(* The start of a TcpServer (TcpServer::Start, EventLoopThreadPool::Start, *)
(* src/day23/tcp/EventLoopThread.cpp): the main thread launches one thread *)
(* after the other and waits until it has built its loop, and only then    *)
(* runs the main loop. Clients connect meanwhile: the socket is listening  *)
(* since the server was constructed.                                       *)
(*                                                                         *)
(* The module extends TcpServer, whose loops run as soon as their threads  *)
(* have got there. A step of the start is a critical section of mtx, or    *)
(* what a thread does between two of them.                                 *)
(***************************************************************************)
EXTENDS TcpServer

VARIABLES
    started,    \* how many loops EventLoopThreadPool::loops has
    lp,         \* EventLoopThread::lp of each thread is not null
    mpc,        \* where the main thread is, in Start
    tpc         \* where each thread is, in ThreadFunc

start == <<started, lp, mpc, tpc>>
startVars == <<vars, start>>

SubLoop == 1 .. NumSub

StartInit == /\ Init
             /\ started = 0
             /\ lp = [l \in SubLoop |-> FALSE]
             /\ mpc = "launch"
             /\ tpc = [l \in SubLoop |-> "none"]

-----------------------------------------------------------------------------
(* EventLoopThreadPool::Start: the next thread, or the end of Start.       *)
Launch ==
    /\ mpc = "launch" /\ started < NumSub
    /\ tpc' = [tpc EXCEPT ![started + 1] = "build"]
    /\ mpc' = "lock"
    /\ UNCHANGED <<started, lp>>

AllStarted ==
    /\ mpc = "launch" /\ started = NumSub
    /\ mpc' = "loop"
    /\ UNCHANGED <<started, lp, tpc>>

(* Mutant of Wait: it does not test what it waits for when it wakes.       *)
WaitOnce ==
    /\ mpc \in {"lock", "woken"}
    /\ IF lp[started + 1] \/ mpc = "woken"
       THEN started' = started + 1 /\ mpc' = "launch"
       ELSE mpc' = "asleep" /\ UNCHANGED started
    /\ UNCHANGED <<lp, tpc>>

(* StartLoop waits for lp; cv may wake it for no reason.                   *)
Wait ==
    /\ mpc \in {"lock", "woken"}
    /\ IF lp[started + 1]
       THEN started' = started + 1 /\ mpc' = "launch"
       ELSE mpc' = "asleep" /\ UNCHANGED started
    /\ UNCHANGED <<lp, tpc>>

WakesAnyhow ==
    /\ mpc = "asleep"
    /\ mpc' = "woken"
    /\ UNCHANGED <<started, lp, tpc>>

(* ThreadFunc: the constructor of EventLoop, ...                           *)
Build(l) ==
    /\ tpc[l] = "build"
    /\ tpc' = [tpc EXCEPT ![l] = "publish"]
    /\ UNCHANGED <<started, lp, mpc>>

(* Mutant of Publish: it does not notify.                                  *)
PublishSilently(l) ==
    /\ tpc[l] = "publish"
    /\ lp' = [lp EXCEPT ![l] = TRUE]
    /\ tpc' = [tpc EXCEPT ![l] = "loop"]
    /\ UNCHANGED <<started, mpc>>

(* ... the assignment of lp with the notification, and then loop().        *)
Publish(l) ==
    /\ tpc[l] = "publish"
    /\ lp' = [lp EXCEPT ![l] = TRUE]
    /\ mpc' = IF mpc = "asleep" /\ l = started + 1 THEN "woken" ELSE mpc
    /\ tpc' = [tpc EXCEPT ![l] = "loop"]
    /\ UNCHANGED started

-----------------------------------------------------------------------------
MainStarts == (Launch \/ AllStarted \/ Wait) /\ UNCHANGED vars
ThreadStarts(l) == (Build(l) \/ Publish(l)) /\ UNCHANGED vars

InLoop(l) == IF l = Main THEN mpc = "loop" ELSE tpc[l] = "loop"
LoopRuns(l) == InLoop(l) /\ Step(l) /\ UNCHANGED start
ClientActs(c) == halted = "no" /\ PeerStep(c) /\ UNCHANGED start

StartNext == \/ MainStarts
             \/ WakesAnyhow /\ UNCHANGED vars
             \/ \E l \in SubLoop : ThreadStarts(l)
             \/ \E l \in Loop : LoopRuns(l)
             \/ \E c \in Conn : ClientActs(c)

(* The threads run; no wait wakes without a notification for certain.      *)
StartSpec == /\ StartInit /\ [][StartNext]_startVars
             /\ WF_startVars(MainStarts)
             /\ \A l \in SubLoop : WF_startVars(ThreadStarts(l))
             /\ \A l \in Loop : WF_startVars(LoopRuns(l))

-----------------------------------------------------------------------------
StartTypeOK == /\ started \in 0 .. NumSub
               /\ lp \in [SubLoop -> BOOLEAN]
               /\ mpc \in {"launch", "lock", "asleep", "woken", "loop"}
               /\ tpc \in [SubLoop -> {"none", "build", "publish", "loop"}]
               /\ mpc \in {"lock", "asleep", "woken"} => started < NumSub

(* No null pointer and no loop that is not built gets among the loops that *)
(* connections are given to, and no connection is given to one.            *)
LoopsAreBuilt ==
    /\ \A l \in 1 .. started : lp[l]
    /\ \A c \in Conn : fdOf[c] # None /\ loopOf[c] # Main => lp[loopOf[c]] /\ loopOf[c] <= started

(* Start ends: the notification of a loop that is built is not missed.     *)
StartEnds == <>(mpc = "loop")
=============================================================================
