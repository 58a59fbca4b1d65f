------------------------------ MODULE TimerQueue ------------------------------
(***************************************************************************)
(* The timers of a loop (src/day23/timer/TimerQueue.cpp): a set of timers  *)
(* ordered by time, and a timerfd, watched by the loop's epoll, that shall *)
(* expire when the first of them is due. All of it runs in the loop's      *)
(* thread; time goes on between any two steps.                             *)
(*                                                                         *)
(* A unit of time is the shortest that the timerfd is armed for, 100       *)
(* microseconds. The loop is busy from the moment the timerfd expires, or  *)
(* its event is being handled, until handleRead returns: MaxLag bounds the *)
(* time that passes meanwhile, in whatever else the loop has to do.        *)
(***************************************************************************)
EXTENDS Integers

CONSTANTS
    Timer,      \* the timers, as their addresses
    Delay,      \* how far ahead timers are added
    Interval,   \* the intervals of timers; 0 is that of one that does not repeat
    MaxLag,     \* the longest time for which the loop is busy
    MaxTime     \* the bound on time

ASSUME ConstantsAssumption == /\ Delay \subseteq Nat
                              /\ Interval \subseteq Nat
                              /\ MaxLag \in Nat
                              /\ MaxTime \in Nat

VARIABLES
    now,        \* what TimeStamp::now() gives
    timers,     \* timers: [timer, when, interval]
    due, ran,   \* activeTimers, those whose callbacks have not run and the others
    armed,      \* the time at which the timerfd expires; 0 if it is not armed
    pc,         \* where the loop is
    lag         \* for how long the loop is busy

queue == <<timers, due, ran, armed>>
vars == <<now, queue, pc, lag>>

Init == /\ now = 0
        /\ timers = {} /\ due = {} /\ ran = {}
        /\ armed = 0
        /\ pc = "poll"
        /\ lag = 0

Expired == armed # 0 /\ armed <= now
Busy == pc # "poll" \/ Expired

Tick == /\ now < MaxTime
        /\ Busy => lag < MaxLag
        /\ now' = now + 1
        /\ lag' = IF Busy THEN lag + 1 ELSE 0
        /\ UNCHANGED <<queue, pc>>

-----------------------------------------------------------------------------
(* resetTimerFd arms the timerfd for a time, and for now + 1 at least.     *)
resetTimerFd(when) == armed' = IF when > now THEN when ELSE now + 1

Later(when, entries) == \A e \in entries : when < e.when

InsertTimer(e) ==
    /\ timers' = timers \cup {e}
    /\ IF Later(e.when, timers) THEN resetTimerFd(e.when) ELSE UNCHANGED armed

InUse == {e.timer : e \in timers \cup due \cup ran}

(* addTimer, by another callback of the loop or by that of a timer.        *)
addTimer(timer, delay, interval) ==
    /\ pc = "run" => ran # {}
    /\ timer \notin InUse
    /\ InsertTimer([timer |-> timer, when |-> now + delay, interval |-> interval])
    /\ UNCHANGED <<now, due, ran, pc, lag>>

(* epoll_wait gives the event of the timerfd.                              *)
Poll == /\ pc = "poll"
        /\ Expired
        /\ pc' = "ready"
        /\ UNCHANGED <<now, queue, lag>>

(* The entries that lower_bound finds to be before (now, UINTPTR_MAX).     *)
(* Mutants: those of the next moment too, and those of this one not.       *)
ExpiredSoon == {e \in timers : e.when <= now + 1}
ExpiredBefore == {e \in timers : e.when < now - MaxLag}

ExpiredTimers == {e \in timers : e.when <= now}

(* Mutant of handleRead: the expired timers stay in the set.               *)
handleReadKeeps ==
    /\ pc = "ready"
    /\ armed' = IF Expired THEN 0 ELSE armed
    /\ due' = ExpiredTimers
    /\ ran' = {}
    /\ pc' = "run"
    /\ UNCHANGED <<now, timers, lag>>

(* handleRead reads the timerfd, which may have been armed again since the *)
(* poll: the read then gives nothing and the expired timers run as well.   *)
handleRead ==
    /\ pc = "ready"
    /\ armed' = IF Expired THEN 0 ELSE armed
    /\ due' = ExpiredTimers
    /\ ran' = {}
    /\ timers' = timers \ ExpiredTimers
    /\ pc' = "run"
    /\ UNCHANGED <<now, lag>>

(* The callbacks are called in the order of the set.                       *)
run(e) ==
    /\ pc = "run"
    /\ e \in due
    /\ \A f \in due : e.when <= f.when
    /\ due' = due \ {e}
    /\ ran' = ran \cup {e}
    /\ UNCHANGED <<now, timers, armed, pc, lag>>

(* Mutant of Restarted: the interval is subtracted.                        *)
RestartedBackwards == {[e EXCEPT !.when = e.when - e.interval] : e \in {f \in ran : f.interval > 0}}

(* A repeating timer starts again, one that does not repeat is deleted.    *)
Restarted == {[e EXCEPT !.when = now + e.interval] : e \in {f \in ran : f.interval > 0}}

(* Mutant of ResetFd: the timerfd is armed only if a timer was restarted.  *)
ResetIfRestarted ==
    IF Restarted # {}
    THEN \E e \in timers' : (\A f \in timers' : e.when <= f.when) /\ resetTimerFd(e.when)
    ELSE UNCHANGED armed

ResetFd ==
    IF timers' # {}
    THEN \E e \in timers' : (\A f \in timers' : e.when <= f.when) /\ resetTimerFd(e.when)
    ELSE UNCHANGED armed

resetTimers ==
    /\ pc = "run" /\ due = {}
    /\ timers' = timers \cup Restarted
    /\ ResetFd
    /\ ran' = {}
    /\ pc' = "poll"
    /\ lag' = 0
    /\ UNCHANGED <<now, due>>

-----------------------------------------------------------------------------
HandleTimers == Poll \/ handleRead \/ resetTimers \/ \E e \in due : run(e)

Next == \/ Tick
        \/ HandleTimers
        \/ \E timer \in Timer, delay \in Delay, interval \in Interval :
              addTimer(timer, delay, interval)

Spec == Init /\ [][Next]_vars

-----------------------------------------------------------------------------
Entry == [timer : Timer, when : Nat, interval : Nat]

TypeOK == /\ now \in Nat
          /\ timers \subseteq Entry /\ due \subseteq Entry /\ ran \subseteq Entry
          /\ armed \in Nat
          /\ pc \in {"poll", "ready", "run"}
          /\ lag \in 0 .. MaxLag

(* While the loop waits, the timerfd is armed if there is a timer, and for *)
(* a time that does not make the first one late by more than one lag.      *)
ArmedForFirst ==
    pc = "poll" => \A e \in timers : armed # 0 /\ armed <= e.when + MaxLag + 1

(* No timer is late by more than two lags: one in which it becomes due     *)
(* while others run, and the one in which it runs.                         *)
Punctual == \A e \in timers \cup due : now <= e.when + 2 * MaxLag + 1

(* No callback runs before its time.                                       *)
NeverEarly == \A e \in due \cup ran : e.when <= now

(* A timer is in one place, once: none runs twice for one time, and none   *)
(* is deleted that is still to run.                                        *)
OnePlace == /\ \A e, f \in timers \cup due \cup ran : e.timer = f.timer => e = f
            /\ timers \cap due = {} /\ timers \cap ran = {} /\ due \cap ran = {}
=============================================================================
