--------------------------- MODULE IdleCloseProofs ---------------------------
(***************************************************************************)
(* The timers are punctual, for any number of timers, delays and intervals *)
(* and any lag of the loop, without a bound on time; and the idle rule     *)
(* holds for any number of connections and any timers that other callbacks *)
(* add. What is proved of the timers holds of the idle rule's too, because *)
(* each step of IdleSpec is one of TimerQueue or leaves its variables as   *)
(* they are.                                                               *)
(*                                                                         *)
(* now - lag is the moment since which the loop is busy. A timer that is   *)
(* in the set while callbacks run was not due at that moment, so that      *)
(* resetTimers, which arms the timerfd for now + 1 if the first timer is   *)
(* due already, is late for it by one lag at most.                         *)
(***************************************************************************)
EXTENDS IdleClose, TLAPS

(* The timers.                                                             *)
QueueWaits == pc # "run" => due = {} /\ ran = {}

FirstArmed == pc # "run" => \A e \in timers : armed # 0 /\ armed <= e.when + MaxLag + 1

LateByOneLag == Busy => \A e \in timers \cup due : now - lag <= e.when + MaxLag + 1

NotYetDue == pc = "run" => \A e \in timers : now - lag <= e.when

Inv == /\ TypeOK
       /\ QueueWaits
       /\ FirstArmed
       /\ LateByOneLag
       /\ NotYetDue
       /\ NeverEarly
       /\ OnePlace

-----------------------------------------------------------------------------
LEMMA InitInv == Init => Inv
BY ConstantsAssumption
   DEF Init, Inv, TypeOK, QueueWaits, FirstArmed, LateByOneLag, NotYetDue, NeverEarly, OnePlace

LEMMA TickInv == Inv /\ Tick => Inv'
<1> SUFFICES ASSUME Inv, Tick
             PROVE  Inv'
  OBVIOUS
<1> USE DEF Inv, Tick, queue, Entry
<1>1. TypeOK'
  BY ConstantsAssumption DEF TypeOK
<1>2. LateByOneLag'
  <2>1. CASE Busy
    BY <2>1, ConstantsAssumption DEF LateByOneLag, TypeOK
  <2>2. CASE ~Busy
    <3>1. pc = "poll" /\ due = {} /\ (armed = 0 \/ armed > now)
      BY <2>2 DEF Busy, Expired, QueueWaits, TypeOK
    <3>2. Busy' => armed = now + 1
      BY <3>1 DEF Busy, Expired, TypeOK
    <3> QED
      BY <2>2, <3>1, <3>2, ConstantsAssumption DEF LateByOneLag, FirstArmed, TypeOK
  <2> QED
    BY <2>1, <2>2
<1>3. NotYetDue'
  BY DEF NotYetDue, Busy, TypeOK
<1>4. NeverEarly'
  BY DEF NeverEarly, TypeOK
<1> QED
  BY <1>1, <1>2, <1>3, <1>4 DEF QueueWaits, FirstArmed, OnePlace

LEMMA AddInv ==
    ASSUME Inv, NEW timer \in Timer, NEW delay \in Delay, NEW interval \in Interval,
           addTimer(timer, delay, interval)
    PROVE  Inv'
<1> DEFINE e == [timer |-> timer, when |-> now + delay, interval |-> interval]
<1> USE DEF Inv, Entry
<1>1. e \in Entry /\ e.when \in Nat /\ now <= e.when /\ e.timer = timer
  BY ConstantsAssumption DEF TypeOK
<1>2. /\ timers' = timers \cup {e}
      /\ \A f \in timers \cup due \cup ran : f.timer # timer
      /\ UNCHANGED <<now, due, ran, pc, lag>>
      /\ pc = "run" => ran # {}
  BY DEF addTimer, InsertTimer, InUse
<1>3. \/ Later(e.when, timers) /\ armed' = IF e.when > now THEN e.when ELSE now + 1
      \/ ~Later(e.when, timers) /\ armed' = armed
  BY DEF addTimer, InsertTimer, resetTimerFd
<1> HIDE DEF e
<1>4. TypeOK'
  BY <1>1, <1>2, <1>3 DEF TypeOK
<1>5. FirstArmed'
  <2> SUFFICES ASSUME pc # "run", NEW f \in timers \cup {e}
               PROVE  armed' # 0 /\ armed' <= f.when + MaxLag + 1
    BY <1>2 DEF FirstArmed
  <2>1. f.when \in Nat
    BY <1>1 DEF TypeOK
  <2>2. CASE Later(e.when, timers)
    BY <1>1, <1>3, <2>1, <2>2, ConstantsAssumption DEF Later, TypeOK
  <2>3. CASE ~Later(e.when, timers)
    <3>1. PICK g \in timers : g.when <= e.when
      BY <1>1, <2>3 DEF Later, TypeOK
    <3>2. armed' = armed /\ armed # 0 /\ armed <= g.when + MaxLag + 1
      BY <1>3, <2>3, <3>1 DEF FirstArmed
    <3>3. g.when \in Nat
      BY <3>1 DEF TypeOK
    <3>4. CASE f = e
      BY <1>1, <3>1, <3>2, <3>3, <3>4, ConstantsAssumption DEF TypeOK
    <3>5. CASE f \in timers
      BY <3>2, <3>5 DEF FirstArmed
    <3> QED
      BY <3>4, <3>5
  <2> QED
    BY <2>2, <2>3
<1>6. Busy' => Busy
  BY <1>1, <1>2, <1>3 DEF Busy, Expired, TypeOK
<1>7. LateByOneLag'
  BY <1>1, <1>2, <1>6, ConstantsAssumption DEF LateByOneLag, TypeOK
<1>8. NotYetDue'
  BY <1>1, <1>2 DEF NotYetDue, TypeOK
<1>9. OnePlace'
  BY <1>1, <1>2 DEF OnePlace
<1> QED
  BY <1>2, <1>4, <1>5, <1>7, <1>8, <1>9 DEF QueueWaits, NeverEarly

LEMMA HandleReadInv == Inv /\ handleRead => Inv'
<1> SUFFICES ASSUME Inv, handleRead
             PROVE  Inv'
  OBVIOUS
<1> USE DEF Inv, Entry, handleRead, ExpiredTimers
<1>1. TypeOK'
  BY DEF TypeOK
<1>2. LateByOneLag'
  BY DEF LateByOneLag, Busy, TypeOK
<1>3. NotYetDue'
  BY DEF NotYetDue, TypeOK
<1>4. NeverEarly' /\ OnePlace'
  BY DEF NeverEarly, OnePlace, TypeOK
<1> QED
  BY <1>1, <1>2, <1>3, <1>4 DEF QueueWaits, FirstArmed

LEMMA RunInv ==
    ASSUME Inv, NEW e \in due, run(e)
    PROVE  Inv'
BY DEF run, Inv, TypeOK, QueueWaits, FirstArmed, LateByOneLag, NotYetDue, NeverEarly, OnePlace, Busy

LEMMA ResetInv == Inv /\ resetTimers => Inv'
<1> SUFFICES ASSUME Inv, resetTimers
             PROVE  Inv'
  OBVIOUS
<1> USE DEF Inv, Entry, resetTimers
<1>1. \A e \in Restarted : e \in Entry /\ now <= e.when
  BY DEF Restarted, TypeOK
<1>2. \A e \in timers' : e \in Entry /\ now - lag <= e.when
  BY <1>1 DEF NotYetDue, TypeOK
<1>3. CASE timers' = {}
  <2>1. armed' = armed
    BY <1>3 DEF ResetFd
  <2> QED
    BY <1>3, <2>1, ConstantsAssumption
       DEF TypeOK, QueueWaits, FirstArmed, LateByOneLag, NotYetDue, NeverEarly, OnePlace
<1>4. CASE timers' # {}
  <2>1. PICK f \in timers' : /\ \A e \in timers' : f.when <= e.when
                             /\ armed' = IF f.when > now THEN f.when ELSE now + 1
    BY <1>4 DEF ResetFd, resetTimerFd
  <2>2. f.when \in Nat
    BY <1>2 DEF TypeOK
  <2>3. TypeOK'
    BY <1>2, <2>1, <2>2, ConstantsAssumption DEF TypeOK
  <2>4. armed' > now /\ armed' # 0
    BY <2>1, <2>2 DEF TypeOK
  <2>5. FirstArmed'
    BY <1>2, <2>1, <2>2, <2>4, ConstantsAssumption DEF FirstArmed, TypeOK
  <2>6. ~Busy'
    <3>1. pc' = "poll" /\ now' = now /\ armed' \in Nat /\ now \in Nat
      BY <2>3 DEF TypeOK
    <3> QED
      BY <2>4, <3>1 DEF Busy, Expired
  <2>7. OnePlace'
    <3>1. \A e \in Restarted : \E g \in ran : e.timer = g.timer
      BY DEF Restarted, TypeOK
    <3>2. \A e, g \in Restarted : e.timer = g.timer => e = g
      BY DEF Restarted, OnePlace, TypeOK
    <3>3. \A e \in Restarted, g \in timers : e.timer # g.timer
      BY <3>1 DEF OnePlace
    <3> QED
      BY <3>2, <3>3 DEF OnePlace
  <2> QED
    BY <2>3, <2>5, <2>6, <2>7 DEF QueueWaits, LateByOneLag, NotYetDue, NeverEarly
<1> QED
  BY <1>3, <1>4

LEMMA NextInv == Inv /\ [Next]_vars => Inv'
<1> SUFFICES ASSUME Inv, [Next]_vars
             PROVE  Inv'
  OBVIOUS
<1>1. CASE Tick
  BY <1>1, TickInv
<1>2. CASE \E timer \in Timer, delay \in Delay, interval \in Interval :
              addTimer(timer, delay, interval)
  BY <1>2, AddInv
<1>3. CASE Poll
  BY <1>3 DEF Poll, queue, Inv, TypeOK, QueueWaits, FirstArmed, LateByOneLag, NotYetDue,
              NeverEarly, OnePlace, Busy
<1>4. CASE handleRead
  BY <1>4, HandleReadInv
<1>5. CASE \E e \in due : run(e)
  BY <1>5, RunInv
<1>6. CASE resetTimers
  BY <1>6, ResetInv
<1>7. CASE UNCHANGED vars
  BY <1>7 DEF vars, queue, Inv, TypeOK, QueueWaits, FirstArmed, LateByOneLag, NotYetDue,
              NeverEarly, OnePlace, Busy, Expired
<1> QED
  BY <1>1, <1>2, <1>3, <1>4, <1>5, <1>6, <1>7 DEF Next, HandleTimers

LEMMA Invariant == Spec => []Inv
BY InitInv, NextInv, PTL DEF Spec

-----------------------------------------------------------------------------
(* The variables of the queue always have their types; no lag exceeds the  *)
(* bound.                                                                  *)
THEOREM TypeCorrect == Spec => []TypeOK
<1>1. Inv => TypeOK
  BY DEF Inv
<1> QED
  BY <1>1, Invariant, PTL

(* Whenever the loop waits the timerfd is armed for the first timer.       *)
THEOREM FirstIsArmed == Spec => []ArmedForFirst
<1>1. Inv => ArmedForFirst
  BY DEF Inv, FirstArmed, ArmedForFirst
<1> QED
  BY <1>1, Invariant, PTL

(* A timer runs at most two lags of the loop, and a unit, after its time.  *)
THEOREM TimersArePunctual == Spec => []Punctual
<1>1. Inv => Punctual
  <2> SUFFICES ASSUME Inv, NEW e \in timers \cup due
               PROVE  now <= e.when + 2 * MaxLag + 1
    BY DEF Punctual
  <2>1. e.when \in Nat
    BY DEF Inv, TypeOK, Entry
  <2>2. CASE Busy
    BY <2>1, <2>2, ConstantsAssumption DEF Inv, TypeOK, LateByOneLag
  <2>3. CASE ~Busy
    <3>1. pc = "poll" /\ e \in timers /\ armed > now
      BY <2>3 DEF Inv, TypeOK, QueueWaits, FirstArmed, Busy, Expired
    <3> QED
      BY <2>1, <3>1, ConstantsAssumption DEF Inv, TypeOK, FirstArmed
  <2> QED
    BY <2>2, <2>3
<1> QED
  BY <1>1, Invariant, PTL

(* No callback runs early, not even on a stale event of the timerfd.       *)
THEOREM NoneIsEarly == Spec => []NeverEarly
<1>1. Inv => NeverEarly
  BY DEF Inv
<1> QED
  BY <1>1, Invariant, PTL

(* A timer is in the set or among the expired ones, once: handleRead runs  *)
(* it once for one time, and resetTimers deletes none that still waits.    *)
THEOREM EachIsOnce == Spec => []OnePlace
<1>1. Inv => OnePlace
  BY DEF Inv
<1> QED
  BY <1>1, Invariant, PTL

-----------------------------------------------------------------------------
(* The idle rule.                                                          *)
(* A timer that is bound to a connection does not repeat.                  *)
WatchesOnce == \A e \in timers \cup due \cup ran : watch[e.timer] # None => e.interval = 0

(* The main loop is in one place.                                          *)
MainInOnePlace ==
    /\ cpc # "none" => new = None /\ pc = "run" /\ conn[cur] \in {"open", "closed"}
    /\ new # None => conn[new] \in {"open", "closed"}

NotYetWatched == \A c \in Conn : conn[c] = "none" \/ c = new => WatchesOf(c) = {}

(* What ActiveClose read is the last active time, or older than a message  *)
(* that came since the loop is busy.                                       *)
SeenOrFresh == cpc = "test" => /\ seen <= lastActive[cur]
                               /\ \/ lastActive[cur] = seen
                                  \/ now - lag <= lastActive[cur]

UsedBefore == \A c \in Conn : lastActive[c] <= now /\ opened[c] <= now

(* The timers of a connection are not for later than twice the timeout     *)
(* after its last use, that of a running ActiveClose included.             *)
RunsInTime(c, e) == e.when <= LastUse(c) + 2 * AUTOCLOSETIMEOUT

WatchedInTime ==
    \A c \in Conn : conn[c] = "open" /\ c # new =>
        /\ \A e \in WatchesOf(c) : RunsInTime(c, e)
        /\ cur = c => \E e \in ran : RunsInTime(c, e)

RanByOneLag == \A e \in ran : now - lag <= e.when + MaxLag + 1

IdleInv == /\ Inv
           /\ IdleTypeOK
           /\ WatchesOnce
           /\ MainInOnePlace
           /\ NotYetWatched
           /\ OneWatch
           /\ SeenOrFresh
           /\ UsedBefore
           /\ WatchedInTime
           /\ RanByOneLag

-----------------------------------------------------------------------------
LEMMA IdleInitInv == IdleInit => IdleInv
<1> SUFFICES ASSUME IdleInit
             PROVE  IdleInv
  OBVIOUS
<1>1. Inv
  BY InitInv DEF IdleInit
<1>2. IdleTypeOK
  BY IdleAssumption, ConstantsAssumption DEF IdleInit, IdleTypeOK, Never
<1>3. \A c \in Conn : WatchesOf(c) = {}
  BY DEF IdleInit, Init, WatchesOf
<1>4. UsedBefore
  BY IdleAssumption, ConstantsAssumption DEF IdleInit, Init, UsedBefore, Never
<1> QED
  BY <1>1, <1>2, <1>3, <1>4
     DEF IdleInit, Init, IdleInv, WatchesOnce, MainInOnePlace, NotYetWatched, OneWatch,
         SeenOrFresh, WatchedInTime, RanByOneLag

LEMMA IdleStep == IdleNext => [Next]_vars
<1> SUFFICES ASSUME IdleNext
             PROVE  [Next]_vars
  OBVIOUS
<1>1. CASE Timers
  BY <1>1 DEF Timers, DeleteTimers, Next, HandleTimers
<1>2. CASE \E timer \in Timer : WatchAgain(timer) \/ onConnection(timer)
  BY <1>2, IdleAssumption DEF WatchAgain, onConnection, RunAfter, Next
<1>3. CASE getLastActiveTime \/ CloseIdle
  BY <1>3 DEF getLastActiveTime, CloseIdle
<1>4. CASE \E e \in due : RunTimer(e)
  BY <1>4 DEF RunTimer, Next, HandleTimers
<1>5. CASE \E timer \in Timer, delay \in Delay, interval \in Interval :
              AddOther(timer, delay, interval)
  BY <1>5 DEF AddOther, RunAfter, Next
<1>6. CASE \E c \in Conn : \/ ConnectionEstablished(c) \/ onMessage(c)
                           \/ CloseByPeer(c) \/ Release(c)
  BY <1>6 DEF ConnectionEstablished, onMessage, CloseByPeer, Release
<1> QED
  BY <1>1, <1>2, <1>3, <1>4, <1>5, <1>6 DEF IdleNext, ActiveClose

(* Adding a timer adds a watch of the connection that it is bound to.      *)
LEMMA AddWatches ==
    ASSUME IdleInv, NEW timer \in Timer, NEW delay \in Delay, NEW interval \in Interval,
           NEW x \in Conn \cup {None}, RunAfter(timer, delay, interval, x)
    PROVE  LET e == [timer |-> timer, when |-> now + delay, interval |-> interval]
           IN  /\ \A c \in Conn : WatchesOf(c)' = IF c = x THEN WatchesOf(c) \cup {e}
                                                          ELSE WatchesOf(c)
               /\ watch' \in [Timer -> Conn \cup {None}]
               /\ (x # None => interval = 0) => WatchesOnce'
               /\ UNCHANGED <<now, due, ran, pc, lag>>
<1> DEFINE e == [timer |-> timer, when |-> now + delay, interval |-> interval]
<1>1. /\ timers' = timers \cup {e}
      /\ \A f \in timers \cup due \cup ran : f.timer # timer /\ f.timer \in Timer
      /\ UNCHANGED <<now, due, ran, pc, lag>>
      /\ watch' = [watch EXCEPT ![timer] = x]
      /\ watch \in [Timer -> Conn \cup {None}]
  BY DEF RunAfter, addTimer, InsertTimer, InUse, IdleInv, Inv, TypeOK, Entry, IdleTypeOK
<1>2. e.timer = timer /\ e.interval = interval
  OBVIOUS
<1> HIDE DEF e
<1>3. \A c \in Conn : WatchesOf(c)' = IF c = x THEN WatchesOf(c) \cup {e} ELSE WatchesOf(c)
  BY <1>1, <1>2 DEF WatchesOf
<1>4. (x # None => interval = 0) => WatchesOnce'
  BY <1>1, <1>2 DEF WatchesOnce, IdleInv
<1> QED
  BY <1>1, <1>3, <1>4 DEF e

(* Steps of the timers that leave watches and connections as they are.     *)
LEMMA TimersInv == IdleInv /\ Timers => IdleInv'
<1> SUFFICES ASSUME IdleInv, Timers
             PROVE  IdleInv'
  OBVIOUS
<1>1. Inv'
  BY IdleStep, NextInv DEF IdleNext, IdleInv
<1> USE DEF IdleInv
<1>2. CASE DeleteTimers
  <2> USE <1>2 DEF DeleteTimers, resetTimers
  <2>1. \A r \in Restarted : \E e \in ran : r.timer = e.timer /\ e.interval > 0
    BY DEF Restarted, Inv, TypeOK, Entry
  <2>2. /\ \A e \in timers : watch'[e.timer] = watch[e.timer]
        /\ \A r \in Restarted : watch'[r.timer] = None
    <3>1. \A e \in timers' : e.timer \in InUse' /\ e.timer \in Timer
      BY <1>1 DEF InUse, Inv, TypeOK, Entry
    <3> QED
      BY <2>1, <3>1 DEF WatchesOnce, Inv, TypeOK, Entry
  <2>3. \A c \in Conn : WatchesOf(c)' = WatchesOf(c)
    BY <2>2, IdleAssumption DEF WatchesOf
  <2>4. WatchesOnce'
    BY <2>2 DEF WatchesOnce
  <2>5. IdleTypeOK'
    BY DEF IdleTypeOK, Elsewhere
  <2> QED
    BY <1>1, <2>3, <2>4, <2>5, IdleAssumption
       DEF Elsewhere, MainInOnePlace, NotYetWatched, OneWatch, SeenOrFresh, UsedBefore,
           WatchedInTime, RunsInTime, LastUse, RanByOneLag, IdleTypeOK
<1>3. CASE Tick /\ UNCHANGED idle
  <2> USE <1>3 DEF Tick, queue, idle
  <2>1. \A c \in Conn : WatchesOf(c)' = WatchesOf(c)
    BY DEF WatchesOf
  <2>2. pc = "run" => now' - lag' = now - lag
    BY DEF Busy, Inv, TypeOK
  <2>3. SeenOrFresh'
    BY <2>2 DEF SeenOrFresh, MainInOnePlace
  <2>4. UsedBefore' /\ IdleTypeOK'
    <3>1. \A c \in Conn : lastActive[c] \in Int /\ opened[c] \in Int
      BY IdleAssumption, ConstantsAssumption DEF IdleTypeOK, Never
    <3> QED
      BY <3>1 DEF UsedBefore, IdleTypeOK, Inv, TypeOK
  <2>5. RanByOneLag'
    BY <2>2 DEF RanByOneLag, Inv, QueueWaits
  <2> QED
    BY <1>1, <2>1, <2>3, <2>4, <2>5
       DEF WatchesOnce, MainInOnePlace, NotYetWatched, OneWatch, WatchedInTime, RunsInTime, LastUse
<1>4. CASE Elsewhere /\ (Poll \/ handleRead) /\ UNCHANGED idle
  <2> USE <1>4 DEF idle
  <2>1. /\ now' = now /\ lag' = lag /\ ran' = {} /\ ran = {} /\ due = {}
        /\ timers' \cup due' = timers
    BY DEF Poll, handleRead, queue, ExpiredTimers, Inv, QueueWaits
  <2>2. \A c \in Conn : WatchesOf(c)' = WatchesOf(c)
    BY <2>1 DEF WatchesOf
  <2>3. WatchesOnce'
    BY <2>1 DEF WatchesOnce
  <2> QED
    BY <1>1, <2>1, <2>2, <2>3, IdleAssumption
       DEF Elsewhere, MainInOnePlace, NotYetWatched, OneWatch, SeenOrFresh, UsedBefore, IdleTypeOK,
           WatchedInTime, RunsInTime, LastUse, RanByOneLag
<1> QED
  BY <1>2, <1>3, <1>4 DEF Timers

LEMMA RunTimerInv ==
    ASSUME IdleInv, NEW e \in due, RunTimer(e)
    PROVE  IdleInv'
<1> USE DEF IdleInv
<1>1. Inv'
  BY IdleStep, NextInv DEF IdleNext
<1>2. /\ pc = "run" /\ pc' = pc /\ now' = now /\ lag' = lag /\ timers' = timers
      /\ due' = due \ {e} /\ ran' = ran \cup {e} /\ e \notin timers
      /\ new = None /\ cur = None /\ cpc = "none"
      /\ UNCHANGED <<conn, new, opened, lastActive, watch, seen>>
      /\ e.timer \in Timer /\ watch[e.timer] \in Conn \cup {None}
  BY DEF RunTimer, run, Elsewhere, Inv, OnePlace, TypeOK, Entry, IdleTypeOK
<1>3. \A c \in Conn : WatchesOf(c)' = WatchesOf(c) \ {e}
  BY <1>2 DEF WatchesOf
<1>4. \/ /\ watch[e.timer] \in Conn /\ conn[watch[e.timer]] # "gone"
         /\ cur' = watch[e.timer] /\ cpc' = "read" /\ e \in WatchesOf(cur')
      \/ /\ watch[e.timer] = None \/ conn[watch[e.timer]] = "gone"
         /\ cur' = None /\ cpc' = "none"
  BY <1>2 DEF RunTimer, Lock, WatchesOf
<1>5. IdleTypeOK'
  BY <1>2, <1>4, IdleAssumption DEF IdleTypeOK
<1>6. MainInOnePlace'
  BY <1>2, <1>4 DEF MainInOnePlace, NotYetWatched, IdleTypeOK
<1>7. OneWatch' /\ NotYetWatched'
  <2>1. \A c \in Conn : conn[c] = "open" /\ cur' # c => e \notin WatchesOf(c)
    BY <1>4, IdleAssumption DEF WatchesOf
  <2> QED
    BY <1>2, <1>3, <1>4, <2>1, IdleAssumption DEF OneWatch, NotYetWatched
<1>8. WatchedInTime'
  <2>1. \A c \in Conn : cur' = c => e \in WatchesOf(c)
    BY <1>4, IdleAssumption
  <2> QED
    BY <1>2, <1>3, <2>1 DEF WatchedInTime, RunsInTime, LastUse
<1>9. RanByOneLag'
  BY <1>2 DEF RanByOneLag, Inv, LateByOneLag, Busy
<1> QED
  BY <1>1, <1>2, <1>4, <1>5, <1>6, <1>7, <1>8, <1>9 DEF WatchesOnce, SeenOrFresh, UsedBefore

LEMMA OnConnectionInv ==
    ASSUME IdleInv, NEW timer \in Timer, onConnection(timer)
    PROVE  IdleInv'
<1> DEFINE e == [timer |-> timer, when |-> now + AUTOCLOSETIMEOUT, interval |-> 0]
<1> USE DEF IdleInv
<1>1. Inv'
  BY IdleStep, NextInv DEF IdleNext
<1>2. PICK x \in Conn : x = new
  BY DEF onConnection, IdleTypeOK
<1>3. /\ cpc = "none" /\ cur = None /\ new' = None
      /\ RunAfter(timer, AUTOCLOSETIMEOUT, 0, x)
      /\ opened' = [opened EXCEPT ![x] = now]
      /\ UNCHANGED <<conn, lastActive, cur, cpc, seen>>
      /\ conn[x] # "none" /\ WatchesOf(x) = {}
  BY <1>2, IdleAssumption DEF onConnection, IdleTypeOK, MainInOnePlace, NotYetWatched
<1>4. /\ \A c \in Conn : WatchesOf(c)' = IF c = x THEN WatchesOf(c) \cup {e} ELSE WatchesOf(c)
      /\ watch' \in [Timer -> Conn \cup {None}]
      /\ WatchesOnce'
      /\ UNCHANGED <<now, due, ran, pc, lag>>
  BY <1>3, AddWatches, IdleAssumption
<1>5. now \in Nat /\ AUTOCLOSETIMEOUT \in Nat /\ MaxLag \in Nat
  BY ConstantsAssumption, IdleAssumption DEF Inv, TypeOK
<1>6. e.when = now + AUTOCLOSETIMEOUT
  OBVIOUS
<1> HIDE DEF e
<1>7. IdleTypeOK'
  BY <1>2, <1>3, <1>4, <1>5 DEF IdleTypeOK
<1>8. UsedBefore'
  BY <1>3, <1>4, <1>5 DEF UsedBefore, IdleTypeOK
<1>9. OneWatch' /\ NotYetWatched' /\ MainInOnePlace'
  BY <1>2, <1>3, <1>4, IdleAssumption DEF OneWatch, NotYetWatched, MainInOnePlace
<1>10. WatchedInTime'
  <2>1. LastUse(x)' = now
    <3>1. opened'[x] = now /\ lastActive'[x] <= now /\ lastActive'[x] \in Int
      BY <1>3, <1>5, ConstantsAssumption, IdleAssumption DEF UsedBefore, IdleTypeOK, Never
    <3> QED
      BY <1>5, <3>1 DEF LastUse
  <2>2. e.when <= LastUse(x)' + 2 * AUTOCLOSETIMEOUT
    BY <1>5, <1>6, <2>1
  <2>3. \A c \in Conn : c # x => LastUse(c)' = LastUse(c)
    BY <1>3 DEF LastUse, IdleTypeOK
  <2> QED
    BY <1>2, <1>3, <1>4, <2>2, <2>3, IdleAssumption DEF WatchedInTime, RunsInTime
<1> QED
  BY <1>1, <1>3, <1>4, <1>7, <1>8, <1>9, <1>10 DEF SeenOrFresh, RanByOneLag

LEMMA AddOtherInv ==
    ASSUME IdleInv, NEW timer \in Timer, NEW delay \in Delay, NEW interval \in Interval,
           AddOther(timer, delay, interval)
    PROVE  IdleInv'
<1> USE DEF IdleInv
<1>1. Inv'
  BY IdleStep, NextInv DEF IdleNext
<1>2. /\ \A c \in Conn : WatchesOf(c)' = WatchesOf(c)
      /\ watch' \in [Timer -> Conn \cup {None}]
      /\ WatchesOnce'
      /\ UNCHANGED <<now, due, ran, pc, lag>>
      /\ UNCHANGED <<conn, new, opened, lastActive, cur, cpc, seen>>
  BY AddWatches, IdleAssumption DEF AddOther
<1> QED
  BY <1>1, <1>2
     DEF IdleTypeOK, MainInOnePlace, NotYetWatched, OneWatch, SeenOrFresh, UsedBefore,
         WatchedInTime, RunsInTime, LastUse, RanByOneLag

LEMMA WatchAgainInv ==
    ASSUME IdleInv, NEW timer \in Timer, WatchAgain(timer)
    PROVE  IdleInv'
<1> DEFINE e == [timer |-> timer, when |-> now + AUTOCLOSETIMEOUT, interval |-> 0]
<1> USE DEF IdleInv
<1>1. Inv'
  BY IdleStep, NextInv DEF IdleNext, ActiveClose
<1>2. /\ cpc = "test" /\ cur \in Conn /\ cur' = None /\ cpc' = "none" /\ seen' = Never
      /\ ~(seen + AUTOCLOSETIMEOUT < now)
      /\ RunAfter(timer, AUTOCLOSETIMEOUT, 0, cur)
      /\ UNCHANGED <<conn, new, opened, lastActive>>
      /\ new = None /\ conn[cur] \in {"open", "closed"}
  BY IdleAssumption DEF WatchAgain, Done, Idle, IdleTypeOK, MainInOnePlace
<1>3. /\ \A c \in Conn : WatchesOf(c)' = IF c = cur THEN WatchesOf(c) \cup {e} ELSE WatchesOf(c)
      /\ watch' \in [Timer -> Conn \cup {None}]
      /\ WatchesOnce'
      /\ UNCHANGED <<now, due, ran, pc, lag>>
  BY <1>2, AddWatches, IdleAssumption
<1>4. e.when = now + AUTOCLOSETIMEOUT
  OBVIOUS
<1> HIDE DEF e
<1>5. IdleTypeOK'
  BY <1>2, <1>3 DEF IdleTypeOK
<1>6. OneWatch' /\ NotYetWatched' /\ MainInOnePlace'
  BY <1>2, <1>3, IdleAssumption DEF OneWatch, NotYetWatched, MainInOnePlace
<1>7. WatchedInTime'
  <2>1. RunsInTime(cur, e)
    <3>1. /\ seen <= lastActive[cur] /\ lastActive[cur] <= LastUse(cur)
          /\ seen \in Int /\ lastActive[cur] \in Int /\ LastUse(cur) \in Int /\ now \in Int
          /\ AUTOCLOSETIMEOUT \in Nat
      BY <1>2, ConstantsAssumption, IdleAssumption
         DEF SeenOrFresh, IdleTypeOK, Never, LastUse, Inv, TypeOK
    <3> QED
      BY <1>2, <1>4, <3>1 DEF RunsInTime
  <2> QED
    BY <1>2, <1>3, <2>1, IdleAssumption DEF WatchedInTime, RunsInTime, LastUse
<1> QED
  BY <1>1, <1>2, <1>3, <1>5, <1>6, <1>7 DEF SeenOrFresh, UsedBefore, RanByOneLag

(* The steps that add and run no timer.                                    *)
LEMMA ConnectionsInv ==
    ASSUME IdleInv,
           \/ getLastActiveTime \/ CloseIdle
           \/ \E c \in Conn : \/ ConnectionEstablished(c) \/ onMessage(c)
                             \/ CloseByPeer(c) \/ Release(c)
    PROVE  IdleInv'
<1> USE DEF IdleInv
<1>1. Inv'
  BY IdleStep, NextInv DEF IdleNext, ActiveClose
<1>2. UNCHANGED vars /\ watch' = watch
  BY DEF getLastActiveTime, CloseIdle, ConnectionEstablished, onMessage, CloseByPeer, Release
<1>3. /\ \A c \in Conn : WatchesOf(c)' = WatchesOf(c)
      /\ WatchesOnce' /\ RanByOneLag'
  BY <1>2 DEF vars, queue, WatchesOf, WatchesOnce, RanByOneLag
<1>4. /\ now' = now /\ lag' = lag /\ pc' = pc /\ ran' = ran
      /\ now \in Nat /\ lag \in Nat
      /\ \A c \in Conn : lastActive[c] \in Int /\ opened[c] \in Nat
  BY <1>2, ConstantsAssumption, IdleAssumption DEF vars, queue, Inv, TypeOK, IdleTypeOK, Never
<1>5. CASE getLastActiveTime
  BY <1>1, <1>3, <1>4, <1>5, IdleAssumption
     DEF getLastActiveTime, IdleTypeOK, MainInOnePlace, NotYetWatched, OneWatch, SeenOrFresh,
         UsedBefore, WatchedInTime, RunsInTime, LastUse
<1>6. CASE CloseIdle
  <2>1. /\ cur \in Conn /\ new = None /\ cur' = None /\ cpc' = "none" /\ seen' = Never
        /\ conn' = [conn EXCEPT ![cur] = IF @ = "open" THEN "closed" ELSE @]
        /\ UNCHANGED <<new, opened, lastActive>>
    BY <1>6 DEF CloseIdle, Done, IdleTypeOK, MainInOnePlace
  <2> QED
    BY <1>1, <1>2, <1>3, <1>4, <2>1, IdleAssumption
       DEF IdleTypeOK, MainInOnePlace, NotYetWatched, OneWatch, SeenOrFresh,
           UsedBefore, WatchedInTime, RunsInTime, LastUse
<1>7. CASE \E c \in Conn : ConnectionEstablished(c)
  <2> PICK c \in Conn : ConnectionEstablished(c)
    BY <1>7
  <2> QED
    BY <1>1, <1>3, <1>4, IdleAssumption
       DEF ConnectionEstablished, Elsewhere, IdleTypeOK, MainInOnePlace, NotYetWatched, OneWatch,
           SeenOrFresh, UsedBefore, WatchedInTime, RunsInTime, LastUse
<1>8. CASE \E c \in Conn : onMessage(c)
  <2> PICK c \in Conn : onMessage(c)
    BY <1>8
  <2> USE DEF onMessage
  <2>1. IdleTypeOK' /\ UsedBefore'
    BY <1>4 DEF IdleTypeOK, UsedBefore
  <2>2. SeenOrFresh'
    <3> SUFFICES ASSUME cpc = "test"
                 PROVE  SeenOrFresh'
      BY DEF SeenOrFresh
    <3>1. cur \in Conn /\ seen \in Int /\ seen <= lastActive[cur] /\ lastActive[c] <= now
      BY IdleAssumption, ConstantsAssumption DEF IdleTypeOK, SeenOrFresh, UsedBefore, Never
    <3>2. CASE cur = c
      BY <1>4, <3>1, <3>2 DEF SeenOrFresh, IdleTypeOK
    <3>3. CASE cur # c
      BY <1>4, <3>1, <3>3 DEF SeenOrFresh, IdleTypeOK
    <3> QED
      BY <3>2, <3>3
  <2>3. \A d \in Conn : LastUse(d) <= LastUse(d)' /\ LastUse(d) \in Int /\ LastUse(d)' \in Int
    BY <1>4 DEF LastUse, IdleTypeOK, UsedBefore
  <2>4. WatchedInTime'
    <3>1. \A d \in Conn, e \in timers \cup due \cup ran : RunsInTime(d, e) => RunsInTime(d, e)'
      BY <2>3, ConstantsAssumption, IdleAssumption DEF RunsInTime, Inv, TypeOK, Entry
    <3> QED
      BY <1>3, <1>4, <3>1 DEF WatchedInTime, WatchesOf
  <2> QED
    BY <1>1, <1>2, <1>3, <1>4, <2>1, <2>2, <2>4
       DEF MainInOnePlace, NotYetWatched, OneWatch
<1>9. CASE \E c \in Conn : CloseByPeer(c) \/ Release(c)
  <2> PICK c \in Conn : CloseByPeer(c) \/ Release(c)
    BY <1>9
  <2>1. /\ conn[c] \in {"open", "closed"} /\ conn'[c] \in {"closed", "gone"}
        /\ \A d \in Conn : d # c => /\ conn'[d] = conn[d] /\ opened'[d] = opened[d]
                                   /\ lastActive'[d] = lastActive[d]
        /\ conn'[c] = "gone" => c # cur /\ c # new
        /\ UNCHANGED <<new, cur, cpc, seen>>
        /\ IdleTypeOK' /\ UsedBefore'
        /\ c = cur => lastActive'[c] = lastActive[c]
    BY <1>2, <1>4, ConstantsAssumption, IdleAssumption
       DEF CloseByPeer, Release, IdleTypeOK, UsedBefore, Never
  <2> QED
    BY <1>1, <1>2, <1>3, <1>4, <2>1, IdleAssumption
       DEF MainInOnePlace, NotYetWatched, OneWatch, SeenOrFresh, WatchedInTime, RunsInTime, LastUse,
           IdleTypeOK
<1> QED
  BY <1>5, <1>6, <1>7, <1>8, <1>9

LEMMA IdleNextInv == IdleInv /\ [IdleNext]_idleVars => IdleInv'
<1> SUFFICES ASSUME IdleInv, [IdleNext]_idleVars
             PROVE  IdleInv'
  OBVIOUS
<1>1. CASE IdleNext
  BY <1>1, TimersInv, RunTimerInv, OnConnectionInv, AddOtherInv, WatchAgainInv, ConnectionsInv
     DEF IdleNext, ActiveClose
<1>2. CASE UNCHANGED idleVars
  <2>1. Inv'
    BY <1>2, NextInv DEF IdleInv, idleVars
  <2> QED
    BY <1>2, <2>1
       DEF idleVars, idle, vars, queue, IdleInv, IdleTypeOK, WatchesOnce, MainInOnePlace,
           NotYetWatched, WatchesOf, OneWatch, SeenOrFresh, UsedBefore, WatchedInTime, RunsInTime,
           LastUse, RanByOneLag
<1> QED
  BY <1>1, <1>2

LEMMA IdleInvariant == IdleSpec => []IdleInv
BY IdleInitInv, IdleNextInv, PTL DEF IdleSpec

-----------------------------------------------------------------------------
(* The timers of the server are those of TimerQueue, so that what is       *)
(* proved of its specification, Punctual above all, holds of them.         *)
THEOREM TimersAreTimers == IdleSpec => Spec
<1>1. IdleInit => Init
  BY DEF IdleInit
<1>2. [IdleNext]_idleVars => [Next]_vars
  BY IdleStep DEF idleVars
<1> QED
  BY <1>1, <1>2, PTL DEF IdleSpec, Spec

(* The variables of the idle rule always have their types, and ActiveClose *)
(* holds a connection only while it runs.                                  *)
THEOREM IdleTypeCorrect == IdleSpec => []IdleTypeOK
<1>1. IdleInv => IdleTypeOK
  BY DEF IdleInv
<1> QED
  BY <1>1, IdleInvariant, PTL

(* An open connection is watched by one timer, or by the ActiveClose that  *)
(* runs: neither the message that comes meanwhile nor a close by the peer  *)
(* leaves it with none or with two.                                        *)
THEOREM EachIsWatchedOnce == IdleSpec => []OneWatch
<1>1. IdleInv => OneWatch
  BY DEF IdleInv
<1> QED
  BY <1>1, IdleInvariant, PTL

(* A connection is closed at most twice the timeout after its last message *)
(* (or after it was opened), and what the loop's lag adds.                 *)
THEOREM NoneIdlesForLong == IdleSpec => []IdleIsClosed
<1>1. IdleInv => IdleIsClosed
  <2> SUFFICES ASSUME IdleInv, NEW c \in Conn, conn[c] = "open", c # new
               PROVE  now <= LastUse(c) + 2 * AUTOCLOSETIMEOUT + 2 * MaxLag + 1
    BY DEF IdleIsClosed
  <2> USE DEF IdleInv
  <2>1. \E e \in timers \cup due \cup ran : /\ RunsInTime(c, e)
                                         /\ now <= e.when + 2 * MaxLag + 1
    <3>1. CASE cur # c
      <4>1. PICK e \in timers \cup due : RunsInTime(c, e)
        BY <3>1 DEF OneWatch, WatchedInTime, WatchesOf
      <4>2. e.when \in Nat
        BY DEF Inv, TypeOK, Entry
      <4>3. CASE Busy
        BY <4>1, <4>2, <4>3, ConstantsAssumption DEF Inv, TypeOK, LateByOneLag
      <4>4. CASE ~Busy
        BY <4>1, <4>2, <4>4, ConstantsAssumption DEF Inv, TypeOK, QueueWaits, FirstArmed, Busy, Expired
      <4> QED
        BY <4>3, <4>4
    <3>2. CASE cur = c
      <4>1. PICK e \in ran : RunsInTime(c, e)
        BY <3>2 DEF WatchedInTime
      <4>2. e.when \in Nat
        BY DEF Inv, TypeOK, Entry
      <4> QED
        BY <4>1, <4>2, ConstantsAssumption DEF RanByOneLag, Inv, TypeOK
    <3> QED
      BY <3>1, <3>2
  <2>2. LastUse(c) \in Int /\ now \in Nat /\ \A e \in timers \cup due \cup ran : e.when \in Nat
    BY ConstantsAssumption, IdleAssumption DEF LastUse, IdleTypeOK, Never, Inv, TypeOK, Entry
  <2> QED
    BY <2>1, <2>2, ConstantsAssumption, IdleAssumption DEF RunsInTime
<1> QED
  BY <1>1, IdleInvariant, PTL

(* The timer closes no connection that was active within the timeout, but  *)
(* for a message that came since the main loop is busy.                    *)
THEOREM ActiveOnesStay == IdleSpec => ActiveStays
<1>1. IdleInv => OnlyIdleIsClosed
  <2> SUFFICES ASSUME IdleInv, NEW c \in Conn, CloseIdle, cur = c
               PROVE  \/ lastActive[c] + AUTOCLOSETIMEOUT < now
                      \/ now - lastActive[c] <= MaxLag
    BY DEF OnlyIdleIsClosed
  <2>1. lastActive[c] \in Int /\ now \in Nat /\ lag \in 0 .. MaxLag
    BY ConstantsAssumption, IdleAssumption DEF IdleInv, IdleTypeOK, Never, Inv, TypeOK
  <2> QED
    BY <2>1, ConstantsAssumption DEF IdleInv, SeenOrFresh, CloseIdle, Idle
<1>2. IdleInv /\ [IdleNext]_idleVars => [OnlyIdleIsClosed]_idleVars
  BY <1>1
<1> QED
  BY <1>2, IdleInvariant, PTL DEF IdleSpec, ActiveStays
=============================================================================
