------------------------------ MODULE IdleClose ------------------------------
(***************************************************************************)
(* The idle rule of the HTTP server (src/day23/http/HttpServer.cpp): each  *)
(* connection has a timer in the main loop. When it runs, ActiveClose      *)
(* closes the connection if its last message is longer ago than            *)
(* AUTOCLOSETIMEOUT, and adds another timer otherwise. The messages come   *)
(* in another thread, that of the connection's loop, at any moment: it     *)
(* writes the last active time that ActiveClose reads.                     *)
(*                                                                         *)
(* The module extends the timers of the main loop: an action of it is one  *)
(* of TimerQueue with what it does to connections, or one of another       *)
(* thread, which leaves the timers as they are.                            *)
(***************************************************************************)
EXTENDS TimerQueue

CONSTANTS
    Conn,               \* the connections
    AUTOCLOSETIMEOUT,
    None                \* no connection

ASSUME IdleAssumption == /\ AUTOCLOSETIMEOUT \in Delay
                         /\ AUTOCLOSETIMEOUT > 0
                         /\ 0 \in Interval
                         /\ None \notin Conn

VARIABLES
    conn,       \* "closed" connections still have an owner, "gone" ones have not
    new,        \* the connection that the main loop is in ConnectionEstablished of
    opened,     \* when onConnection added its timer
    lastActive, \* last_active_time_
    watch,      \* the connection that ActiveClose is bound to in a timer
    cur, cpc,   \* conn in ActiveClose, and where ActiveClose is
    seen        \* what getLastActiveTime gave

idle == <<conn, new, opened, lastActive, watch, cur, cpc, seen>>
idleVars == <<vars, idle>>

(* A TimeStamp is made with the year 1970.                                 *)
Never == -AUTOCLOSETIMEOUT - 1

IdleInit == /\ Init
            /\ conn = [c \in Conn |-> "none"]
            /\ new = None
            /\ opened = [c \in Conn |-> 0]
            /\ lastActive = [c \in Conn |-> Never]
            /\ watch = [timer \in Timer |-> None]
            /\ cur = None /\ cpc = "none"
            /\ seen = Never

-----------------------------------------------------------------------------
(* RunAfter with a callback that is bound to a connection, or to none.     *)
RunAfter(timer, delay, interval, c) ==
    /\ addTimer(timer, delay, interval)
    /\ watch' = [watch EXCEPT ![timer] = c]

(* The main loop is in a callback of its own, not in ActiveClose.          *)
Elsewhere == cpc = "none" /\ new = None

(* The first half of ConnectionEstablished: from here on messages come.    *)
ConnectionEstablished(c) ==
    /\ Elsewhere /\ pc # "run"
    /\ conn[c] = "none"
    /\ conn' = [conn EXCEPT ![c] = "open"]
    /\ new' = c
    /\ UNCHANGED <<vars, opened, lastActive, watch, cur, cpc, seen>>

(* Mutant of onConnection: the timer is a repeating one.                   *)
onConnectionEvery(timer) ==
    /\ new # None
    /\ RunAfter(timer, AUTOCLOSETIMEOUT, AUTOCLOSETIMEOUT, new)
    /\ opened' = [opened EXCEPT ![new] = now]
    /\ new' = None
    /\ UNCHANGED <<conn, lastActive, cur, cpc, seen>>

onConnection(timer) ==
    /\ new # None
    /\ RunAfter(timer, AUTOCLOSETIMEOUT, 0, new)
    /\ opened' = [opened EXCEPT ![new] = now]
    /\ new' = None
    /\ UNCHANGED <<conn, lastActive, cur, cpc, seen>>

(* Another callback of the main loop adds a timer.                         *)
AddOther(timer, delay, interval) ==
    /\ Elsewhere
    /\ RunAfter(timer, delay, interval, None)
    /\ UNCHANGED <<conn, new, opened, lastActive, cur, cpc, seen>>

(* The loop of a connection, a thread of its own.                          *)
onMessage(c) ==
    /\ conn[c] = "open"
    /\ lastActive' = [lastActive EXCEPT ![c] = now]
    /\ UNCHANGED <<vars, conn, new, opened, watch, cur, cpc, seen>>

CloseByPeer(c) ==
    /\ conn[c] = "open"
    /\ conn' = [conn EXCEPT ![c] = "closed"]
    /\ UNCHANGED <<vars, new, opened, lastActive, watch, cur, cpc, seen>>

(* The last owner of a closed connection other than ActiveClose and        *)
(* ConnectionEstablished lets it go, and with it what is known of it.      *)
Release(c) ==
    /\ conn[c] = "closed" /\ c \notin {cur, new}
    /\ conn' = [conn EXCEPT ![c] = "gone"]
    /\ lastActive' = [lastActive EXCEPT ![c] = Never]
    /\ opened' = [opened EXCEPT ![c] = 0]
    /\ UNCHANGED <<vars, new, watch, cur, cpc, seen>>

-----------------------------------------------------------------------------
(* The callback of a timer that is bound to a connection: lock of the weak *)
(* pointer gives nothing if the connection is gone. Other callbacks leave  *)
(* connections as they are.                                                *)
Lock(e) == LET c == watch[e.timer]
           IN  IF c # None /\ conn[c] # "gone"
               THEN cur' = c /\ cpc' = "read"
               ELSE UNCHANGED <<cur, cpc>>

RunTimer(e) == /\ Elsewhere
               /\ run(e)
               /\ Lock(e)
               /\ UNCHANGED <<conn, new, opened, lastActive, watch, seen>>

getLastActiveTime ==
    /\ cpc = "read"
    /\ seen' = lastActive[cur]
    /\ cpc' = "test"
    /\ UNCHANGED <<vars, conn, new, opened, lastActive, watch, cur>>

(* Mutants of Idle: a moment earlier, and only if a message ever came.     *)
IdleSoon == seen + AUTOCLOSETIMEOUT <= now
IdleOnceUsed == seen # Never /\ seen + AUTOCLOSETIMEOUT < now

Idle == seen + AUTOCLOSETIMEOUT < now

Done == cur' = None /\ cpc' = "none" /\ seen' = Never

(* Mutant of CloseIdle: the strong pointer is kept.                        *)
CloseIdleKeeps ==
    /\ cpc = "test" /\ Idle
    /\ conn' = [conn EXCEPT ![cur] = IF @ = "open" THEN "closed" ELSE @]
    /\ cpc' = "none"
    /\ seen' = Never
    /\ UNCHANGED <<vars, new, opened, lastActive, watch, cur>>

CloseIdle ==
    /\ cpc = "test" /\ Idle
    /\ conn' = [conn EXCEPT ![cur] = IF @ = "open" THEN "closed" ELSE @]
    /\ Done
    /\ UNCHANGED <<vars, new, opened, lastActive, watch>>

WatchAgain(timer) ==
    /\ cpc = "test" /\ ~Idle
    /\ RunAfter(timer, AUTOCLOSETIMEOUT, 0, cur)
    /\ Done
    /\ UNCHANGED <<conn, new, opened, lastActive>>

ActiveClose == \/ getLastActiveTime
               \/ CloseIdle
               \/ \E timer \in Timer : WatchAgain(timer)

-----------------------------------------------------------------------------
(* The timers' other steps. resetTimers deletes those that do not repeat,  *)
(* with what their callbacks are bound to.                                 *)
DeleteTimers ==
    /\ Elsewhere
    /\ resetTimers
    /\ watch' = [timer \in Timer |-> IF timer \in InUse' THEN watch[timer] ELSE None]
    /\ UNCHANGED <<conn, new, opened, lastActive, cur, cpc, seen>>

Timers == \/ DeleteTimers
          \/ /\ Tick \/ (Elsewhere /\ (Poll \/ handleRead))
             /\ UNCHANGED idle

IdleNext ==
    \/ Timers
    \/ ActiveClose
    \/ \E e \in due : RunTimer(e)
    \/ \E timer \in Timer : onConnection(timer)
    \/ \E timer \in Timer, delay \in Delay, interval \in Interval :
          AddOther(timer, delay, interval)
    \/ \E c \in Conn : \/ ConnectionEstablished(c)
                       \/ onMessage(c)
                       \/ CloseByPeer(c)
                       \/ Release(c)

IdleSpec == IdleInit /\ [][IdleNext]_idleVars

-----------------------------------------------------------------------------
IdleTypeOK ==
    /\ conn \in [Conn -> {"none", "open", "closed", "gone"}]
    /\ new \in Conn \cup {None}
    /\ opened \in [Conn -> Nat]
    /\ lastActive \in [Conn -> Nat \cup {Never}]
    /\ watch \in [Timer -> Conn \cup {None}]
    /\ cur \in Conn \cup {None}
    /\ cpc \in {"none", "read", "test"}
    /\ cpc = "none" <=> cur = None
    /\ seen \in Nat \cup {Never}

WatchesOf(c) == {e \in timers \cup due : watch[e.timer] = c}

(* An open connection is watched, once: by one timer that is still to run, *)
(* or by ActiveClose, which either closes it or adds the next timer.       *)
OneWatch ==
    \A c \in Conn : conn[c] = "open" /\ c # new =>
        /\ cur # c => \E e \in WatchesOf(c) : WatchesOf(c) = {e}
        /\ cur = c => WatchesOf(c) = {}

LastUse(c) == IF lastActive[c] > opened[c] THEN lastActive[c] ELSE opened[c]

(* No connection stays open for longer than twice the timeout, and what a  *)
(* timer may be late by, after its last message.                           *)
IdleIsClosed ==
    \A c \in Conn : conn[c] = "open" /\ c # new =>
        now <= LastUse(c) + 2 * AUTOCLOSETIMEOUT + 2 * MaxLag + 1

(* The timer closes no connection with a message in the last               *)
(* AUTOCLOSETIMEOUT, unless the message came while ActiveClose was running.*)
OnlyIdleIsClosed ==
    \A c \in Conn : CloseIdle /\ cur = c /\ conn[c] = "open" =>
        \/ lastActive[c] + AUTOCLOSETIMEOUT < now
        \/ now - lastActive[c] <= MaxLag
ActiveStays == [][OnlyIdleIsClosed]_idleVars
=============================================================================
