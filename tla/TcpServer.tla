------------------------------ MODULE TcpServer ------------------------------
(***************************************************************************)
(* The life of the connections of a TcpServer (src/day23/tcp): the main    *)
(* loop accepts them and owns the map of connections, the sub loops read   *)
(* them, and a connection is closed by its own loop or, when the server is *)
(* an HttpServer, also by the idle timer of the main loop.                 *)
(*                                                                         *)
(* Each loop is one thread. A step ends where another thread can see or    *)
(* change what the next one uses: state_, a queue, the kernel's sockets,   *)
(* the counts of shared_ptr. Queueing is one step, which is what module    *)
(* EventLoop proves of a loop (TaskQueue). The bytes sent are left out.    *)
(***************************************************************************)
EXTENDS Integers, Sequences

CONSTANTS
    Conn,       \* the clients that may connect, each one once
    Fd,         \* the descriptors the process may have for connections
    NumSub,     \* the number of sub loops, 0 when everything is on the main loop
    Http,       \* TRUE for HttpServer, FALSE for a server without timer (EchoServer)
    Urgent,     \* the clients that may send an urgent byte (MSG_OOB)
    None

ASSUME ConstantsAssumption == /\ NumSub \in Nat
                              /\ Http \in BOOLEAN
                              /\ Urgent \subseteq Conn
                              /\ None \notin Conn
                              /\ None \notin Fd

Main == 0
Loop == 0 .. NumSub

VARIABLES
    connections,    \* TcpServer: descriptor -> connection, used by the main thread only
    next,           \* EventLoopThreadPool::next
    fdOf, loopOf,   \* TcpConnection::connfd and loop, fixed by the constructor
    state,          \* TcpConnection::state, "Invalid" before ConnectionEstablished
    interest,       \* epoll's interest: "none", "et" (only EPOLLET), "in" (and EPOLLIN)
    edge,           \* the descriptor is on epoll's ready list
    peer,           \* the other end: "none", "open", "shut"
    data,           \* bytes received by the kernel and not read
    urgent,         \* an urgent byte among them: read() passes over it
    pc, cur,        \* per loop: where its thread is, and the shared_ptr on its stack
    ret,            \* per loop: where handleClose returns to
    chs, events,    \* per loop: the ready connections to handle; the main loop's other channels
    todo, functors, \* per loop: to_do_list, and what DoToDoList has still to run
    spent,          \* per loop: the connections bound in functors already run, freed at the end
    timers, expired,\* the connections with an idle timer, and with one being handled
    halted          \* "no", "assert" (deleteConnectionInLoop's assertion failed), "input"
                    \* (Buffer's assertion failed), "accept", "epoll" (errif exits)

server == <<connections, next, fdOf, loopOf>>
kernel == <<interest, edge, peer, data, urgent>>
thread == <<pc, cur, ret>>
ready  == <<chs, events>>
queues == <<todo, functors, spent>>
timing == <<timers, expired>>
vars == <<server, state, kernel, thread, ready, queues, timing, halted>>

Elements(s) == {s[i] : i \in DOMAIN s}

(* Some shared_ptr to c exists, so that c and its Channel are not deleted  *)
(* and its descriptor is not closed.                                       *)
Held(c) == \/ \E f \in Fd : connections[f] = c
           \/ \E l \in Loop : \/ cur[l] = c
                              \/ c \in spent[l]
                              \/ \E task \in Elements(todo[l]) \cup Elements(functors[l]) : task[2] = c

FreeFd == {f \in Fd : \A c \in Conn : fdOf[c] = f => ~Held(c)}

(* A read would return at once, with bytes or with the end of file.        *)
Readable(c) == data[c] \/ peer[c] = "shut"

Backlog == {c \in Conn : peer[c] # "none" /\ fdOf[c] = None}

Init == /\ connections = [f \in Fd |-> None]
        /\ next = 0
        /\ fdOf = [c \in Conn |-> None]
        /\ loopOf = [c \in Conn |-> Main]
        /\ state = [c \in Conn |-> "Invalid"]
        /\ interest = [c \in Conn |-> "none"]
        /\ edge = [c \in Conn |-> FALSE]
        /\ peer = [c \in Conn |-> "none"]
        /\ data = [c \in Conn |-> FALSE]
        /\ urgent = [c \in Conn |-> FALSE]
        /\ pc = [l \in Loop |-> "poll"]
        /\ cur = [l \in Loop |-> None]
        /\ ret = [l \in Loop |-> "handle"]
        /\ chs = [l \in Loop |-> {}]
        /\ events = {}
        /\ todo = [l \in Loop |-> <<>>]
        /\ functors = [l \in Loop |-> <<>>]
        /\ spent = [l \in Loop |-> {}]
        /\ timers = {}
        /\ expired = {}
        /\ halted = "no"

At(l, place) == pc[l] = place
Goto(l, place) == pc' = [pc EXCEPT ![l] = place]
Return(l, place) == Goto(l, place) /\ cur' = [cur EXCEPT ![l] = None] /\ UNCHANGED ret

-----------------------------------------------------------------------------
(* The clients.                                                            *)
PeerConnects(c) ==
    /\ peer[c] = "none"
    /\ peer' = [peer EXCEPT ![c] = "open"]
    /\ UNCHANGED <<server, state, interest, edge, data, urgent, thread, ready, queues, timing, halted>>

PeerSends(c) ==
    /\ peer[c] = "open"
    /\ fdOf[c] # None => Held(c)
    /\ data' = [data EXCEPT ![c] = TRUE]
    /\ edge' = [edge EXCEPT ![c] = TRUE]
    /\ UNCHANGED <<server, state, interest, peer, urgent, thread, ready, queues, timing, halted>>

PeerSendsUrgent(c) ==
    /\ c \in Urgent
    /\ peer[c] = "open"
    /\ fdOf[c] # None => Held(c)
    /\ urgent' = [urgent EXCEPT ![c] = TRUE]
    /\ edge' = [edge EXCEPT ![c] = TRUE]
    /\ UNCHANGED <<server, state, interest, peer, data, thread, ready, queues, timing, halted>>

(* The client shuts down or resets its end.                                *)
PeerCloses(c) ==
    /\ peer[c] = "open"
    /\ peer' = [peer EXCEPT ![c] = "shut"]
    /\ edge' = [edge EXCEPT ![c] = TRUE]
    /\ UNCHANGED <<server, state, interest, data, urgent, thread, ready, queues, timing, halted>>

-----------------------------------------------------------------------------
(* Mutant of ReadEvent: any event is taken for a read event.               *)
AnyEvent(c) == edge[c]

(* Channel::handleEventWithGuard calls the read callback for an event with *)
(* EPOLLIN or EPOLLPRI, both of which enableReading asks for: the kernel   *)
(* sets the one on a descriptor with input, the other for an urgent byte.  *)
ReadEvent(c) == edge[c] /\ (Readable(c) \/ urgent[c])

(* EventLoop::loop: epoll_wait returns the descriptors on the ready list   *)
(* that are still ready, and takes them off the list; a nonempty           *)
(* to_do_list has made the eventfd ready.                                  *)
Watched(l) == {c \in Conn : interest[c] = "in" /\ loopOf[c] = l}

Poll(l) ==
    /\ At(l, "poll")
    /\ chs' = [chs EXCEPT ![l] = {c \in Watched(l) : ReadEvent(c)}]
    /\ IF l = Main
       THEN \E fires \in BOOLEAN :
              /\ fires => timers # {}
              /\ events' = {e \in {"accept", "timer"} : IF e = "accept" THEN Backlog # {} ELSE fires}
       ELSE UNCHANGED events
    /\ chs'[l] # {} \/ todo[l] # <<>> \/ (l = Main /\ events' # {})
    /\ edge' = [c \in Conn |-> edge[c] /\ c \notin Watched(l)]
    /\ Goto(l, "handle")
    /\ UNCHANGED <<server, state, interest, peer, data, urgent, cur, ret, queues, timing, halted>>

(* Channel::handleEvent locks tie, then calls TcpConnection::handleMessage.*)
HandleEvent(l, c) ==
    /\ At(l, "handle")
    /\ c \in chs[l]
    /\ chs' = [chs EXCEPT ![l] = @ \ {c}]
    /\ cur' = [cur EXCEPT ![l] = c]
    /\ Goto(l, "read")
    /\ UNCHANGED <<server, state, kernel, ret, events, queues, timing, halted>>

(* recvNonBlocking reads until EAGAIN, or until the end of file, and then  *)
(* calls handleClose. It passes over an urgent byte, and when there is     *)
(* nothing else recvBuf stays empty.                                       *)
Read(l) ==
    /\ At(l, "read")
    /\ LET c == cur[l] IN
       /\ data' = [data EXCEPT ![c] = FALSE]
       /\ urgent' = [urgent EXCEPT ![c] = FALSE]
       /\ Goto(l, IF peer[c] = "shut" THEN "close" ELSE IF data[c] THEN "message" ELSE "empty")
    /\ ret' = [ret EXCEPT ![l] = "message"]
    /\ UNCHANGED <<server, state, interest, edge, peer, cur, ready, queues, timing, halted>>

(* on_message_: nothing on a closed connection; else the answer is sent.   *)
(* An HttpServer closes after a malformed request, or when the request or  *)
(* the response says so. Sending may enable writing, a MOD of the interest,*)
(* which puts a descriptor that is ready back on the ready list.           *)
Message(l) ==
    /\ At(l, "message")
    /\ state[cur[l]] # "Connected"
    /\ Return(l, "handle")
    /\ UNCHANGED <<server, state, kernel, ready, queues, timing, halted>>

(* on_message_ with recvBuf empty: HttpServer::onMessage calls             *)
(* RetrieveAllAsString, which asserts that it is not, and EchoServer sends *)
(* nothing.                                                                *)
MessageEmpty(l) ==
    /\ At(l, "empty")
    /\ IF Http /\ state[cur[l]] = "Connected"
       THEN halted' = "input" /\ UNCHANGED thread
       ELSE Return(l, "handle") /\ UNCHANGED halted
    /\ UNCHANGED <<server, state, kernel, ready, queues, timing>>

Modify(c) == edge' = [edge EXCEPT ![c] = @ \/ Readable(c) \/ urgent[c]]

Reply(l) ==
    /\ At(l, "message")
    /\ state[cur[l]] = "Connected"
    /\ \/ Modify(cur[l])
       \/ UNCHANGED edge
    /\ \/ Return(l, "handle")
       \/ /\ Http
          /\ Goto(l, "close")
          /\ ret' = [ret EXCEPT ![l] = "handle"]
          /\ UNCHANGED cur
    /\ UNCHANGED <<server, state, interest, peer, data, urgent, ready, queues, timing, halted>>

-----------------------------------------------------------------------------
(* TcpServer::deleteConnectionInLoop, in the main thread: the entry is     *)
(* found by descriptor and erased, and the release is queued.              *)
Queue(l, task) == todo' = [todo EXCEPT ![l] = Append(@, task)]

(* Mutant of DeleteConnectionInLoop: the release is not queued.            *)
DeleteWithoutRelease(c) ==
    \/ /\ connections[fdOf[c]] # None
       /\ connections' = [connections EXCEPT ![fdOf[c]] = None]
       /\ UNCHANGED <<todo, halted>>
    \/ /\ connections[fdOf[c]] = None
       /\ halted' = "assert"
       /\ UNCHANGED <<connections, todo>>

(* Mutant of DeleteConnectionInLoop: the entry is not erased.              *)
DeleteKeepsEntry(c) ==
    /\ Queue(loopOf[c], <<"destroy", c>>)
    /\ UNCHANGED <<connections, halted>>

DeleteConnectionInLoop(c) ==
    \/ /\ connections[fdOf[c]] # None
       /\ connections' = [connections EXCEPT ![fdOf[c]] = None]
       /\ Queue(loopOf[c], <<"destroy", c>>)
       /\ UNCHANGED halted
    \/ /\ connections[fdOf[c]] = None
       /\ halted' = "assert"
       /\ UNCHANGED <<connections, todo>>

(* The end of handleClose: recvNonBlocking goes on to on_message_, the     *)
(* other callers are done with the connection.                             *)
CloseReturns(l) ==
    /\ Goto(l, ret[l])
    /\ cur' = IF ret[l] = "message" THEN cur ELSE [cur EXCEPT ![l] = None]

(* Mutant of CloseTest: state is not tested.                               *)
CloseUntested(l) ==
    /\ At(l, "close")
    /\ Goto(l, "set")
    /\ UNCHANGED <<server, state, kernel, cur, ret, ready, queues, timing, halted>>

(* TcpConnection::handleClose, in the connection's loop or in the main     *)
(* loop: the test of state, ...                                            *)
CloseTest(l) ==
    /\ At(l, "close")
    /\ IF state[cur[l]] # "Closed" THEN Goto(l, "set") /\ UNCHANGED cur ELSE CloseReturns(l)
    /\ UNCHANGED <<server, state, kernel, ret, ready, queues, timing, halted>>

(* Mutant of CloseSet: state is not assigned.                              *)
CloseUnset(l) ==
    /\ At(l, "set")
    /\ Goto(l, "notify")
    /\ UNCHANGED <<server, state, kernel, cur, ret, ready, queues, timing, halted>>

(* ... the assignment, ...                                                 *)
CloseSet(l) ==
    /\ At(l, "set")
    /\ state' = [state EXCEPT ![cur[l]] = "Closed"]
    /\ Goto(l, "notify")
    /\ UNCHANGED <<server, kernel, cur, ret, ready, queues, timing, halted>>

(* ... and on_close_, which has the main loop run deleteConnectionInLoop,  *)
(* at once when this is the main thread.                                   *)
CloseNotify(l) ==
    /\ At(l, "notify")
    /\ IF l = Main THEN DeleteConnectionInLoop(cur[l])
       ELSE Queue(Main, <<"delete", cur[l]>>) /\ UNCHANGED <<connections, halted>>
    /\ CloseReturns(l)
    /\ UNCHANGED <<next, fdOf, loopOf, state, kernel, ret, ready, functors, spent, timing>>

-----------------------------------------------------------------------------
(* EventLoopThreadPool::getNextLoop, round robin over the sub loops; and   *)
(* its mutant, off by one.                                                 *)
NextOffByOne == next + 2

GetNextLoop == IF NumSub = 0 THEN Main ELSE next + 1

(* The main loop: Acceptor::acceptConnection up to TcpConnection's         *)
(* constructor, which adds the channel to the connection's loop, already   *)
(* polling, with EPOLLET alone.                                            *)
Accept(c, f) ==
    /\ At(Main, "handle")
    /\ "accept" \in events
    /\ events' = events \ {"accept"}
    /\ c \in Backlog
    /\ f \in FreeFd
    /\ fdOf' = [fdOf EXCEPT ![c] = f]
    /\ loopOf' = [loopOf EXCEPT ![c] = GetNextLoop]
    /\ next' = IF NumSub = 0 THEN next ELSE (next + 1) % NumSub
    /\ interest' = [interest EXCEPT ![c] = "et"]
    /\ cur' = [cur EXCEPT ![Main] = c]
    /\ Goto(Main, "establish")
    /\ UNCHANGED <<connections, state, edge, peer, data, urgent, ret, chs, queues, timing, halted>>

(* accept4 fails, here for want of a descriptor: errif exits.              *)
AcceptFails ==
    /\ At(Main, "handle")
    /\ "accept" \in events
    /\ FreeFd = {}
    /\ halted' = "accept"
    /\ UNCHANGED <<server, state, kernel, thread, ready, queues, timing>>

(* TcpServer::newConnection enters it in the map, and ConnectionEstablished*)
(* makes it Connected ...                                                  *)
Establish ==
    /\ At(Main, "establish")
    /\ connections' = [connections EXCEPT ![fdOf[cur[Main]]] = cur[Main]]
    /\ state' = [state EXCEPT ![cur[Main]] = "Connected"]
    /\ Goto(Main, "enable")
    /\ UNCHANGED <<next, fdOf, loopOf, kernel, cur, ret, ready, queues, timing, halted>>

(* Mutant of EnableReading: the flag is set and epoll is not told.         *)
EnableWithoutUpdate ==
    /\ At(Main, "enable")
    /\ Goto(Main, "connected")
    /\ UNCHANGED <<server, state, kernel, cur, ret, ready, queues, timing, halted>>

(* ... and enables reading, a MOD: from here on its loop handles it, ...   *)
EnableReading ==
    /\ At(Main, "enable")
    /\ interest' = [interest EXCEPT ![cur[Main]] = "in"]
    /\ Modify(cur[Main])
    /\ Goto(Main, "connected")
    /\ UNCHANGED <<server, state, peer, data, urgent, cur, ret, ready, queues, timing, halted>>

(* ... while on_connect_ starts the idle timer of an HttpServer.           *)
OnConnection ==
    /\ At(Main, "connected")
    /\ timers' = IF Http THEN timers \cup {cur[Main]} ELSE timers
    /\ Return(Main, "handle")
    /\ UNCHANGED <<server, state, kernel, ready, queues, expired, halted>>

-----------------------------------------------------------------------------
(* TimerQueue::handleRead takes the expired timers and runs each.          *)
HandleTimers ==
    /\ At(Main, "handle")
    /\ "timer" \in events
    /\ events' = events \ {"timer"}
    /\ expired' \in SUBSET timers \ {{}}
    /\ timers' = timers \ expired'
    /\ Goto(Main, "timer")
    /\ UNCHANGED <<server, state, kernel, cur, ret, chs, queues, halted>>

(* HttpServer::ActiveClose locks its weak_ptr, ...                         *)
TimerFires(c) ==
    /\ At(Main, "timer")
    /\ c \in expired
    /\ expired' = expired \ {c}
    /\ IF Held(c) THEN Goto(Main, "active") /\ cur' = [cur EXCEPT ![Main] = c]
       ELSE UNCHANGED <<pc, cur>>
    /\ UNCHANGED <<server, state, kernel, ret, ready, queues, timers, halted>>

(* ... and closes the connection if it has been idle, else waits again.    *)
(* How long it has been idle is left open.                                 *)
ActiveClose ==
    /\ At(Main, "active")
    /\ \/ /\ Goto(Main, "close")
          /\ ret' = [ret EXCEPT ![Main] = "timer"]
          /\ UNCHANGED <<cur, timers>>
       \/ /\ timers' = timers \cup {cur[Main]}
          /\ Return(Main, "timer")
    /\ UNCHANGED <<server, state, kernel, ready, queues, expired, halted>>

TimersDone ==
    /\ At(Main, "timer")
    /\ expired = {}
    /\ Goto(Main, "handle")
    /\ UNCHANGED <<server, state, kernel, cur, ret, ready, queues, timing, halted>>

-----------------------------------------------------------------------------
(* EventLoop::DoToDoList takes the queue, ...                              *)
Swap(l) ==
    /\ At(l, "handle")
    /\ chs[l] = {} /\ (l = Main => events = {})
    /\ functors' = [functors EXCEPT ![l] = todo[l]]
    /\ todo' = [todo EXCEPT ![l] = <<>>]
    /\ Goto(l, "run")
    /\ UNCHANGED <<server, state, kernel, cur, ret, ready, spent, timing, halted>>

(* ... runs the functors, each of which keeps its shared_ptr, ...          *)
Run(l, kind) ==
    /\ At(l, "run")
    /\ functors[l] # <<>>
    /\ Head(functors[l])[1] = kind
    /\ functors' = [functors EXCEPT ![l] = Tail(@)]
    /\ spent' = [spent EXCEPT ![l] = @ \cup {Head(functors[l])[2]}]

RunDelete ==
    /\ Run(Main, "delete")
    /\ DeleteConnectionInLoop(Head(functors[Main])[2])
    /\ UNCHANGED <<next, fdOf, loopOf, state, kernel, thread, ready, timing>>

(* ... TcpConnection::ConnectionDestructor, the DEL of the interest, which *)
(* errif checks, ...                                                       *)
RunDestroy(l) ==
    /\ Run(l, "destroy")
    /\ LET c == Head(functors[l])[2] IN
       /\ interest' = [interest EXCEPT ![c] = "none"]
       /\ halted' = IF interest[c] = "none" THEN "epoll" ELSE halted
    /\ UNCHANGED <<server, state, edge, peer, data, urgent, thread, ready, todo, timing>>

(* ... and frees them together when it returns.                            *)
EndFunctors(l) ==
    /\ At(l, "run")
    /\ functors[l] = <<>>
    /\ spent' = [spent EXCEPT ![l] = {}]
    /\ Goto(l, "poll")
    /\ UNCHANGED <<server, state, kernel, cur, ret, ready, todo, functors, timing, halted>>

-----------------------------------------------------------------------------
LoopStep(l) == \/ Poll(l) \/ Read(l) \/ Message(l) \/ Reply(l) \/ MessageEmpty(l)
               \/ \E c \in Conn : HandleEvent(l, c)
               \/ CloseTest(l) \/ CloseSet(l) \/ CloseNotify(l)
               \/ Swap(l) \/ RunDestroy(l) \/ EndFunctors(l)

MainStep == \/ \E c \in Conn, f \in Fd : Accept(c, f)
            \/ AcceptFails \/ Establish \/ EnableReading \/ OnConnection
            \/ HandleTimers \/ ActiveClose \/ TimersDone
            \/ \E c \in Conn : TimerFires(c)
            \/ RunDelete

PeerStep(c) == PeerConnects(c) \/ PeerSends(c) \/ PeerSendsUrgent(c) \/ PeerCloses(c)

Step(l) == halted = "no" /\ (LoopStep(l) \/ (l = Main /\ MainStep))

Next == \/ \E l \in Loop : Step(l)
        \/ halted = "no" /\ \E c \in Conn : PeerStep(c)

(* Every thread that can run does; the clients need not do anything.       *)
Fairness == \A l \in Loop : WF_vars(Step(l))

Spec == Init /\ [][Next]_vars /\ Fairness

-----------------------------------------------------------------------------
Tasks == {"delete", "destroy"} \X Conn
Places == {"poll", "handle", "read", "message", "empty", "close", "set", "notify", "establish",
           "enable", "connected", "timer", "active", "run"}

TypeOK == /\ connections \in [Fd -> Conn \cup {None}]
          /\ next \in Nat /\ (NumSub > 0 => next < NumSub)
          /\ fdOf \in [Conn -> Fd \cup {None}]
          /\ loopOf \in [Conn -> Loop]
          /\ state \in [Conn -> {"Invalid", "Connected", "Closed"}]
          /\ interest \in [Conn -> {"none", "et", "in"}]
          /\ edge \in [Conn -> BOOLEAN]
          /\ peer \in [Conn -> {"none", "open", "shut"}]
          /\ data \in [Conn -> BOOLEAN]
          /\ urgent \in [Conn -> BOOLEAN]
          /\ pc \in [Loop -> Places]
          /\ cur \in [Loop -> Conn \cup {None}]
          /\ ret \in [Loop -> {"handle", "message", "timer"}]
          /\ chs \in [Loop -> SUBSET Conn]
          /\ events \in SUBSET {"accept", "timer"}
          /\ todo \in [Loop -> Seq(Tasks)]
          /\ functors \in [Loop -> Seq(Tasks)]
          /\ spent \in [Loop -> SUBSET Conn]
          /\ timers \in SUBSET Conn
          /\ expired \in SUBSET Conn
          /\ halted \in {"no", "assert", "input", "accept", "epoll"}

(* A loop never holds the Channel of a deleted connection: one that epoll  *)
(* returned is alive until it is handled (Channel::handleEvent does not    *)
(* test what tie.lock() gives), whatever the other thread closes meanwhile.*)
NoDanglingChannel == \A l \in Loop : \A c \in chs[l] : Held(c)

(* The kernel never holds one either: the pointer in epoll_event is        *)
(* withdrawn by ConnectionDestructor before the last shared_ptr goes.      *)
RegisteredIsHeld == \A c \in Conn : interest[c] # "none" => Held(c)

(* A read event always finds what raised it: nobody else takes the input   *)
(* of a connection, and no event comes twice for the same bytes. So        *)
(* onMessage is called with an empty recvBuf, which fails the assertion of *)
(* Buffer::RetrieveAllAsString (Buffer.cpp:82), only after a client has    *)
(* sent an urgent byte, of which recv gets nothing.                        *)
EventHasInput ==
    /\ \A l \in Loop, c \in Conn :
          c \in chs[l] \/ (At(l, "read") /\ cur[l] = c) => Readable(c) \/ urgent[c]
    /\ \A l \in Loop : At(l, "empty") => cur[l] \in Urgent

(* An entry of the map is never replaced by a later connection with the    *)
(* same descriptor, and leaves the map only once its own connection closed.*)
EntryOutlivesConnection ==
    [][\A f \in Fd : connections[f] # None /\ connections'[f] # connections[f]
                       => connections'[f] = None /\ state[connections[f]] = "Closed"]_vars

(* The assertion of deleteConnectionInLoop holds and the DEL of            *)
(* ConnectionDestructor succeeds: a connection is removed once.            *)
RemovedOnce == halted \notin {"assert", "epoll"}

(* The end of file of a client reaches its connection, though the events   *)
(* are edge triggered and the client may be done before reading is enabled.*)
PeerCloseIsSeen ==
    \A c \in Conn : peer[c] = "shut" ~> (state[c] = "Closed" \/ halted # "no")

(* A closed connection is released, and its descriptor with it.            *)
ClosedIsReleased ==
    \A c \in Conn : state[c] = "Closed" ~> (~Held(c) \/ halted # "no")
=============================================================================
