------------------------------ MODULE TaskQueue ------------------------------
(***************************************************************************)
(* What an EventLoop promises to the threads that hand it functions        *)
(* (src/day23/tcp/EventLoop.h, RunOneFunc and QueueOneFunc): a queued      *)
(* function is run by the loop's thread exactly once, queued functions run *)
(* in the order they were queued, and every queued function is run.  A     *)
(* function passed to RunOneFunc by the loop's own thread runs at once,    *)
(* ahead of everything that is queued.                                     *)
(***************************************************************************)
EXTENDS Sequences

CONSTANT Task       \* the functions

VARIABLES
    pending,        \* queued and not yet run, oldest first
    ran             \* history: the functions run, in order

vars == <<pending, ran>>

Elements(s) == {s[i] : i \in DOMAIN s}

(* A function not handed to the loop yet. Each is handed over once.        *)
Fresh(t) == t \notin Elements(pending) \cup Elements(ran)

Init == /\ pending = <<>>
        /\ ran = <<>>

Post(t) == /\ Fresh(t)
           /\ pending' = Append(pending, t)
           /\ UNCHANGED ran

RunDirectly(t) == /\ Fresh(t)
                  /\ ran' = Append(ran, t)
                  /\ UNCHANGED pending

RunQueued == /\ pending # <<>>
             /\ ran' = Append(ran, Head(pending))
             /\ pending' = Tail(pending)

Next == \/ \E t \in Task : Post(t) \/ RunDirectly(t)
        \/ RunQueued

Spec == Init /\ [][Next]_vars /\ WF_vars(RunQueued)
=============================================================================
