------------------------------ MODULE TaskPool ------------------------------
(***************************************************************************)
(* What a pool of threads promises those who give it tasks, without the    *)
(* mutex, the condition variable and the flag that its workers test: a     *)
(* task is refused, run at once, or waits its turn in a bounded queue;     *)
(* tasks are started in the order in which they were accepted, each by one *)
(* idle worker, and run once; and after the pool is closed every worker    *)
(* starts one more task at most.                                           *)
(***************************************************************************)
EXTENDS Naturals, Sequences

CONSTANTS
    Workers,
    Tasks,
    Capacity,     \* how many tasks may wait
    NoTask        \* what an idle worker runs

VARIABLES
    threads,      \* the workers the pool was given, if any
    waiting,      \* the tasks accepted and not started, in their order
    running,      \* the task each worker runs
    done,         \* the tasks that were run
    refused,      \* the tasks that were refused
    open,         \* the pool was not closed
    overtime      \* the workers that started a task after it was closed

vars == <<threads, waiting, running, done, refused, open, overtime>>

IsNew(t) ==
    /\ t \notin done \cup refused
    /\ \A i \in DOMAIN waiting : waiting[i] # t
    /\ \A w \in Workers : running[w] # t

Init ==
    /\ threads \in {{}, Workers}
    /\ waiting = <<>>
    /\ running = [w \in Workers |-> NoTask]
    /\ done = {} /\ refused = {} /\ overtime = {}
    /\ open = TRUE

RunAtOnce(t) ==
    /\ IsNew(t) /\ threads = {}
    /\ done' = done \cup {t}
    /\ UNCHANGED <<threads, waiting, running, refused, open, overtime>>

Accept(t) ==
    /\ IsNew(t) /\ threads # {}
    /\ Len(waiting) < Capacity
    /\ waiting' = Append(waiting, t)
    /\ UNCHANGED <<threads, running, done, refused, open, overtime>>

Refuse(t) ==
    /\ IsNew(t) /\ threads # {}
    /\ Len(waiting) >= Capacity
    /\ refused' = refused \cup {t}
    /\ UNCHANGED <<threads, waiting, running, done, open, overtime>>

Start(w) ==
    /\ w \in threads /\ running[w] = NoTask
    /\ open \/ w \notin overtime
    /\ waiting # <<>>
    /\ waiting' = Tail(waiting)
    /\ running' = [running EXCEPT ![w] = Head(waiting)]
    /\ overtime' = IF open THEN overtime ELSE overtime \cup {w}
    /\ UNCHANGED <<threads, done, refused, open>>

Return(w) ==
    /\ running[w] # NoTask
    /\ done' = done \cup {running[w]}
    /\ running' = [running EXCEPT ![w] = NoTask]
    /\ UNCHANGED <<threads, waiting, refused, open, overtime>>

Close ==
    /\ open' = FALSE
    /\ UNCHANGED <<threads, waiting, running, done, refused, overtime>>

Next ==
    \/ \E t \in Tasks : RunAtOnce(t) \/ Accept(t) \/ Refuse(t)
    \/ \E w \in Workers : Start(w) \/ Return(w)
    \/ Close

Spec == Init /\ [][Next]_vars

(* A task is in one place: it waits once, or one worker runs it, or it was *)
(* run or refused.                                                         *)
EachOnce ==
    /\ \A i, j \in DOMAIN waiting : waiting[i] = waiting[j] => i = j
    /\ \A v, w \in Workers : running[v] = running[w] /\ running[w] # NoTask => v = w
    /\ \A i \in DOMAIN waiting, w \in Workers : waiting[i] # running[w]
    /\ \A i \in DOMAIN waiting : waiting[i] \notin done \cup refused
    /\ \A w \in Workers : running[w] \notin done \cup refused
    /\ done \cap refused = {}
=============================================================================
