----------------------------- MODULE ThreadPool -----------------------------
(***************************************************************************)
(* ThreadPool (src/server_common/common/ThreadPool.h): a bounded queue of  *)
(* tasks, worker threads that sleep on a condition variable, and stop,     *)
(* which clears a flag that the workers read with and without the mutex.   *)
(*                                                                         *)
(* A critical section is one action, except where the worker reads the     *)
(* flag inside of it: stop clears the flag without the mutex, so each of   *)
(* the worker's steps there is an action.  A task is only a name, each is  *)
(* pushed once; tasks return.                                              *)
(***************************************************************************)
EXTENDS Naturals, Sequences, FiniteSets

CONSTANTS
    Workers,        \* the threads init starts
    Tasks,          \* the tasks the users of the pool push
    m_iQueueSize,   \* init's queueSize
    NoTask          \* what a worker holds that runs no task

ASSUME PoolAssumption ==
    IsFiniteSet(Workers) /\ m_iQueueSize \in Nat /\ NoTask \notin Tasks

VARIABLES
    m_vtThread,     \* the workers there are: none before or without init
    m_queue,        \* the tasks nobody has taken
    m_bRunning,     \* cleared by stop, read without the mutex
    pc,             \* where each worker is in runInThread
    hand,           \* the task each worker runs
    owner,          \* how far the owner of the pool is in ending it
    ran,            \* tasks that have returned
    refused,        \* tasks push answered -1 for
    late            \* history: tasks each worker took after the flag was cleared

vars == <<m_vtThread, m_queue, m_bRunning, pc, hand, owner, ran, refused, late>>

At(places) == {w \in Workers : pc[w] \in places}

(* The worker holds the mutex between the test of the queue and the wait.  *)
Free == At({"check", "wait"}) = {}
Sleepers == At({"asleep"})

Goes(w, place) == pc' = [pc EXCEPT ![w] = place]
Wake(sleepers) ==
    pc' = [w \in Workers |-> IF w \in sleepers THEN "lock" ELSE pc[w]]

Init ==
    /\ m_vtThread \in {{}, Workers}
    /\ m_queue = <<>>
    /\ m_bRunning = TRUE
    /\ pc = [w \in Workers |-> IF w \in m_vtThread THEN "loop" ELSE "done"]
    /\ hand = [w \in Workers |-> NoTask]
    /\ owner = "running"
    /\ ran = {}
    /\ refused = {}
    /\ late = [w \in Workers |-> 0]

---------------------------------------------------------------------------
(* push, by any thread while the pool exists.                              *)
Fresh(t) ==
    /\ t \notin ran \cup refused
    /\ \A i \in DOMAIN m_queue : m_queue[i] # t
    /\ \A w \in Workers : hand[w] # t

MayPush(t) == owner # "destroyed" /\ Fresh(t)

FullTooLate == Len(m_queue) > m_iQueueSize + 1   \* mutant: off by one
Full == Len(m_queue) > m_iQueueSize

NotifyNone == UNCHANGED pc             \* mutant: push notifies nobody
NotifyFirst ==                         \* mutant: only the first task notifies
    IF m_queue = <<>> /\ Sleepers # {} THEN \E w \in Sleepers : Wake({w})
                                       ELSE UNCHANGED pc
NotifyOne ==
    \/ Sleepers = {} /\ UNCHANGED pc
    \/ \E w \in Sleepers : Wake({w})

PushInline(t) ==
    /\ MayPush(t)
    /\ m_vtThread = {}
    /\ ran' = ran \cup {t}
    /\ UNCHANGED <<m_vtThread, m_queue, m_bRunning, pc, hand, owner, refused, late>>

PushRefused(t) ==
    /\ MayPush(t)
    /\ m_vtThread # {}
    /\ Free
    /\ Full
    /\ refused' = refused \cup {t}
    /\ UNCHANGED <<m_vtThread, m_queue, m_bRunning, pc, hand, owner, ran, late>>

Push(t) ==
    /\ MayPush(t)
    /\ m_vtThread # {}
    /\ Free
    /\ ~ Full
    /\ m_queue' = Append(m_queue, t)
    /\ NotifyOne
    /\ UNCHANGED <<m_vtThread, m_bRunning, hand, owner, ran, refused, late>>

---------------------------------------------------------------------------
(* stop: the flag, then the notification; and the destructor, which joins  *)
(* the workers but does not stop them.                                     *)
StopFlag ==
    /\ owner = "running"
    /\ m_bRunning' = FALSE
    /\ owner' = "stopping"
    /\ UNCHANGED <<m_vtThread, m_queue, pc, hand, ran, refused, late>>

StopNotifyUnlocked ==                  \* mutant: stop does not take the mutex
    /\ owner = "stopping"
    /\ Wake(Sleepers)
    /\ owner' = "stopped"
    /\ UNCHANGED <<m_vtThread, m_queue, m_bRunning, hand, ran, refused, late>>
StopNotifyOne ==                       \* mutant: notify_one instead of notify_all
    /\ owner = "stopping"
    /\ Free
    /\ NotifyOne
    /\ owner' = "stopped"
    /\ UNCHANGED <<m_vtThread, m_queue, m_bRunning, hand, ran, refused, late>>
StopNotify ==
    /\ owner = "stopping"
    /\ Free
    /\ Wake(Sleepers)
    /\ owner' = "stopped"
    /\ UNCHANGED <<m_vtThread, m_queue, m_bRunning, hand, ran, refused, late>>

Destroy ==
    /\ owner = "stopped"
    /\ At({"done"}) = Workers
    /\ owner' = "destroyed"
    /\ UNCHANGED <<m_vtThread, m_queue, m_bRunning, pc, hand, ran, refused, late>>

---------------------------------------------------------------------------
(* runInThread.                                                            *)
LoopForever(w) ==                      \* mutant: the loop does not read the flag
    /\ pc[w] = "loop"
    /\ Goes(w, "lock")
    /\ UNCHANGED <<m_vtThread, m_queue, m_bRunning, hand, owner, ran, refused, late>>
Loop(w) ==
    /\ pc[w] = "loop"
    /\ Goes(w, IF m_bRunning THEN "lock" ELSE "done")
    /\ UNCHANGED <<m_vtThread, m_queue, m_bRunning, hand, owner, ran, refused, late>>

(* The mutex is taken, by the loop or by a wait that was notified.         *)
FindEmpty(w) ==
    /\ pc[w] = "lock"
    /\ Free
    /\ m_queue = <<>>
    /\ Goes(w, "check")
    /\ UNCHANGED <<m_vtThread, m_queue, m_bRunning, hand, owner, ran, refused, late>>

TakePopsBack(w) ==                     \* mutant: front, then pop_back
    /\ pc[w] = "lock"
    /\ Free
    /\ m_queue # <<>>
    /\ m_queue' = SubSeq(m_queue, 1, Len(m_queue) - 1)
    /\ hand' = [hand EXCEPT ![w] = Head(m_queue)]
    /\ late' = [late EXCEPT ![w] = @ + IF m_bRunning THEN 0 ELSE 1]
    /\ Goes(w, "run")
    /\ UNCHANGED <<m_vtThread, m_bRunning, owner, ran, refused>>
Take(w) ==
    /\ pc[w] = "lock"
    /\ Free
    /\ m_queue # <<>>
    /\ m_queue' = Tail(m_queue)
    /\ hand' = [hand EXCEPT ![w] = Head(m_queue)]
    /\ late' = [late EXCEPT ![w] = @ + IF m_bRunning THEN 0 ELSE 1]
    /\ Goes(w, "run")
    /\ UNCHANGED <<m_vtThread, m_bRunning, owner, ran, refused>>

Check(w) ==
    /\ pc[w] = "check"
    /\ Goes(w, IF m_bRunning THEN "wait" ELSE "done")
    /\ UNCHANGED <<m_vtThread, m_queue, m_bRunning, hand, owner, ran, refused, late>>

Wait(w) ==
    /\ pc[w] = "wait"
    /\ Goes(w, "asleep")
    /\ UNCHANGED <<m_vtThread, m_queue, m_bRunning, hand, owner, ran, refused, late>>

WakeSpuriously(w) ==
    /\ pc[w] = "asleep"
    /\ Goes(w, "lock")
    /\ UNCHANGED <<m_vtThread, m_queue, m_bRunning, hand, owner, ran, refused, late>>

Finish(w) ==
    /\ pc[w] = "run"
    /\ ran' = ran \cup {hand[w]}
    /\ hand' = [hand EXCEPT ![w] = NoTask]
    /\ Goes(w, "loop")
    /\ UNCHANGED <<m_vtThread, m_queue, m_bRunning, owner, refused, late>>

(* What a worker does without waiting for another thread, and with.        *)
Run(w) == Loop(w) \/ Check(w) \/ Wait(w) \/ Finish(w)
Lock(w) == FindEmpty(w) \/ Take(w)

Ended == owner = "destroyed" /\ UNCHANGED vars

Next ==
    \/ \E t \in Tasks : PushInline(t) \/ PushRefused(t) \/ Push(t)
    \/ StopFlag \/ StopNotify \/ Destroy \/ Ended
    \/ \E w \in Workers : Run(w) \/ Lock(w) \/ WakeSpuriously(w)

Spec == Init /\ [][Next]_vars

(* Threads run, tasks return, and a mutex that is free again and again is  *)
(* given to a thread that waits for it.  Nobody has to push or to stop.    *)
FairSpec ==
    /\ Spec
    /\ \A w \in Workers : WF_vars(Run(w)) /\ SF_vars(Lock(w))
    /\ SF_vars(StopNotify)

---------------------------------------------------------------------------
Places == {"loop", "lock", "check", "wait", "asleep", "run", "done"}

(* Types; push tests the size with >, so one task more than m_iQueueSize   *)
(* is queued (ThreadPool.h:70); one worker at most holds the mutex, and    *)
(* one that runs has a task.                                               *)
TypeOK ==
    /\ m_vtThread \in {{}, Workers}
    /\ m_queue \in Seq(Tasks)
    /\ Len(m_queue) <= m_iQueueSize + 1
    /\ m_bRunning \in BOOLEAN
    /\ pc \in [Workers -> Places]
    /\ hand \in [Workers -> Tasks \cup {NoTask}]
    /\ owner \in {"running", "stopping", "stopped", "destroyed"}
    /\ ran \subseteq Tasks
    /\ refused \subseteq Tasks
    /\ late \in [Workers -> Nat]
    /\ \A w, v \in At({"check", "wait"}) : w = v
    /\ \A w \in At({"run"}) : hand[w] \in Tasks

(* No wake-up of push is lost (ThreadPool.h:76, 116-122): while a worker   *)
(* sleeps, every queued task has a worker of its own on the way to it.     *)
EachTaskAwaited ==
    Sleepers # {} => Len(m_queue) <= Cardinality(At({"lock"}))

(* No wake-up of stop is lost (ThreadPool.h:86-88, 116-122): once stop has *)
(* returned no worker sleeps or goes to sleep, although the flag is        *)
(* cleared outside the mutex and may change between its test and the wait. *)
NobodySleepsThroughStop ==
    owner \in {"stopped", "destroyed"} => At({"wait", "asleep"}) = {}

(* A pool that is stopped can be destroyed (ThreadPool.h:31-39, 84-89):    *)
(* every worker leaves its loop, so the joins return.                      *)
WorkersLeave == owner = "stopping" ~> At({"done"}) = Workers

(* A task push answered 0 for is run, unless the pool is stopped.          *)
TasksAreRun ==
    \A t \in Tasks : (\E i \in DOMAIN m_queue : m_queue[i] = t)
                        ~> (t \in ran \/ ~ m_bRunning)

(* The pool is what its users take it for (module TaskPool): every task is *)
(* run once, refused or waiting, tasks are started in the order of the     *)
(* pushes (ThreadPool.h:61-82, 124-134), and stop does not wait for the    *)
(* queue: a worker starts at most one more task once the flag is cleared   *)
(* (ThreadPool.h:84-89, 109).                                              *)
Pool == INSTANCE TaskPool WITH
    Capacity <- m_iQueueSize + 1,
    threads <- m_vtThread, waiting <- m_queue, running <- hand, done <- ran,
    open <- m_bRunning, overtime <- {w \in Workers : late[w] > 0}

ImplementsTaskPool == Pool!Spec
=============================================================================
