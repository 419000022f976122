-------------------------- MODULE ThreadPoolProof --------------------------
(***************************************************************************)
(* Proofs about ThreadPool, for any finite set of workers, any tasks and   *)
(* any queue size: no wake-up is lost, neither that of push nor that of    *)
(* stop, every task is run once at most, and the pool implements TaskPool. *)
(***************************************************************************)
EXTENDS ThreadPool, FiniteSetTheorems, TLAPS

(* Who holds the mutex between its test of the queue and its wait has seen *)
(* the queue empty, and nobody can have added to it since.                 *)
HolderSawEmpty == ~ Free => m_queue = <<>>

(* The flag and the owner agree; who took a task after stop is past the    *)
(* test of the flag that lets it take another.                             *)
Prompt ==
    /\ m_bRunning <=> owner = "running"
    /\ \A w \in Workers :
          /\ late[w] \in {0, 1}
          /\ late[w] = 1 => ~ m_bRunning /\ pc[w] \in {"run", "loop", "done"}

IInv ==
    /\ TypeOK
    /\ HolderSawEmpty
    /\ EachTaskAwaited
    /\ NobodySleepsThroughStop
    /\ Prompt

---------------------------------------------------------------------------
LEMMA AtFinite ==
    ASSUME NEW places
    PROVE  /\ IsFiniteSet(At(places)) /\ Cardinality(At(places)) \in Nat
           /\ IsFiniteSet(At(places)') /\ Cardinality(At(places)') \in Nat
  <1>1. At(places) \subseteq Workers /\ At(places)' \subseteq Workers
    BY DEF At
  <1> QED
    BY <1>1, PoolAssumption, FS_Subset, FS_CardinalityType

(* A worker that comes to the mutex is one more that is on the way.        *)
LEMMA OneMoreAwaits ==
    ASSUME TypeOK, NEW w \in Workers, pc[w] # "lock", Goes(w, "lock")
    PROVE  Cardinality(At({"lock"})') = Cardinality(At({"lock"})) + 1
  <1>1. At({"lock"})' = At({"lock"}) \cup {w} /\ w \notin At({"lock"})
    BY DEF TypeOK, Goes, At
  <1> QED
    BY <1>1, AtFinite, FS_AddElement

(* One that leaves the mutex is one less.                                  *)
LEMMA OneLessAwaits ==
    ASSUME TypeOK, NEW w \in Workers, NEW place, place # "lock",
           pc[w] = "lock", Goes(w, place)
    PROVE  /\ Cardinality(At({"lock"})) > 0
           /\ Cardinality(At({"lock"})') = Cardinality(At({"lock"})) - 1
  <1>1. At({"lock"})' = At({"lock"}) \ {w} /\ w \in At({"lock"})
    BY DEF TypeOK, Goes, At
  <1>2. Cardinality(At({"lock"})) # 0
    BY <1>1, AtFinite, FS_EmptySet
  <1> QED
    BY <1>1, <1>2, AtFinite, FS_RemoveElement

(* A worker that moves between other places changes neither number.        *)
LEMMA SameAwait ==
    ASSUME TypeOK, NEW w \in Workers, NEW place, place # "lock",
           pc[w] # "lock", Goes(w, place)
    PROVE  At({"lock"})' = At({"lock"})
  BY DEF TypeOK, Goes, At

---------------------------------------------------------------------------
LEMMA InitIInv == Init => IInv
  <1> SUFFICES ASSUME Init PROVE IInv
    OBVIOUS
  <1>1. \A w \in Workers : pc[w] \in {"loop", "done"}
    BY DEF Init
  <1>2. TypeOK
    BY <1>1, PoolAssumption DEF Init, TypeOK, Places, At
  <1>3. HolderSawEmpty /\ NobodySleepsThroughStop /\ Prompt
    BY DEF Init, HolderSawEmpty, NobodySleepsThroughStop, Prompt
  <1>4. Sleepers = {}
    BY <1>1 DEF Sleepers, At
  <1> QED
    BY <1>2, <1>3, <1>4 DEF IInv, EachTaskAwaited

(* push appends under the mutex and wakes a sleeper, if there is one.      *)
LEMMA PushKeeps ==
    ASSUME IInv, NEW t \in Tasks, Push(t)
    PROVE  IInv'
  <1> USE DEF IInv
  <1>1. /\ Free /\ m_queue \in Seq(Tasks) /\ m_queue' = Append(m_queue, t)
        /\ m_queue' \in Seq(Tasks) /\ Len(m_queue') <= m_iQueueSize + 1
        /\ Len(m_queue') = Len(m_queue) + 1 /\ Len(m_queue) <= m_iQueueSize
    BY PoolAssumption DEF TypeOK, Push, Full
  <1>2. CASE Sleepers = {} /\ UNCHANGED pc
    <2>1. Sleepers' = {} /\ Free'
      BY <1>1, <1>2 DEF Sleepers, At, Free
    <2>2. TypeOK'
      <3>1. /\ pc' = pc /\ hand' = hand /\ m_vtThread' = m_vtThread
            /\ m_bRunning' = m_bRunning /\ owner' = owner /\ ran' = ran
            /\ refused' = refused /\ late' = late
        BY <1>2 DEF Push
      <3>2. At({"check", "wait"})' = At({"check", "wait"}) /\ At({"run"})' = At({"run"})
        BY <3>1 DEF At
      <3> QED
        BY <1>1, <3>1, <3>2 DEF TypeOK
    <2>3. Prompt' /\ NobodySleepsThroughStop'
      BY <1>2 DEF Prompt, NobodySleepsThroughStop, Push, At
    <2> QED
      BY <2>1, <2>2, <2>3 DEF HolderSawEmpty, EachTaskAwaited
  <1>3. ASSUME NEW w \in Sleepers, Wake({w})
        PROVE  IInv'
    <2>1. w \in Workers /\ pc[w] = "asleep" /\ pc \in [Workers -> Places]
      BY <1>3 DEF Sleepers, At, TypeOK
    <2>2. Goes(w, "lock")
      BY <1>3, <2>1 DEF Wake, Goes
    <2>3. Cardinality(At({"lock"})') = Cardinality(At({"lock"})) + 1
      BY <2>1, <2>2, OneMoreAwaits
    <2>4. Len(m_queue) <= Cardinality(At({"lock"}))
      BY <1>3 DEF EachTaskAwaited
    <2>5. EachTaskAwaited'
      BY <1>1, <2>3, <2>4, AtFinite DEF EachTaskAwaited, TypeOK
    <2>6. At({"check", "wait"})' = {}
      BY <1>1, <2>1, <2>2 DEF Free, At, Goes
    <2>7. TypeOK'
      BY <1>1, <2>1, <2>2, <2>6 DEF TypeOK, Push, Goes, Places, At
    <2>8. Prompt' /\ NobodySleepsThroughStop'
      BY <2>1, <2>2 DEF Prompt, NobodySleepsThroughStop, Push, Goes, At
    <2> QED
      BY <2>5, <2>6, <2>7, <2>8 DEF HolderSawEmpty, Free
  <1> QED
    BY <1>2, <1>3 DEF Push, NotifyOne

(* stop wakes all who sleep, while nobody is between its test and its wait.*)
LEMMA StopNotifyKeeps ==
    ASSUME IInv, StopNotify
    PROVE  IInv'
  <1> USE DEF IInv
  <1>1. Free /\ Wake(Sleepers) /\ ~ m_bRunning
    BY DEF StopNotify, Prompt
  <1>2. \A w \in Workers : /\ pc'[w] \notin {"check", "wait", "asleep"}
                           /\ pc'[w] # pc[w] => pc[w] = "asleep"
                           /\ pc'[w] \in Places
    BY <1>1 DEF Wake, Free, Sleepers, At, TypeOK, Places
  <1>3. At({"check", "wait"})' = {} /\ At({"wait", "asleep"})' = {} /\ Sleepers' = {}
    BY <1>2 DEF At, Sleepers
  <1>4. TypeOK'
    BY <1>1, <1>2, <1>3 DEF TypeOK, StopNotify, Wake, At
  <1>5. Prompt'
    BY <1>1, <1>2 DEF Prompt, StopNotify
  <1> QED
    BY <1>3, <1>4, <1>5 DEF HolderSawEmpty, EachTaskAwaited, NobodySleepsThroughStop, Free

---------------------------------------------------------------------------
(* The steps of a worker.                                                  *)
LEMMA LoopKeeps ==
    ASSUME IInv, NEW w \in Workers, Loop(w)
    PROVE  IInv'
  <1> USE DEF IInv
  <1>1. pc[w] = "loop" /\ pc \in [Workers -> Places]
    BY DEF Loop, TypeOK
  <1>2. At({"check", "wait"})' = At({"check", "wait"}) /\ Sleepers' = Sleepers
        /\ At({"wait", "asleep"})' = At({"wait", "asleep"})
    BY <1>1 DEF Loop, Goes, At, Sleepers
  <1>3. Cardinality(At({"lock"})') >= Cardinality(At({"lock"}))
    <2>1. CASE m_bRunning
      BY <1>1, <2>1, OneMoreAwaits, AtFinite DEF Loop
    <2>2. CASE ~ m_bRunning
      BY <1>1, <2>2, SameAwait, AtFinite DEF Loop
    <2> QED
      BY <2>1, <2>2
  <1>4. EachTaskAwaited'
    BY <1>2, <1>3, AtFinite DEF EachTaskAwaited, Loop, TypeOK
  <1>5. TypeOK'
    BY <1>1, <1>2 DEF TypeOK, Loop, Goes, Places, At
  <1>6. Prompt'
    BY <1>1 DEF Prompt, Loop, Goes
  <1> QED
    BY <1>2, <1>4, <1>5, <1>6 DEF HolderSawEmpty, NobodySleepsThroughStop, Free, Loop

LEMMA FindEmptyKeeps ==
    ASSUME IInv, NEW w \in Workers, FindEmpty(w)
    PROVE  IInv'
  <1> USE DEF IInv
  <1>1. pc[w] = "lock" /\ pc \in [Workers -> Places] /\ Free /\ m_queue' = <<>>
    BY DEF FindEmpty, TypeOK
  <1>2. At({"check", "wait"})' = {w} /\ At({"wait", "asleep"})' = At({"wait", "asleep"})
    BY <1>1 DEF FindEmpty, Goes, At, Free
  <1>3. EachTaskAwaited'
    BY <1>1, AtFinite DEF EachTaskAwaited
  <1>4. TypeOK'
    BY <1>1, <1>2 DEF TypeOK, FindEmpty, Goes, Places, At
  <1>5. Prompt'
    BY <1>1 DEF Prompt, FindEmpty, Goes
  <1> QED
    BY <1>1, <1>2, <1>3, <1>4, <1>5
    DEF HolderSawEmpty, NobodySleepsThroughStop, FindEmpty

LEMMA TakeKeeps ==
    ASSUME IInv, NEW w \in Workers, Take(w)
    PROVE  IInv'
  <1> USE DEF IInv
  <1>1. pc[w] = "lock" /\ pc \in [Workers -> Places] /\ Free
    BY DEF Take, TypeOK
  <1>2. /\ m_queue \in Seq(Tasks) /\ m_queue # <<>> /\ m_queue' = Tail(m_queue)
        /\ m_queue' \in Seq(Tasks) /\ Head(m_queue) \in Tasks
        /\ Len(m_queue) \in Nat /\ Len(m_queue') = Len(m_queue) - 1
    BY DEF Take, TypeOK
  <1>3. /\ At({"check", "wait"})' = {} /\ Sleepers' = Sleepers
        /\ At({"wait", "asleep"})' = At({"wait", "asleep"})
    BY <1>1 DEF Take, Goes, At, Free, Sleepers
  <1>4. Cardinality(At({"lock"})') = Cardinality(At({"lock"})) - 1
    BY <1>1, OneLessAwaits DEF Take
  <1>5. EachTaskAwaited'
    BY <1>2, <1>3, <1>4, AtFinite DEF EachTaskAwaited
  <1>6. late[w] = 0
    BY <1>1 DEF Prompt
  <1>7. late' = [late EXCEPT ![w] = IF m_bRunning THEN 0 ELSE 1]
    BY <1>6 DEF Take, TypeOK
  <1>8. Prompt'
    BY <1>1, <1>7 DEF Prompt, Take, Goes, TypeOK
  <1>9. TypeOK'
    BY <1>1, <1>2, <1>3, <1>7, PoolAssumption DEF TypeOK, Take, Goes, Places, At
  <1> QED
    BY <1>3, <1>5, <1>8, <1>9 DEF HolderSawEmpty, NobodySleepsThroughStop, Free, Take

LEMMA CheckKeeps ==
    ASSUME IInv, NEW w \in Workers, Check(w)
    PROVE  IInv'
  <1> USE DEF IInv
  <1>1. pc[w] = "check" /\ pc \in [Workers -> Places] /\ At({"check", "wait"}) = {w}
    BY DEF Check, TypeOK, At
  <1>2. m_queue = <<>> /\ m_queue' = <<>>
    BY <1>1 DEF HolderSawEmpty, Free, Check
  <1>3. /\ At({"check", "wait"})' \subseteq {w}
        /\ ~ m_bRunning => At({"wait", "asleep"})' = At({"wait", "asleep"})
    BY <1>1 DEF Check, Goes, At
  <1>4. EachTaskAwaited'
    BY <1>2, AtFinite DEF EachTaskAwaited
  <1>5. TypeOK'
    BY <1>1, <1>3 DEF TypeOK, Check, Goes, Places, At
  <1>6. Prompt'
    BY <1>1 DEF Prompt, Check, Goes
  <1> QED
    BY <1>2, <1>3, <1>4, <1>5, <1>6
    DEF HolderSawEmpty, NobodySleepsThroughStop, Prompt, Check

LEMMA WaitKeeps ==
    ASSUME IInv, NEW w \in Workers, Wait(w)
    PROVE  IInv'
  <1> USE DEF IInv
  <1>1. pc[w] = "wait" /\ pc \in [Workers -> Places] /\ At({"check", "wait"}) = {w}
    BY DEF Wait, TypeOK, At
  <1>2. m_queue = <<>> /\ m_queue' = <<>>
    BY <1>1 DEF HolderSawEmpty, Free, Wait
  <1>3. At({"check", "wait"})' = {} /\ At({"wait", "asleep"})' = At({"wait", "asleep"})
    BY <1>1 DEF Wait, Goes, At
  <1>4. EachTaskAwaited'
    BY <1>2, AtFinite DEF EachTaskAwaited
  <1>5. TypeOK'
    BY <1>1, <1>3 DEF TypeOK, Wait, Goes, Places, At
  <1>6. Prompt'
    BY <1>1 DEF Prompt, Wait, Goes
  <1> QED
    BY <1>2, <1>3, <1>4, <1>5, <1>6
    DEF HolderSawEmpty, NobodySleepsThroughStop, Wait

LEMMA WakeSpuriouslyKeeps ==
    ASSUME IInv, NEW w \in Workers, WakeSpuriously(w)
    PROVE  IInv'
  <1> USE DEF IInv
  <1>1. pc[w] = "asleep" /\ pc \in [Workers -> Places] /\ Sleepers # {}
    BY DEF WakeSpuriously, TypeOK, At, Sleepers
  <1>2. /\ At({"check", "wait"})' = At({"check", "wait"})
        /\ At({"wait", "asleep"})' \subseteq At({"wait", "asleep"})
    BY <1>1 DEF WakeSpuriously, Goes, At
  <1>3. Cardinality(At({"lock"})') = Cardinality(At({"lock"})) + 1
    BY <1>1, OneMoreAwaits DEF WakeSpuriously
  <1>4. EachTaskAwaited'
    BY <1>1, <1>3, AtFinite DEF EachTaskAwaited, WakeSpuriously, TypeOK
  <1>5. TypeOK'
    BY <1>1, <1>2 DEF TypeOK, WakeSpuriously, Goes, Places, At
  <1>6. Prompt'
    BY <1>1 DEF Prompt, WakeSpuriously, Goes
  <1> QED
    BY <1>2, <1>4, <1>5, <1>6
    DEF HolderSawEmpty, NobodySleepsThroughStop, Free, WakeSpuriously

LEMMA FinishKeeps ==
    ASSUME IInv, NEW w \in Workers, Finish(w)
    PROVE  IInv'
  <1> USE DEF IInv
  <1>1. pc[w] = "run" /\ pc \in [Workers -> Places]
    BY DEF Finish, TypeOK
  <1>2. /\ At({"check", "wait"})' = At({"check", "wait"}) /\ Sleepers' = Sleepers
        /\ At({"wait", "asleep"})' = At({"wait", "asleep"})
        /\ At({"lock"})' = At({"lock"})
    BY <1>1 DEF Finish, Goes, At, Sleepers
  <1>3. TypeOK'
    BY <1>1, <1>2 DEF TypeOK, Finish, Goes, Places, At
  <1>4. Prompt'
    BY <1>1 DEF Prompt, Finish, Goes
  <1> QED
    BY <1>2, <1>3, <1>4
    DEF HolderSawEmpty, EachTaskAwaited, NobodySleepsThroughStop, Free, Finish

---------------------------------------------------------------------------
(* A step that moves no worker and leaves the queue alone.                 *)
LEMMA QuietKeeps ==
    ASSUME IInv,
           UNCHANGED <<m_vtThread, m_queue, pc, hand, late>>,
           m_bRunning' \in BOOLEAN, m_bRunning' => m_bRunning,
           owner' \in {"running", "stopping", "stopped", "destroyed"},
           m_bRunning' <=> owner' = "running",
           owner' \in {"stopped", "destroyed"} => owner \in {"stopped", "destroyed"},
           ran' \subseteq Tasks, refused' \subseteq Tasks
    PROVE  IInv'
  <1>1. /\ At({"check", "wait"})' = At({"check", "wait"})
        /\ At({"wait", "asleep"})' = At({"wait", "asleep"})
        /\ At({"asleep"})' = At({"asleep"})
        /\ At({"lock"})' = At({"lock"})
        /\ At({"run"})' = At({"run"})
    BY DEF At
  <1>2. TypeOK'
    BY <1>1 DEF IInv, TypeOK
  <1>3. HolderSawEmpty' /\ EachTaskAwaited' /\ NobodySleepsThroughStop'
    BY <1>1 DEF IInv, HolderSawEmpty, Free, EachTaskAwaited, Sleepers,
       NobodySleepsThroughStop
  <1>4. Prompt'
    BY DEF IInv, Prompt
  <1> QED
    BY <1>2, <1>3, <1>4 DEF IInv

LEMMA NextIInv == IInv /\ [Next]_vars => IInv'
  <1> SUFFICES ASSUME IInv, [Next]_vars PROVE IInv'
    OBVIOUS
  <1> USE DEF IInv, TypeOK, Prompt
  <1>1. CASE UNCHANGED vars \/ Ended
    BY <1>1, QuietKeeps DEF Ended, vars
  <1>2. ASSUME NEW t \in Tasks, PushInline(t) \/ PushRefused(t)
        PROVE  IInv'
    BY <1>2, QuietKeeps DEF PushInline, PushRefused
  <1>3. CASE StopFlag
    BY <1>3, QuietKeeps DEF StopFlag
  <1>4. CASE Destroy
    BY <1>4, QuietKeeps DEF Destroy
  <1> HIDE DEF IInv, TypeOK, Prompt
  <1>5. ASSUME NEW w \in Workers, Run(w) \/ Lock(w) \/ WakeSpuriously(w)
        PROVE  IInv'
    BY <1>5, LoopKeeps, CheckKeeps, WaitKeeps, FinishKeeps, FindEmptyKeeps, TakeKeeps,
       WakeSpuriouslyKeeps DEF Run, Lock
  <1> QED
    BY <1>1, <1>2, <1>3, <1>4, <1>5, PushKeeps, StopNotifyKeeps DEF Next

THEOREM Invariant == Spec => []IInv
  BY InitIInv, NextIInv, PTL DEF Spec

(* Every variable keeps its type, one task more than the size is queued at *)
(* most, and the mutex excludes (ThreadPool.h:61-82, 107-135).             *)
THEOREM TypeCorrect == Spec => []TypeOK
  <1>1. IInv => TypeOK
    BY DEF IInv
  <1> QED
    BY <1>1, Invariant, PTL

(* While a worker sleeps, every queued task has a worker on the way to it: *)
(* notify_one for each task is enough (ThreadPool.h:76).                   *)
THEOREM NoTaskForgotten == Spec => []EachTaskAwaited
  <1>1. IInv => EachTaskAwaited
    BY DEF IInv
  <1> QED
    BY <1>1, Invariant, PTL

(* Once stop has returned, no worker sleeps or goes to sleep               *)
(* (ThreadPool.h:84-89).                                                   *)
THEOREM StopIsHeard == Spec => []NobodySleepsThroughStop
  <1>1. IInv => NobodySleepsThroughStop
    BY DEF IInv
  <1> QED
    BY <1>1, Invariant, PTL

---------------------------------------------------------------------------
(* What the pool is to its users.  Only a started worker leaves "done",    *)
(* and one that is not running a task has none in its hand.                *)
IdleHands ==
    /\ m_vtThread = {} => \A w \in Workers : pc[w] = "done"
    /\ \A w \in Workers : pc[w] # "run" => hand[w] = NoTask

OnceInv == IdleHands /\ Pool!EachOnce

LEMMA OnceInit == Init => OnceInv
  BY PoolAssumption DEF Init, OnceInv, IdleHands, Pool!EachOnce

LEMMA OncePush ==
    ASSUME IInv, OnceInv, NEW t \in Tasks, PushInline(t) \/ PushRefused(t) \/ Push(t)
    PROVE  OnceInv'
  <1>1. Fresh(t) /\ t # NoTask /\ m_queue \in Seq(Tasks) /\ hand' = hand
    BY PoolAssumption DEF MayPush, PushInline, PushRefused, Push, IInv, TypeOK
  <1>2. IdleHands'
    <2>1. CASE PushInline(t) \/ PushRefused(t)
      BY <2>1 DEF OnceInv, IdleHands, PushInline, PushRefused
    <2>2. CASE Push(t)
      BY <2>2 DEF OnceInv, IdleHands, Push, NotifyOne, Wake, Sleepers, At, IInv, TypeOK
    <2> QED
      BY <2>1, <2>2
  <1>3. Pool!EachOnce'
    <2>1. CASE PushInline(t) \/ PushRefused(t)
      BY <1>1, <2>1 DEF OnceInv, Pool!EachOnce, Fresh, PushInline, PushRefused
    <2>2. CASE Push(t)
      <3>1. m_queue' = Append(m_queue, t) /\ UNCHANGED <<hand, ran, refused>>
        BY <2>2 DEF Push
      <3>2. /\ DOMAIN m_queue = 1..Len(m_queue) /\ Len(m_queue) \in Nat
            /\ DOMAIN m_queue' = 1..Len(m_queue) + 1
            /\ m_queue'[Len(m_queue) + 1] = t
            /\ \A i \in 1..Len(m_queue) : m_queue'[i] = m_queue[i] /\ m_queue[i] # t
        BY <1>1, <3>1 DEF Fresh
      <3> QED
        BY <1>1, <3>1, <3>2 DEF OnceInv, Pool!EachOnce, Fresh
    <2> QED
      BY <2>1, <2>2
  <1> QED
    BY <1>2, <1>3 DEF OnceInv

LEMMA OnceTake ==
    ASSUME IInv, OnceInv, NEW w \in Workers, Take(w)
    PROVE  OnceInv'
  <1>1. /\ m_queue \in Seq(Tasks) /\ m_queue # <<>> /\ m_queue' = Tail(m_queue)
        /\ hand \in [Workers -> Tasks \cup {NoTask}]
        /\ hand' = [hand EXCEPT ![w] = m_queue[1]]
        /\ pc \in [Workers -> Places] /\ pc[w] = "lock" /\ Goes(w, "run")
        /\ UNCHANGED <<m_vtThread, ran, refused>>
    BY DEF Take, IInv, TypeOK
  <1>2. /\ DOMAIN m_queue = 1..Len(m_queue) /\ Len(m_queue) \in Nat \ {0}
        /\ DOMAIN m_queue' = 1..Len(m_queue) - 1
        /\ \A i \in 1..Len(m_queue) - 1 : m_queue'[i] = m_queue[i + 1]
    BY <1>1
  <1>3. IdleHands'
    BY <1>1 DEF OnceInv, IdleHands, Goes
  <1>4. hand'[w] = m_queue[1] /\ \A v \in Workers \ {w} : hand'[v] = hand[v]
    BY <1>1
  <1>5. Pool!EachOnce'
    <2>1. \A i, j \in DOMAIN m_queue' : m_queue'[i] = m_queue'[j] => i = j
      BY <1>2, SMTT(30) DEF OnceInv, Pool!EachOnce
    <2>2. \A u, v \in Workers : hand'[u] = hand'[v] /\ hand'[u] # NoTask => u = v
      BY <1>2, <1>4 DEF OnceInv, Pool!EachOnce
    <2>3. \A i \in DOMAIN m_queue', v \in Workers : m_queue'[i] # hand'[v]
      BY <1>2, <1>4, SMTT(30) DEF OnceInv, Pool!EachOnce
    <2>4. \A i \in DOMAIN m_queue' : m_queue'[i] \notin ran \cup refused
      BY <1>2 DEF OnceInv, Pool!EachOnce
    <2>5. \A v \in Workers : hand'[v] \notin ran \cup refused
      BY <1>2, <1>4 DEF OnceInv, Pool!EachOnce
    <2> QED
      BY <1>1, <2>1, <2>2, <2>3, <2>4, <2>5 DEF OnceInv, Pool!EachOnce
  <1> QED
    BY <1>3, <1>5 DEF OnceInv

LEMMA OnceFinish ==
    ASSUME IInv, OnceInv, NEW w \in Workers, Finish(w)
    PROVE  OnceInv'
  <1>1. /\ m_queue \in Seq(Tasks) /\ UNCHANGED <<m_vtThread, m_queue, refused>>
        /\ hand \in [Workers -> Tasks \cup {NoTask}] /\ hand[w] \in Tasks
        /\ hand' = [hand EXCEPT ![w] = NoTask] /\ ran' = ran \cup {hand[w]}
        /\ pc \in [Workers -> Places] /\ pc[w] = "run" /\ Goes(w, "loop")
        /\ ran \subseteq Tasks /\ refused \subseteq Tasks /\ NoTask \notin Tasks
    BY PoolAssumption DEF Finish, IInv, TypeOK, At
  <1>2. IdleHands'
    BY <1>1 DEF OnceInv, IdleHands, Goes
  <1>3. hand'[w] = NoTask /\ \A v \in Workers \ {w} : hand'[v] = hand[v]
    BY <1>1
  <1>4. \A i \in DOMAIN m_queue : m_queue[i] \in Tasks
    BY <1>1
  <1>5. Pool!EachOnce'
    BY <1>1, <1>3, <1>4 DEF OnceInv, Pool!EachOnce
  <1> QED
    BY <1>2, <1>5 DEF OnceInv

(* The other steps move workers that have no task in hand.                 *)
LEMMA OnceElse ==
    ASSUME IInv, OnceInv, UNCHANGED <<m_vtThread, m_queue, hand, ran, refused>>,
           pc' \in [Workers -> Places],
           \A w \in Workers : pc[w] = "run" => pc'[w] = "run",
           \A w \in Workers : pc[w] = "done" => pc'[w] = "done"
    PROVE  OnceInv'
  <1>1. IdleHands'
    BY DEF OnceInv, IdleHands
  <1>2. Pool!EachOnce'
    BY DEF OnceInv, Pool!EachOnce
  <1> QED
    BY <1>1, <1>2 DEF OnceInv

LEMMA OnceNext == IInv /\ OnceInv /\ [Next]_vars => OnceInv'
  <1> SUFFICES ASSUME IInv, OnceInv, [Next]_vars PROVE OnceInv'
    OBVIOUS
  <1>0. pc \in [Workers -> Places]
    BY DEF IInv, TypeOK
  <1>1. CASE UNCHANGED vars \/ Ended \/ StopFlag \/ Destroy
    BY <1>0, <1>1, OnceElse DEF vars, Ended, StopFlag, Destroy
  <1>2. CASE StopNotify
    BY <1>0, <1>2, OnceElse DEF StopNotify, Wake, Sleepers, At, Places
  <1>3. ASSUME NEW w \in Workers,
               Loop(w) \/ Check(w) \/ Wait(w) \/ FindEmpty(w) \/ WakeSpuriously(w)
        PROVE  OnceInv'
    BY <1>0, <1>3, OnceElse
    DEF Loop, Check, Wait, FindEmpty, WakeSpuriously, Goes, Places
  <1> QED
    BY <1>1, <1>2, <1>3, OncePush, OnceTake, OnceFinish DEF Next, Run, Lock

(* A task that was accepted waits in one place of the queue, or runs on    *)
(* one worker, or has run, and has not been refused (ThreadPool.h:61-82,   *)
(* 124-134).                                                               *)
THEOREM RunOnce == Spec => []Pool!EachOnce
  <1>1. OnceInv => Pool!EachOnce
    BY DEF OnceInv
  <1> QED
    BY <1>1, OnceInit, OnceNext, Invariant, PTL DEF Spec

---------------------------------------------------------------------------
(* The refinement.                                                         *)
LEMMA PoolInit == Init => Pool!Init
  BY DEF Init, Pool!Init

LEMMA TakeIsStart ==
    ASSUME IInv, OnceInv, NEW w \in Workers, Take(w)
    PROVE  Pool!Start(w)
  <1>1. w \in m_vtThread /\ hand[w] = NoTask
    BY DEF Take, IInv, TypeOK, OnceInv, IdleHands
  <1>2. /\ late[w] = 0 /\ late \in [Workers -> Nat]
        /\ late' = [late EXCEPT ![w] = @ + IF m_bRunning THEN 0 ELSE 1]
    BY DEF Take, IInv, TypeOK, Prompt
  <1>3. {v \in Workers : late'[v] > 0} =
            IF m_bRunning THEN {v \in Workers : late[v] > 0}
                          ELSE {v \in Workers : late[v] > 0} \cup {w}
    BY <1>2
  <1> QED
    BY <1>1, <1>2, <1>3 DEF Take, Pool!Start

LEMMA NextIsPool ==
    ASSUME IInv, OnceInv, Next
    PROVE  Pool!Next \/ UNCHANGED Pool!vars
  <1>1. ASSUME NEW t \in Tasks, PushInline(t) \/ PushRefused(t) \/ Push(t)
        PROVE  Pool!Next
    <2>1. /\ m_queue \in Seq(Tasks) /\ m_iQueueSize \in Nat
          /\ (Full <=> Len(m_queue) >= m_iQueueSize + 1)
          /\ (~ Full <=> Len(m_queue) < m_iQueueSize + 1)
      BY PoolAssumption DEF Full, IInv, TypeOK
    <2>2. Pool!IsNew(t)
      BY <1>1 DEF PushInline, PushRefused, Push, MayPush, Fresh, Pool!IsNew
    <2>3. Pool!RunAtOnce(t) \/ Pool!Refuse(t) \/ Pool!Accept(t)
      BY <1>1, <2>1, <2>2 DEF PushInline, PushRefused, Push,
         Pool!RunAtOnce, Pool!Refuse, Pool!Accept
    <2> QED
      BY <2>3 DEF Pool!Next
  <1>2. ASSUME NEW w \in Workers, Finish(w)
        PROVE  Pool!Next
    <2>1. hand[w] # NoTask
      BY <1>2, PoolAssumption DEF Finish, IInv, TypeOK, At
    <2>2. Pool!Return(w)
      BY <1>2, <2>1 DEF Finish, Pool!Return
    <2> QED
      BY <2>2 DEF Pool!Next
  <1>3. ASSUME NEW w \in Workers, Take(w)
        PROVE  Pool!Next
    BY <1>3, TakeIsStart DEF Pool!Next
  <1>4. CASE StopFlag
    BY <1>4 DEF StopFlag, Pool!Close, Pool!Next
  <1>5. ASSUME NEW w \in Workers,
               Loop(w) \/ Check(w) \/ Wait(w) \/ FindEmpty(w) \/ WakeSpuriously(w)
        PROVE  UNCHANGED Pool!vars
    BY <1>5 DEF Loop, Check, Wait, FindEmpty, WakeSpuriously, Pool!vars
  <1>6. CASE StopNotify \/ Destroy \/ Ended
    BY <1>6 DEF StopNotify, Destroy, Ended, vars, Pool!vars
  <1> QED
    BY <1>1, <1>2, <1>3, <1>4, <1>5, <1>6 DEF Next, Run, Lock

(* The pool implements what its users take it for: tasks are started in    *)
(* the order of the pushes, by idle workers, and after stop each worker    *)
(* starts at most one more (ThreadPool.h:61-89, 107-135).                  *)
THEOREM Implements == Spec => ImplementsTaskPool
  <1>1. IInv /\ OnceInv /\ [Next]_vars => [Pool!Next]_(Pool!vars)
    <2>1. UNCHANGED vars => UNCHANGED Pool!vars
      BY DEF vars, Pool!vars
    <2> QED
      BY <2>1, NextIsPool
  <1> QED
    BY <1>1, PoolInit, OnceInit, OnceNext, Invariant, PTL
    DEF Spec, ImplementsTaskPool, Pool!Spec
=============================================================================
