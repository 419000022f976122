\* Three workers, a queue of size 1, three tasks; the fairness of the threads.
SPECIFICATION FairSpec
CONSTANTS
  Workers = {w1, w2, w3}
  Tasks = {t1, t2, t3}
  m_iQueueSize = 1
  NoTask = NoTask
INVARIANTS TypeOK EachTaskAwaited NobodySleepsThroughStop
PROPERTIES WorkersLeave TasksAreRun ImplementsTaskPool
