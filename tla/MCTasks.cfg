\* Task 0, the tasks of task_check, and up to five more before the table is full.
CONSTANT TaskMax = 8
SPECIFICATION FairSpec
INVARIANTS NoTaskStranded SchedulerNeverDies
PROPERTIES KernelComesBack EveryTaskGetsItsTurn TurnsComeNearer ImplementsHandover
