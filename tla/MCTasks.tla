------------------------------- MODULE MCTasks -------------------------------
EXTENDS TasksProps
=============================================================================
