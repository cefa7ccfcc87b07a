------------------------ MODULE MCWorkerSupervisor ------------------------
EXTENDS WorkerSupervisor, TLC
=============================================================================
