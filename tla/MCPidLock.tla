----------------------------- MODULE MCPidLock -----------------------------
EXTENDS PidLock, TLC

ProcSymmetry == Permutations(Procs)
=============================================================================
