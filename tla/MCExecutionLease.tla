-------------------------- MODULE MCExecutionLease --------------------------
EXTENDS ExecutionLease

MCLeases == {2}
=============================================================================
