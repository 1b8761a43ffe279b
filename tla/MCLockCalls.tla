---------------------------- MODULE MCLockCalls ----------------------------
EXTENDS LockCalls

\* All callers use one value; other processes use "other".
OneValue == [c \in Callers |-> "value"]
=============================================================================
