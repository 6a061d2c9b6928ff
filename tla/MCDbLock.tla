------------------------------ MODULE MCDbLock ------------------------------
(* A supervisor with two threads that use the lock (WebUI and checkpoint)  *)
(* and a worker with one thread.                                           *)
EXTENDS DbLock

CONSTANTS web, ckpt, w1, sup, p1

MCThread == {web, ckpt, w1}
MCProcess == {sup, p1}
MCProcOf == [t \in MCThread |-> IF t = w1 THEN p1 ELSE sup]
OnlySup == {sup}
SomeFaults == [open |-> 1, unlock |-> 1, crash |-> 1]
=============================================================================
