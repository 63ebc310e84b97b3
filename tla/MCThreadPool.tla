------------------------------ MODULE MCThreadPool -----------------------------
(* ThreadPool for TLC: task t1 enqueues t4 when it runs. *)
EXTENDS ThreadPool, TLC

CONSTANTS t1, t2, t3, t4

MCTasks == {t1, t2, t3, t4}
MCChild == t1 :> t4
================================================================================
