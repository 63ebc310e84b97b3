---------------------------- MODULE ThreadSafeQueue ----------------------------
(******************************************************************************)
(* fiah::ThreadSafeQueue (src/include/fiah/structs/ThreadSafeQueue.hh): a     *)
(* std::queue under a std::mutex with a condition variable.                   *)
(******************************************************************************)
EXTENDS Sequences

CONSTANTS
    Users,     \* the threads that use the queue
    Elements,
    None

ASSUME NoneAssumption == None \notin Elements /\ None \notin Users

VARIABLES
    _queue,
    _mutex,    \* its owner
    waiting,   \* the threads blocked in _cv.wait
    q,         \* the step of each thread's call
    val,       \* the element a thread is pushing, or was given by wait_and_pop
    order,     \* the elements in the order in which they were pushed
    taken      \* the elements in the order in which they were popped

queueVars == <<_queue, _mutex, waiting, q, val, order, taken>>

QueueInit ==
    /\ _queue = <<>>
    /\ _mutex = None
    /\ waiting = {}
    /\ q = [t \in Users |-> "idle"]
    /\ val = [t \in Users |-> None]
    /\ order = <<>>
    /\ taken = <<>>

To(t, from, to) == q[t] = from /\ q' = [q EXCEPT ![t] = to]

--------------------------------------------------------------------------------
(* push: the notification comes after the unlock. *)

PushLock(t, v) ==
    /\ To(t, "idle", "push")
    /\ _mutex = None
    /\ _mutex' = t
    /\ val' = [val EXCEPT ![t] = v]
    /\ UNCHANGED <<_queue, waiting, order, taken>>

PushInsert(t) ==
    /\ To(t, "push", "notify")
    /\ _queue' = Append(_queue, val[t])
    /\ order' = Append(order, val[t])
    /\ val' = [val EXCEPT ![t] = None]
    /\ _mutex' = None
    /\ UNCHANGED <<waiting, taken>>

\* Mutant: nobody is notified.
NotifyNobody(t) ==
    /\ To(t, "notify", "idle")
    /\ UNCHANGED <<_queue, _mutex, waiting, val, order, taken>>

Notify(t) ==
    /\ \/ /\ waiting = {}
          /\ To(t, "notify", "idle")
          /\ UNCHANGED waiting
       \/ \E w \in waiting :
              /\ q[t] = "notify"
              /\ q' = [q EXCEPT ![t] = "idle", ![w] = "relock"]
              /\ waiting' = waiting \ {w}
    /\ UNCHANGED <<_queue, _mutex, val, order, taken>>

--------------------------------------------------------------------------------
(* empty() reads the std::queue without _mutex.  While another thread is in   *)
(* its critical section the answer may be that of before or of after it.      *)

emptyAnswers(t) ==
    IF _mutex \in {None, t} THEN {_queue = <<>>} ELSE BOOLEAN

--------------------------------------------------------------------------------
(* wait_and_pop. *)

PopLock(t) ==
    /\ To(t, "idle", "check")
    /\ _mutex = None
    /\ _mutex' = t
    /\ UNCHANGED <<_queue, waiting, val, order, taken>>

\* The predicate of _cv.wait; to wait releases _mutex.
WaitCheck(t) ==
    \/ /\ _queue # <<>>
       /\ To(t, "check", "take")
       /\ UNCHANGED <<_mutex, waiting, _queue, val, order, taken>>
    \/ /\ _queue = <<>>
       /\ To(t, "check", "wait")
       /\ _mutex' = None
       /\ waiting' = waiting \cup {t}
       /\ UNCHANGED <<_queue, val, order, taken>>

\* A thread wakes without a notification.
SpuriousWake(t) ==
    /\ t \in waiting
    /\ To(t, "wait", "relock")
    /\ waiting' = waiting \ {t}
    /\ UNCHANGED <<_queue, _mutex, val, order, taken>>

\* Mutant: the predicate is not asked again.
WaitRelockUnchecked(t) ==
    /\ To(t, "relock", "take")
    /\ _mutex = None
    /\ _mutex' = t
    /\ UNCHANGED <<_queue, waiting, val, order, taken>>

WaitRelock(t) ==
    /\ To(t, "relock", "check")
    /\ _mutex = None
    /\ _mutex' = t
    /\ UNCHANGED <<_queue, waiting, val, order, taken>>

\* front and pop of a queue that must not be empty, and the return, which unlocks.
Take(t) ==
    /\ _queue # <<>>
    /\ To(t, "take", "idle")
    /\ val' = [val EXCEPT ![t] = Head(_queue)]
    /\ taken' = Append(taken, Head(_queue))
    /\ _queue' = Tail(_queue)
    /\ _mutex' = None
    /\ UNCHANGED <<waiting, order>>

\* The caller has used the element that wait_and_pop returned.
Drop(t) ==
    /\ q[t] = "idle"
    /\ val' = [val EXCEPT ![t] = None]
    /\ UNCHANGED <<_queue, _mutex, waiting, q, order, taken>>

QueueNext ==
    \E t \in Users :
        \/ \E v \in Elements : PushLock(t, v)
        \/ PushInsert(t) \/ Notify(t)
        \/ PopLock(t) \/ WaitCheck(t) \/ SpuriousWake(t) \/ WaitRelock(t) \/ Take(t) \/ Drop(t)

QueueSpec == QueueInit /\ [][QueueNext]_queueVars

--------------------------------------------------------------------------------
QueueTypeOK ==
    /\ _queue \in Seq(Elements) /\ order \in Seq(Elements) /\ taken \in Seq(Elements)
    /\ _mutex \in Users \cup {None}
    /\ waiting = {t \in Users : q[t] = "wait"}
    /\ q \in [Users -> {"idle", "push", "notify", "check", "wait", "relock", "take"}]
    /\ val \in [Users -> Elements \cup {None}]

(* The queue is a FIFO whatever the threads do: the elements taken, then the  *)
(* ones in the queue, are the ones pushed, in that order; _mutex is held      *)
(* where the code holds it; and wait_and_pop calls front() and pop() only on  *)
(* a queue that is not empty, spurious and late wake-ups included.            *)
TakenInOrder ==
    /\ QueueTypeOK
    /\ taken \o _queue = order
    /\ \A t \in Users :
          /\ q[t] \in {"push", "check", "take"} <=> _mutex = t
          /\ q[t] = "push" => val[t] # None
          /\ q[t] = "take" => _queue # <<>>
================================================================================
