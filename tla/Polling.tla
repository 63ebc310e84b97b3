-------------------------------- MODULE Polling --------------------------------
(******************************************************************************)
(* A program of the three locking components.  Producers push elements into a *)
(* ThreadSafeQueue; consumers take them and log them.  A consumer either      *)
(* waits (it calls wait_and_pop) or polls: it takes the Mutex with lock() or  *)
(* try_lock(), asks empty(), calls wait_and_pop() if the answer was false,    *)
(* and unlocks.  The program polls or waits, as Init decides.                 *)
(******************************************************************************)
EXTENDS SpinMutex, ThreadSafeQueue, Logger, FiniteSets, Functions

CONSTANTS Producers, Consumers

ASSUME ThreadsAssumption ==
    /\ Producers \cup Consumers \subseteq Users /\ Producers \cap Consumers = {}
    /\ Consumers \subseteq Lockers
    /\ Consumers \subseteq Callers \ {Starter}
ASSUME MessagesAssumption == Elements \subseteq Messages

VARIABLES polls, \* whether this program polls
          found  \* the consumers that were told that the queue is not empty

vars == <<mutexVars, queueVars, loggerVars, polls, found>>

Init ==
    /\ MutexInit /\ QueueInit /\ LoggerInit
    /\ polls \in BOOLEAN
    /\ found = {}

Pushed == {v \in Elements : v \in Range(order) \/ \E t \in Users : val[t] = v}

Produce(t) ==
    /\ \/ \E v \in Elements \ Pushed : PushLock(t, v)
       \/ PushInsert(t) \/ Notify(t)
    /\ UNCHANGED <<mutexVars, loggerVars, polls, found>>

Idle(t) == q[t] = "idle" /\ l[t] = "idle" /\ val[t] = None

\* The calls of lock, try_lock and unlock.
UseMutex(t) ==
    /\ polls
    /\ \/ m[t] = "out" /\ Idle(t) /\ (LockFast(t) \/ TryLock(t)) /\ UNCHANGED found
       \/ (LockTest(t) \/ LockTry(t)) /\ UNCHANGED found
       \/ \* the poll: empty() under the Mutex; nothing to take, unlock
          /\ m[t] = "in" /\ Idle(t) /\ t \notin found
          /\ TRUE \in emptyAnswers(t)
          /\ Unlock(t) /\ UNCHANGED found
       \/ \* unlock with the element in hand
          /\ t \in found /\ val[t] # None
          /\ Unlock(t)
          /\ found' = found \ {t}
    /\ UNCHANGED <<queueVars, loggerVars, polls>>

\* empty() answered false under the Mutex.
Find(t) ==
    /\ polls
    /\ m[t] = "in" /\ Idle(t) /\ t \notin found
    /\ FALSE \in emptyAnswers(t)
    /\ found' = found \cup {t}
    /\ UNCHANGED <<mutexVars, queueVars, loggerVars, polls>>

Pop(t) ==
    /\ \/ (IF polls THEN t \in found ELSE TRUE) /\ Idle(t) /\ PopLock(t)
       \/ WaitCheck(t) \/ WaitRelock(t) \/ Take(t)
    /\ UNCHANGED <<mutexVars, loggerVars, polls, found>>

Wake(t) == SpuriousWake(t) /\ UNCHANGED <<mutexVars, loggerVars, polls, found>>

Log(t) ==
    /\ \/ /\ q[t] = "idle" /\ val[t] # None /\ m[t] = "out"
          /\ CallLog(t) \/ Format(t, val[t])
          /\ UNCHANGED queueVars
       \/ (Construct(t) \/ LogLock(t)) /\ UNCHANGED queueVars
       \/ LogWrite(t) /\ Drop(t)
    /\ UNCHANGED <<mutexVars, polls, found>>

Start == (CallInit \/ Construct(Starter)) /\ UNCHANGED <<mutexVars, queueVars, polls, found>>

ConsumerStep(t) == UseMutex(t) \/ Find(t) \/ Pop(t) \/ Log(t)

Next ==
    \/ \E t \in Producers : Produce(t)
    \/ \E t \in Consumers : ConsumerStep(t) \/ Wake(t)
    \/ Start

(* Every thread of the program keeps running, std::mutex included; spurious   *)
(* wake-ups may never come.                                                   *)
Spec ==
    /\ Init /\ [][Next]_vars
    /\ \A t \in Producers : WF_vars(Produce(t))
    /\ \A t \in Consumers : WF_vars(ConsumerStep(t))
    /\ WF_vars(Start)

--------------------------------------------------------------------------------
(* A poll does not block: a consumer that was told under the Mutex that the   *)
(* queue is not empty never waits on the condition variable, although empty() *)
(* is read without the queue's lock.  It rests on the Mutex: nobody else may  *)
(* take the element in between, so try_lock must mean what its callers take   *)
(* it to mean.                                                                *)
PollDoesNotBlock == polls => waiting = {}

(* No wake-up is lost: every element that is pushed is taken and printed,     *)
(* although the notification comes after the unlock and may find nobody       *)
(* waiting, or somebody whom another consumer overtakes.                      *)
AllPrinted ==
    \A v \in Elements : v \in Range(_queue) ~> \E i \in DOMAIN cout : cout[i][2] = v
================================================================================
