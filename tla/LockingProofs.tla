----------------------------- MODULE LockingProofs -----------------------------
(******************************************************************************)
(* Mutual exclusion of Mutex, the FIFO order of ThreadSafeQueue and the one   *)
(* name of Logger, for any number of threads and elements and any use of the  *)
(* three.  Then the program of module Polling: its steps are steps of the     *)
(* three components it uses, so that their theorems hold in it, and a poll    *)
(* does not block.                                                            *)
(******************************************************************************)
EXTENDS Polling, TLAPS

USE NoneAssumption, NameAssumption, SMTT(40)

--------------------------------------------------------------------------------
(* Mutex. *)

\* A test_and_set that found the flag clear is the only way in.
LEMMA EnterKeeps ==
    ASSUME MutualExclusion, NEW t \in Lockers, NEW old \in BOOLEAN, test_and_set(t, old),
           m[t] # "in",
           NEW back \in {"out", "spin"},
           m' = [m EXCEPT ![t] = IF old THEN back ELSE "in"]
    PROVE  MutualExclusion'
BY Zenon DEF MutualExclusion, MutexTypeOK, test_and_set

\* Every step of the threads of lock, try_lock and unlock keeps mutual exclusion.
LEMMA MutexStep ==
    ASSUME MutualExclusion, [MutexNext]_mutexVars
    PROVE  MutualExclusion'
<1>1. CASE UNCHANGED mutexVars
  BY <1>1, Zenon DEF MutualExclusion, MutexTypeOK, mutexVars
<1>2. ASSUME NEW t \in Lockers, LockFast(t) \/ LockTry(t)
      PROVE  MutualExclusion'
  <2>1. PICK old \in BOOLEAN :
            test_and_set(t, old) /\ m[t] # "in" /\ m' = [m EXCEPT ![t] = IF old THEN "spin" ELSE "in"]
    BY <1>2, ZenonT(40) DEF LockFast, LockTry, At
  <2>2. QED
    BY <2>1, EnterKeeps, ZenonT(40)
<1>3. ASSUME NEW t \in Lockers, TryLock(t)
      PROVE  MutualExclusion'
  <2>1. PICK old \in BOOLEAN :
            test_and_set(t, old) /\ m[t] # "in" /\ m' = [m EXCEPT ![t] = IF old THEN "out" ELSE "in"]
    BY <1>3, ZenonT(40) DEF TryLock, try_lock, At
  <2>2. QED
    BY <2>1, EnterKeeps, ZenonT(40)
<1>6. ASSUME NEW t \in Lockers, LockTest(t)
      PROVE  MutualExclusion'
  <2>1. m[t] = "spin" /\ m' = [m EXCEPT ![t] = "try"] /\ flag' = flag /\ synced' = synced
    BY <1>6, Zenon DEF LockTest, At
  <2>2. QED
    BY <2>1, Zenon DEF MutualExclusion, MutexTypeOK
<1>4. ASSUME NEW t \in Lockers, Unlock(t)
      PROVE  MutualExclusion'
  BY <1>4, ZenonT(40) DEF MutualExclusion, MutexTypeOK, Unlock, At
<1>5. QED
  BY <1>1, <1>2, <1>3, <1>4, <1>6, Zenon DEF MutexNext

(* Mutual exclusion of SpinMutex.hpp, for any number of threads that lock,    *)
(* try_lock and unlock in any order: one owner, and its critical section is   *)
(* ordered after all earlier ones.                                            *)
THEOREM Exclusion == MutexSpec => []MutualExclusion
<1>1. MutexInit => MutualExclusion
  <2>1. MutexInit => MutexTypeOK /\ \A t \in Lockers : m[t] # "in"
    BY ZenonT(40) DEF MutexInit, MutexTypeOK
  <2>2. QED
    BY <2>1, ZenonT(40) DEF MutualExclusion
<1>2. QED
  BY <1>1, MutexStep, PTL DEF MutexSpec

--------------------------------------------------------------------------------
(* ThreadSafeQueue. *)

\* An element that goes from the front of b to the end of a changes nothing in a \o b.
LEMMA MoveOver ==
    ASSUME NEW S, NEW a \in Seq(S), NEW b \in Seq(S), b # <<>>
    PROVE  Append(a, Head(b)) \o Tail(b) = a \o b
OBVIOUS

\* An element that is appended to b is appended to a \o b.
LEMMA AppendOver ==
    ASSUME NEW S, NEW a \in Seq(S), NEW b \in Seq(S), NEW e \in S
    PROVE  a \o Append(b, e) = Append(a \o b, e)
OBVIOUS

\* push takes _mutex, inserts its element behind the others and unlocks.
LEMMA PushStep ==
    ASSUME TakenInOrder, NEW t \in Users,
           (\E v \in Elements : PushLock(t, v)) \/ PushInsert(t)
    PROVE  TakenInOrder'
<1>1. ASSUME NEW v \in Elements, PushLock(t, v)
      PROVE  TakenInOrder'
  BY <1>1, Zenon DEF TakenInOrder, QueueTypeOK, PushLock, To
<1>2. CASE PushInsert(t)
  <2>1. val[t] \in Elements /\ _mutex = t
    BY <1>2, Zenon DEF TakenInOrder, QueueTypeOK, PushInsert, To
  <2>2. _queue' \in Seq(Elements) /\ order' \in Seq(Elements) /\ taken' \o _queue' = order'
    BY <1>2, <2>1, AppendOver DEF TakenInOrder, QueueTypeOK, PushInsert
  <2>3. _queue' # <<>>
    BY <1>2, <2>1 DEF TakenInOrder, QueueTypeOK, PushInsert
  <2>4. QED
    BY <1>2, <2>1, <2>2, <2>3, Zenon DEF TakenInOrder, QueueTypeOK, PushInsert, To
<1>3. QED
  BY <1>1, <1>2, Zenon

\* Waiting, waking and notifying move no element.
LEMMA WaitStep ==
    ASSUME TakenInOrder, NEW t \in Users,
           \/ Notify(t) \/ PopLock(t) \/ WaitCheck(t)
           \/ SpuriousWake(t) \/ WaitRelock(t) \/ Drop(t)
    PROVE  TakenInOrder'
<1>1. CASE Notify(t)
  <2>1. CASE waiting = {} /\ q' = [q EXCEPT ![t] = "idle"] /\ UNCHANGED waiting
    BY <1>1, <2>1, Zenon DEF TakenInOrder, QueueTypeOK, Notify, To
  <2>2. ASSUME NEW w \in waiting, q[t] = "notify",
               q' = [q EXCEPT ![t] = "idle", ![w] = "relock"], waiting' = waiting \ {w}
        PROVE  TakenInOrder'
    <3>1. w \in Users /\ q[w] = "wait" /\ w # t
      BY <2>2, Zenon DEF TakenInOrder, QueueTypeOK
    <3>4. q \in [Users -> {"idle", "push", "notify", "check", "wait", "relock", "take"}]
          /\ waiting = {u \in Users : q[u] = "wait"}
      BY Zenon DEF TakenInOrder, QueueTypeOK
    <3>5. \A u \in Users : q'[u] = "wait" <=> q[u] = "wait" /\ u # w
      BY <2>2, <3>1, <3>4, Zenon
    <3>6. waiting' = {u \in Users : q'[u] = "wait"}
      BY <2>2, <3>4, <3>5, Zenon
    <3>2. QueueTypeOK'
      BY <1>1, <2>2, <3>1, <3>6, Zenon DEF TakenInOrder, QueueTypeOK, Notify
    <3>3. QED
      BY <1>1, <2>2, <3>1, <3>2 DEF TakenInOrder, QueueTypeOK, Notify
  <2>3. QED
    BY <1>1, <2>1, <2>2, Zenon DEF Notify, To
<1>2. CASE PopLock(t)
  BY <1>2, Zenon DEF TakenInOrder, QueueTypeOK, PopLock, To
<1>3. CASE WaitCheck(t)
  <2>1. CASE _queue # <<>>
    <3>1. /\ q[t] = "check" /\ q' = [q EXCEPT ![t] = "take"]
          /\ UNCHANGED <<_mutex, waiting, _queue, val, order, taken>>
      BY <1>3, <2>1, Zenon DEF WaitCheck, To
    <3>2. QueueTypeOK'
      BY <3>1, Zenon DEF TakenInOrder, QueueTypeOK
    <3>3. QED
      BY <2>1, <3>1, <3>2, Zenon DEF TakenInOrder, QueueTypeOK
  <2>2. CASE _queue = <<>>
    <3>1. /\ q[t] = "check" /\ q' = [q EXCEPT ![t] = "wait"]
          /\ _mutex' = None /\ waiting' = waiting \cup {t}
          /\ UNCHANGED <<_queue, val, order, taken>>
      BY <1>3, <2>2, Zenon DEF WaitCheck, To
    <3>2. QueueTypeOK'
      BY <3>1 DEF TakenInOrder, QueueTypeOK
    <3>3. QED
      BY <3>1, <3>2, Zenon DEF TakenInOrder, QueueTypeOK
  <2>3. QED
    BY <2>1, <2>2, Zenon
<1>4. CASE SpuriousWake(t)
  BY <1>4, Zenon DEF TakenInOrder, QueueTypeOK, SpuriousWake, To
<1>5. CASE WaitRelock(t)
  BY <1>5, Zenon DEF TakenInOrder, QueueTypeOK, WaitRelock, To
<1>6. CASE Drop(t)
  BY <1>6, Zenon DEF TakenInOrder, QueueTypeOK, Drop, To
<1>7. QED
  BY <1>1, <1>2, <1>3, <1>4, <1>5, <1>6, Zenon

\* The owner takes the oldest element.
LEMMA TakeStep ==
    ASSUME TakenInOrder, NEW t \in Users, Take(t)
    PROVE  TakenInOrder'
<1>1. _queue \in Seq(Elements) /\ _queue # <<>> /\ taken \in Seq(Elements) /\ _mutex = t
  BY Zenon DEF TakenInOrder, QueueTypeOK, Take, To
<1>2. Head(_queue) \in Elements /\ Tail(_queue) \in Seq(Elements)
  BY <1>1
<1>3. /\ taken' = Append(taken, Head(_queue)) /\ _queue' = Tail(_queue)
      /\ order' = order /\ taken \o _queue = order
  BY Zenon DEF TakenInOrder, Take
<1>5. taken' \o _queue' = order' /\ taken' \in Seq(Elements) /\ _queue' \in Seq(Elements)
  BY <1>1, <1>2, <1>3, MoveOver
<1>4. QED
  BY <1>1, <1>2, <1>5, Zenon DEF TakenInOrder, QueueTypeOK, Take, To

\* Every step of the threads of push and wait_and_pop keeps the order.
LEMMA QueueStep ==
    ASSUME TakenInOrder, [QueueNext]_queueVars
    PROVE  TakenInOrder'
<1>1. CASE UNCHANGED queueVars
  BY <1>1, Zenon DEF TakenInOrder, QueueTypeOK, queueVars
<1>2. QED
  BY <1>1, PushStep, WaitStep, TakeStep, Zenon DEF QueueNext

(* ThreadSafeQueue is a FIFO for any number of threads and elements: what     *)
(* wait_and_pop returns was pushed, once each and in order, and front() is    *)
(* never called on an empty queue, whatever wakes its callers.                *)
THEOREM FirstInFirstOut == QueueSpec => []TakenInOrder
<1>1. QueueInit => TakenInOrder
  BY DEF QueueInit, TakenInOrder, QueueTypeOK
<1>2. QED
  BY <1>1, QueueStep, PTL DEF QueueSpec

--------------------------------------------------------------------------------
(* Logger. *)

(* The inductive invariant: the one thread that constructs the instance is    *)
(* the first that asked for it, nobody gets past get_instance before it is    *)
(* there, and its name never changes.                                         *)
NameInv ==
    /\ LoggerTypeOK
    /\ builder # Nobody => first = builder
    /\ instance # Nobody => builder = Nobody /\ first # Nobody /\ instance = NameOf(first)
    /\ \A t \in Callers :
          /\ l[t] = "construct" <=> builder = t
          /\ l[t] \in {"format", "lock", "write"} => instance # Nobody
          /\ l[t] \in {"lock", "write"} =>
                line[t] \in {Name, Generic} \X Messages /\ line[t][1] = instance
    /\ instance = Nobody => cout = <<>>
    /\ \A i \in DOMAIN cout : cout[i][1] = instance

\* get_instance lets one thread construct, and afterwards every thread pass.
LEMMA GetInstanceStep ==
    ASSUME NameInv, NEW t \in Callers, NEW to \in {"done", "format"}, get_instance(t, "idle", to)
    PROVE  NameInv'
<1>1. CASE instance = Nobody
  BY <1>1 DEF NameInv, LoggerTypeOK, get_instance, Step
<1>2. CASE instance # Nobody
  BY <1>2 DEF NameInv, LoggerTypeOK, get_instance, Step
<1>3. QED
  BY <1>1, <1>2, Zenon

\* The constructor stores the name that the first call passed.
LEMMA ConstructStep ==
    ASSUME NameInv, NEW t \in Callers, Construct(t)
    PROVE  NameInv'
<1>1. builder = t /\ first = t /\ instance = Nobody /\ cout = <<>>
  BY Zenon DEF NameInv, Construct, Step
<1>2. NameOf(t) \in {Name, Generic} /\ NameOf(t) # Nobody
  BY Zenon DEF NameOf
<1>3. LoggerTypeOK'
  BY <1>2, Zenon DEF NameInv, LoggerTypeOK, Construct, Step
<1>4. \A u \in Callers :
          /\ l'[u] = "construct" <=> builder' = u
          /\ l'[u] \in {"format", "lock", "write"} => instance' # Nobody
          /\ l'[u] \notin {"lock", "write"}
  BY <1>1, <1>2, Zenon DEF NameInv, LoggerTypeOK, Construct, Step
<1>5. QED
  BY <1>1, <1>2, <1>3, <1>4 DEF NameInv, Construct

\* A line gets the name of the instance, and reaches std::cout as it is.
LEMMA LogStep ==
    ASSUME NameInv, NEW t \in Callers,
           (\E what \in Messages : Format(t, what)) \/ LogLock(t) \/ LogWrite(t)
    PROVE  NameInv'
<1>1. ASSUME NEW what \in Messages, Format(t, what)
      PROVE  NameInv'
  <2>1. instance \in {Name, Generic}
    BY <1>1, Zenon DEF NameInv, LoggerTypeOK, Format, Step
  <2>2. <<instance, what>> \in {Name, Generic} \X Messages /\ <<instance, what>>[1] = instance
    BY <2>1, Zenon
  <2>3. LoggerTypeOK'
    BY <1>1, <2>2, Zenon DEF NameInv, LoggerTypeOK, Format, Step
  <2>4. QED
    BY <1>1, <2>2, <2>3, Zenon DEF NameInv, LoggerTypeOK, Format, Step
<1>2. CASE LogLock(t)
  BY <1>2, Zenon DEF NameInv, LoggerTypeOK, LogLock, Step
<1>3. CASE LogWrite(t)
  <2>1. instance # Nobody /\ line[t] \in {Name, Generic} \X Messages /\ line[t][1] = instance
    BY <1>3, Zenon DEF NameInv, LogWrite, Step
  <2>2. cout' \in Seq({Name, Generic} \X Messages)
        /\ \A i \in DOMAIN cout' : cout'[i][1] = instance
    BY <1>3, <2>1 DEF NameInv, LoggerTypeOK, LogWrite
  <2>3. LoggerTypeOK'
    BY <1>3, <2>2, Zenon DEF NameInv, LoggerTypeOK, LogWrite, Step
  <2>4. QED
    BY <1>3, <2>1, <2>2, <2>3, Zenon DEF NameInv, LoggerTypeOK, LogWrite, Step
<1>4. QED
  BY <1>1, <1>2, <1>3, Zenon

\* Every step of the threads that call init and log keeps the invariant.
LEMMA LoggerStep ==
    ASSUME NameInv, [LoggerNext]_loggerVars
    PROVE  NameInv'
<1>1. CASE UNCHANGED loggerVars
  BY <1>1, Zenon DEF NameInv, LoggerTypeOK, loggerVars
<1>2. QED
  BY <1>1, GetInstanceStep, ConstructStep, LogStep, Zenon DEF LoggerNext, CallInit, CallLog

\* The invariant gives every line on std::cout the one name.
LEMMA NameInvOneName == NameInv => OneName
BY DEF NameInv, OneName

(* One name per Tag, for any number of threads: every line of Logger.hh is    *)
(* printed under the name that the first call of get_instance passed.         *)
THEOREM NamedOnce == LoggerSpec => []OneName
<1>1. LoggerInit => NameInv
  BY DEF LoggerInit, NameInv, LoggerTypeOK
<1>2. QED
  BY <1>1, LoggerStep, NameInvOneName, PTL DEF LoggerSpec

--------------------------------------------------------------------------------
(* Polling. *)

USE ThreadsAssumption, MessagesAssumption

--------------------------------------------------------------------------------
(* Every step of the program is, for each component, a step of that component *)
(* or none.                                                                   *)

\* A step of the program is one of lock, try_lock or unlock, or leaves the Mutex alone.
LEMMA MutexSteps ==
    ASSUME [Next]_vars
    PROVE  [MutexNext]_mutexVars
<1>1. ASSUME NEW t \in Consumers, UseMutex(t)
      PROVE  MutexNext
  BY <1>1, ZenonT(40) DEF UseMutex, MutexNext
<1>2. QED
  BY <1>1, ZenonT(40) DEF Next, vars, Produce, ConsumerStep, Find, Pop, Log, Wake, Start

\* Or one of push or wait_and_pop, or leaves the queue alone.
LEMMA QueueSteps ==
    ASSUME [Next]_vars
    PROVE  [QueueNext]_queueVars
<1>1. ASSUME NEW t \in Producers, Produce(t)
      PROVE  QueueNext
  BY <1>1, ZenonT(40) DEF Produce, QueueNext
<1>2. ASSUME NEW t \in Consumers, Pop(t) \/ Wake(t)
      PROVE  QueueNext
  BY <1>2, ZenonT(40) DEF Pop, Wake, QueueNext
<1>3. ASSUME NEW t \in Consumers, Log(t)
      PROVE  [QueueNext]_queueVars
  BY <1>3, ZenonT(40) DEF Log, QueueNext
<1>4. QED
  BY <1>1, <1>2, <1>3, ZenonT(40) DEF Next, vars, ConsumerStep, UseMutex, Find, Start

\* Or one of init or of a log call, or leaves the Logger alone.
LEMMA LoggerSteps ==
    ASSUME [Next]_vars, TakenInOrder
    PROVE  [LoggerNext]_loggerVars
<1>1. ASSUME NEW t \in Consumers, Log(t)
      PROVE  LoggerNext
  <2>1. t \in Callers \ {Starter} /\ (val[t] # None => val[t] \in Messages)
    BY Zenon DEF TakenInOrder, QueueTypeOK
  <2>2. QED
    BY <1>1, <2>1, ZenonT(40) DEF Log, LoggerNext
<1>2. Start => LoggerNext
  BY ZenonT(40) DEF Start, LoggerNext
<1>3. QED
  BY <1>1, <1>2, ZenonT(40) DEF Next, vars, Produce, ConsumerStep, UseMutex, Find, Pop, Wake

--------------------------------------------------------------------------------
(* What holds in a program that polls.  Only the owner of the Mutex is in     *)
(* wait_and_pop; as long as it has no element yet, the queue that it found    *)
(* not empty has one, or a producer who has _mutex is inserting one.          *)
Polled ==
    /\ waiting = {}
    /\ \A u \in Users \ (Producers \cup Consumers) : q[u] = "idle"
    /\ \A p \in Producers : q[p] \in {"idle", "push", "notify"}
    /\ \A t \in Consumers :
          /\ q[t] \in {"idle", "check", "take"}
          /\ q[t] # "idle" => t \in found /\ val[t] = None
          /\ l[t] # "idle" => m[t] = "out"
    /\ \A t \in found :
          /\ m[t] = "in"
          /\ val[t] = None => _queue # <<>> \/ \E p \in Producers : _mutex = p /\ q[p] = "push"

\* The inductive invariant.
PollInv ==
    /\ MutualExclusion /\ TakenInOrder /\ NameInv
    /\ found \subseteq Consumers
    /\ polls => Polled

\* A push by a producer keeps it: nobody is waiting, and the queue only grows.
LEMMA PolledProduce ==
    ASSUME PollInv, polls, NEW p \in Producers, Produce(p)
    PROVE  Polled'
<1>1. p \in Users /\ p \notin Consumers /\ waiting = {} /\ Polled
  BY Zenon DEF PollInv, Polled
<1>2. UNCHANGED <<m, l, found>>
  BY Zenon DEF Produce, mutexVars, loggerVars
<1>3. ASSUME NEW v \in Elements, PushLock(p, v)
      PROVE  Polled'
  BY <1>1, <1>2, <1>3 DEF PollInv, Polled, TakenInOrder, QueueTypeOK, PushLock, To
<1>4. CASE PushInsert(p)
  <2>3. val[p] \in Elements /\ _queue \in Seq(Elements)
    BY <1>1, <1>4, Zenon DEF PollInv, TakenInOrder, QueueTypeOK, PushInsert, To
  <2>1. _queue' # <<>>
    BY <1>4, <2>3 DEF PushInsert
  <2>2. QED
    BY <1>1, <1>2, <1>4, <2>1 DEF PollInv, Polled, TakenInOrder, QueueTypeOK, PushInsert, To
<1>5. CASE Notify(p)
  <2>1. q[p] = "notify" /\ q' = [q EXCEPT ![p] = "idle"] /\ UNCHANGED <<_queue, _mutex, waiting, val>>
    BY <1>1, <1>5, Zenon DEF Notify, To
  <2>2. QED
    BY <1>1, <1>2, <2>1 DEF PollInv, Polled, TakenInOrder, QueueTypeOK
<1>6. QED
  BY <1>3, <1>4, <1>5, Zenon DEF Produce

(* empty() answered false: there is an element, or another thread is in its   *)
(* critical section.  That thread is no consumer, who would need the Mutex.   *)
LEMMA PolledFind ==
    ASSUME PollInv, NEW t \in Consumers, Find(t)
    PROVE  Polled'
<1>1. polls /\ Polled /\ t \in Users /\ t \in Lockers
  BY Zenon DEF PollInv, Find
<1>2. m[t] = "in" /\ q[t] = "idle" /\ l[t] = "idle" /\ val[t] = None /\ t \notin found
  BY Zenon DEF Find, Idle
<1>3. _queue # <<>> \/ \E p \in Producers : _mutex = p /\ q[p] = "push"
  <2>1. CASE _mutex \in {None, t}
    <3>1. FALSE \in {_queue = <<>>}
      BY <2>1, ZenonT(40) DEF Find, emptyAnswers
    <3>2. QED
      BY <3>1, ZenonT(40)
  <2>2. CASE _mutex \notin {None, t}
    <3>1. _mutex \in Users /\ q[_mutex] \in {"push", "check", "take"}
      BY <2>2, Zenon DEF PollInv, TakenInOrder, QueueTypeOK
    <3>2. _mutex \notin Consumers
      <4>1. SUFFICES ASSUME _mutex \in Consumers PROVE FALSE
        OBVIOUS
      <4>2. _mutex \in found /\ _mutex \in Lockers /\ m[_mutex] = "in"
        BY <1>1, <3>1, <4>1, Zenon DEF Polled
      <4>3. QED
        BY <1>1, <1>2, <2>2, <4>2, Zenon DEF PollInv, MutualExclusion
    <3>3. QED
      BY <1>1, <3>1, <3>2, Zenon DEF Polled
  <2>3. QED
    BY <2>1, <2>2, Zenon
<1>4. UNCHANGED <<m, l, q, val, _queue, _mutex, waiting>> /\ found' = found \cup {t}
  BY Zenon DEF Find, mutexVars, queueVars, loggerVars
<1>5. QED
  BY <1>1, <1>2, <1>3, <1>4, Zenon DEF Polled

\* The owner of the Mutex pops: whenever it has _mutex, there is an element.
LEMMA PolledPop ==
    ASSUME PollInv, polls, NEW t \in Consumers, Pop(t)
    PROVE  Polled'
<1>1. Polled /\ t \in Users /\ t \in Lockers /\ t \notin Producers
  BY Zenon DEF PollInv
<1>2. UNCHANGED <<m, l, found>>
  BY Zenon DEF Pop, mutexVars, loggerVars
<1>3. CASE t \in found /\ Idle(t) /\ PopLock(t)
  BY <1>1, <1>2, <1>3 DEF PollInv, Polled, TakenInOrder, QueueTypeOK, Idle, PopLock, To
<1>4. CASE WaitCheck(t)
  <2>1. q[t] = "check" /\ _mutex = t /\ t \in found /\ val[t] = None
    BY <1>1, <1>4, Zenon DEF PollInv, Polled, TakenInOrder, WaitCheck, To
  <2>2. _queue # <<>>
    BY <1>1, <2>1, Zenon DEF Polled
  <2>3. q' = [q EXCEPT ![t] = "take"] /\ UNCHANGED <<_mutex, waiting, _queue, val>>
    BY <1>4, <2>2, Zenon DEF WaitCheck, To
  <2>4. QED
    BY <1>1, <1>2, <2>1, <2>3 DEF PollInv, Polled, TakenInOrder, QueueTypeOK
<1>5. CASE WaitRelock(t)
  BY <1>1, <1>5, Zenon DEF Polled, WaitRelock, To
<1>6. CASE Take(t)
  <2>1. Head(_queue) # None
    BY <1>6 DEF PollInv, TakenInOrder, QueueTypeOK, Take
  <2>2. /\ q[t] = "take" /\ q' = [q EXCEPT ![t] = "idle"] /\ val' = [val EXCEPT ![t] = Head(_queue)]
        /\ waiting' = waiting
    BY <1>6, Zenon DEF Take, To
  <2>3. t \in found /\ \A u \in found : u = t
    BY <1>1, <2>2 DEF PollInv, Polled, MutualExclusion
  <2>4. val'[t] # None
    BY <1>1, <2>1, <2>2, Zenon DEF PollInv, TakenInOrder, QueueTypeOK
  <2>5. QED
    BY <1>1, <1>2, <2>2, <2>3, <2>4 DEF PollInv, Polled, TakenInOrder, QueueTypeOK
<1>7. QED
  BY <1>3, <1>4, <1>5, <1>6, Zenon DEF Pop

\* lock and try_lock are not called by who has the Mutex; unlock by who has nothing to take.
LEMMA PolledUseMutex ==
    ASSUME PollInv, NEW t \in Consumers, UseMutex(t)
    PROVE  Polled'
<1>1. polls /\ Polled /\ t \in Lockers /\ m \in [Lockers -> {"out", "spin", "try", "in"}]
  BY Zenon DEF PollInv, UseMutex, MutualExclusion, MutexTypeOK
<1>2. UNCHANGED <<q, l, val, _queue, _mutex, waiting>>
  BY Zenon DEF UseMutex, queueVars, loggerVars
<1>3. CASE m[t] # "in" /\ l[t] = "idle" /\ found' = found
           /\ \E to \in {"out", "spin", "try", "in"} : m' = [m EXCEPT ![t] = to]
  <2>1. t \notin found
    BY <1>1, <1>3, Zenon DEF Polled
  <2>2. PICK to \in {"out", "spin", "try", "in"} : m' = [m EXCEPT ![t] = to]
    BY <1>3, ZenonT(40)
  <2>3. QED
    BY <1>1, <1>2, <1>3, <2>1, <2>2, ZenonT(40) DEF PollInv, Polled
<1>4. CASE m[t] = "in" /\ t \notin found /\ found' = found /\ m' = [m EXCEPT ![t] = "out"]
  BY <1>1, <1>2, <1>4, Zenon DEF PollInv, Polled
<1>5. CASE t \in found /\ val[t] # None /\ found' = found \ {t} /\ m' = [m EXCEPT ![t] = "out"]
  BY <1>1, <1>2, <1>5, Zenon DEF PollInv, Polled
<1>6. LockFast(t) \/ TryLock(t) =>
          m[t] # "in" /\ \E to \in {"out", "spin", "try", "in"} : m' = [m EXCEPT ![t] = to]
  BY ZenonT(40) DEF LockFast, TryLock, At
<1>7. LockTest(t) \/ LockTry(t) =>
          m[t] \in {"spin", "try"} /\ \E to \in {"out", "spin", "try", "in"} : m' = [m EXCEPT ![t] = to]
  BY ZenonT(40) DEF LockTest, LockTry, At
<1>8. m[t] \in {"spin", "try"} => m[t] # "in" /\ l[t] = "idle"
  BY <1>1, Zenon DEF Polled
<1>9. Unlock(t) => m[t] = "in" /\ m' = [m EXCEPT ![t] = "out"]
  BY Zenon DEF Unlock, At
<1>10. QED
  BY <1>3, <1>4, <1>5, <1>6, <1>7, <1>8, <1>9, ZenonT(40) DEF UseMutex, Idle

\* A consumer logs after it has unlocked.
LEMMA PolledLog ==
    ASSUME PollInv, polls, NEW t \in Consumers, Log(t)
    PROVE  Polled'
<1>1. Polled /\ t \in Users /\ t \in Callers /\ found' = found /\ UNCHANGED <<m, q, _queue, _mutex, waiting>>
  BY Zenon DEF PollInv, Log, mutexVars, queueVars, Drop
<1>2. m[t] = "out" /\ val' \in {val, [val EXCEPT ![t] = None]}
  <2>1. CASE q[t] = "idle" /\ val[t] # None /\ m[t] = "out" /\ UNCHANGED queueVars
    BY <2>1, Zenon DEF queueVars
  <2>2. CASE (Construct(t) \/ LogLock(t)) /\ UNCHANGED queueVars
    BY <1>1, <2>2, Zenon DEF Polled, Construct, LogLock, Step, queueVars
  <2>3. CASE LogWrite(t) /\ Drop(t)
    BY <1>1, <2>3, Zenon DEF Polled, LogWrite, Step, Drop
  <2>4. QED
    BY <2>1, <2>2, <2>3, ZenonT(40) DEF Log
<1>3. \A u \in Callers \ {t} : l'[u] = l[u]
  BY <1>1 DEF PollInv, NameInv, LoggerTypeOK, Log, CallLog, get_instance, Format, Construct, LogLock, LogWrite, Step
<1>4. t \notin found /\ \A u \in Users \ {t} : val'[u] = val[u]
  BY <1>1, <1>2 DEF PollInv, Polled, TakenInOrder, QueueTypeOK
<1>5. q[t] = "idle"
  BY <1>1, <1>4, Zenon DEF Polled
<1>6. QED
  BY <1>1, <1>2, <1>3, <1>4, <1>5 DEF PollInv, Polled

\* Every step of the program keeps the inductive invariant.
LEMMA PollStep ==
    ASSUME PollInv, [Next]_vars
    PROVE  PollInv'
<1>1. MutualExclusion' /\ TakenInOrder' /\ NameInv'
  BY MutexSteps, MutexStep, QueueSteps, QueueStep, LoggerSteps, LoggerStep, Zenon DEF PollInv
<1>2. polls' = polls
  BY ZenonT(40) DEF Next, vars, Produce, ConsumerStep, UseMutex, Find, Pop, Log, Wake, Start
<1>3. found' \subseteq Consumers
  <2>1. \/ found' = found
        \/ \E t \in Consumers : found' = found \ {t} \/ found' = found \cup {t}
    BY ZenonT(40) DEF Next, vars, Produce, ConsumerStep, UseMutex, Find, Pop, Log, Wake, Start
  <2>2. QED
    BY <2>1, Zenon DEF PollInv
<1>4. ASSUME polls PROVE Polled'
  <2>1. Polled
    BY <1>4, Zenon DEF PollInv
  <2>2. CASE UNCHANGED vars
    BY <2>1, <2>2, Zenon DEF Polled, vars, mutexVars, queueVars, loggerVars
  <2>3. ASSUME NEW t \in Consumers, Wake(t)
        PROVE  Polled'
    BY <2>1, <2>3, Zenon DEF Polled, Wake, SpuriousWake
  <2>4. CASE Start
    <3>1. UNCHANGED <<waiting, q, m, val, _queue, _mutex, found>>
      BY <2>4, Zenon DEF Start, mutexVars, queueVars
    <3>2. \A u \in Consumers : l'[u] = l[u]
      BY <2>4 DEF PollInv, NameInv, LoggerTypeOK, Start, CallInit, get_instance, Construct, Step
    <3>3. QED
      BY <2>1, <3>1, <3>2, Zenon DEF PollInv, Polled
  <2>5. QED
    BY <1>4, <2>2, <2>3, <2>4, PolledProduce, PolledFind, PolledPop, PolledUseMutex, PolledLog, Zenon
    DEF Next, ConsumerStep
<1>5. QED
  BY <1>1, <1>2, <1>3, <1>4, Zenon DEF PollInv

\* The inductive invariant holds in every state of the program.
LEMMA PollInvariance == Spec => []PollInv
<1>1. Init => PollInv
  <2>1. Init => MutualExclusion
    <3>1. MutexInit => MutexTypeOK /\ \A t \in Lockers : m[t] # "in"
      BY ZenonT(40) DEF MutexInit, MutexTypeOK
    <3>2. QED
      BY <3>1, ZenonT(40) DEF Init, MutualExclusion
  <2>2. Init => TakenInOrder
    BY DEF Init, QueueInit, TakenInOrder, QueueTypeOK
  <2>3. Init => NameInv
    BY DEF Init, LoggerInit, NameInv, LoggerTypeOK
  <2>4. Init => found \subseteq Consumers /\ Polled
    BY Zenon DEF Init, QueueInit, LoggerInit, Polled
  <2>5. QED
    BY <2>1, <2>2, <2>3, <2>4, Zenon DEF PollInv
<1>2. QED
  BY <1>1, PollStep, PTL DEF Spec

(* A poll does not block, for any number of producers, consumers and          *)
(* elements: under the Mutex of SpinMutex.hpp a consumer whom the unlocked    *)
(* read of empty() told that there is an element never waits for one in       *)
(* wait_and_pop.                                                              *)
THEOREM PollsNeverBlock == Spec => []PollDoesNotBlock
<1>1. PollInv => PollDoesNotBlock
  BY Zenon DEF PollInv, Polled, PollDoesNotBlock
<1>2. QED
  BY <1>1, PollInvariance, PTL

(* The guarantees of the three components hold in the program that uses them  *)
(* together.                                                                  *)
THEOREM ComponentsKept == Spec => [](MutualExclusion /\ TakenInOrder /\ OneName)
<1>1. PollInv => MutualExclusion /\ TakenInOrder /\ OneName
  BY NameInvOneName, Zenon DEF PollInv
<1>2. QED
  BY <1>1, PollInvariance, PTL
================================================================================
