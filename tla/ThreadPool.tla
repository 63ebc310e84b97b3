------------------------------- MODULE ThreadPool ------------------------------
(******************************************************************************)
(* fiah::ThreadPool (src/include/fiah/thread/ThreadPool.hpp): jthread workers *)
(* that take tasks from a queue under m_mutex, woken by m_semaphore, and the  *)
(* destructor that stops them.  Clients enqueue tasks; a task in the domain   *)
(* of Child enqueues another one from inside the pool, also while the pool is *)
(* being destroyed.  Clients have left the pool when its destructor begins.   *)
(*                                                                            *)
(* A worker reads m_tasks.empty() at line 64 without m_mutex: while another   *)
(* thread holds the mutex the read races with it and may return either value. *)
(*                                                                            *)
(* m_mutex, m_semaphore and m_stopping are declared after m_workers, so their *)
(* lifetime ends before the workers are joined.  Their destructors are        *)
(* trivial in libstdc++ and their storage is the pool's, so the model lets    *)
(* the workers go on using them until they are joined.                        *)
(******************************************************************************)
EXTENDS Integers, Sequences, FiniteSets, Functions

CONSTANTS
    NumThreads, \* num_threads
    Clients, Tasks,
    Child,      \* the task that a task enqueues when it runs
    None

ASSUME NumThreadsAssumption == NumThreads \in Nat \ {0}
ASSUME ChildAssumption == DOMAIN Child \subseteq Tasks /\ \A t \in DOMAIN Child : Child[t] \in Tasks

Workers == 1 .. NumThreads
Agents == Workers \cup Clients

ASSUME ClientsAssumption ==
    IsFiniteSet(Clients) /\ Clients \cap Workers = {} /\ None \notin Agents \cup Tasks

Children == {Child[t] : t \in DOMAIN Child}

VARIABLES
    m_tasks, m_semaphore, m_stopping,
    m_mutex,    \* the thread that holds it, or None
    stop_requested,
    pc, task,   \* each thread's next step and the task in its hands
    dtor,       \* the destructor: the worker it wakes next, or how far it is
    submitted,  \* tasks for which a future was handed out
    done,       \* tasks that ran: their futures are ready
    dropped,    \* tasks destroyed with the queue: their futures hold broken_promise
    late        \* for each worker, the tasks it took after m_stopping was set

vars == <<m_tasks, m_semaphore, m_stopping, m_mutex, stop_requested, pc, task, dtor,
          submitted, done, dropped, late>>

Init ==
    /\ m_tasks = <<>>
    /\ m_semaphore = 0
    /\ m_stopping = FALSE
    /\ m_mutex = None
    /\ stop_requested = [w \in Workers |-> FALSE]
    /\ pc = [a \in Agents |-> IF a \in Workers THEN "while" ELSE "idle"]
    /\ task = [a \in Agents |-> None]
    /\ dtor = 0
    /\ submitted = {} /\ done = {} /\ dropped = {}
    /\ late = [w \in Workers |-> 0]

Goto(a, from, to) == pc[a] = from /\ pc' = [pc EXCEPT ![a] = to]
Acquire(a) == m_mutex = None /\ m_mutex' = a
Release == m_mutex' = None

--------------------------------------------------------------------------------
(* enqueue, by a client or by a worker whose task calls it. *)

\* The lock of line 106, for a new task from a client,
EnqueueCall(c, t) ==
    /\ dtor = 0
    /\ t \notin submitted \cup Children
    /\ Goto(c, "idle", "emplace")
    /\ Acquire(c)
    /\ task' = [task EXCEPT ![c] = t]
    /\ submitted' = submitted \cup {t}
    /\ UNCHANGED <<m_tasks, m_semaphore, m_stopping, stop_requested, dtor, done, dropped, late>>

\* or for the child of the task that worker w runs.
EnqueueChild(w) ==
    /\ task[w] \in DOMAIN Child
    /\ Child[task[w]] \notin submitted
    /\ Goto(w, "run", "emplace")
    /\ Acquire(w)
    /\ submitted' = submitted \cup {Child[task[w]]}
    /\ UNCHANGED <<m_tasks, m_semaphore, m_stopping, stop_requested, task, dtor, done, dropped, late>>

EnqueueEmplace(a) ==
    /\ Goto(a, "emplace", "release")
    /\ m_tasks' = Append(m_tasks, IF a \in Workers THEN Child[task[a]] ELSE task[a])
    /\ task' = [task EXCEPT ![a] = IF a \in Workers THEN @ ELSE None]
    /\ Release
    /\ UNCHANGED <<m_semaphore, m_stopping, stop_requested, dtor, submitted, done, dropped, late>>

\* Mutant: the semaphore is not released.
EnqueueReleaseLost(a) ==
    /\ Goto(a, "release", IF a \in Workers THEN "run" ELSE "idle")
    /\ UNCHANGED <<m_semaphore, m_tasks, m_stopping, m_mutex, stop_requested, task, dtor, submitted,
                   done, dropped, late>>

EnqueueRelease(a) ==
    /\ Goto(a, "release", IF a \in Workers THEN "run" ELSE "idle")
    /\ m_semaphore' = m_semaphore + 1
    /\ UNCHANGED <<m_tasks, m_stopping, m_mutex, stop_requested, task, dtor, submitted, done, dropped, late>>

--------------------------------------------------------------------------------
(* The loop of a worker, lines 57 to 78. *)

unchangedByLoop == <<m_stopping, stop_requested, dtor, submitted, dropped>>

\* Mutant: only the stop token ends the loop.
WorkerWhileToken(w) ==
    /\ Goto(w, "while", IF stop_requested[w] THEN "exit" ELSE "acquire")
    /\ UNCHANGED <<m_tasks, m_semaphore, m_mutex, task, done, late, unchangedByLoop>>

WorkerWhile(w) ==
    /\ Goto(w, "while", IF stop_requested[w] \/ m_stopping THEN "exit" ELSE "acquire")
    /\ UNCHANGED <<m_tasks, m_semaphore, m_mutex, task, done, late, unchangedByLoop>>

WorkerAcquire(w) ==
    /\ Goto(w, "acquire", "check")
    /\ m_semaphore > 0
    /\ m_semaphore' = m_semaphore - 1
    /\ UNCHANGED <<m_tasks, m_mutex, task, done, late, unchangedByLoop>>

\* What the unlocked m_tasks.empty() of line 64 may return.
racyEmpty == IF m_mutex = None THEN {m_tasks = <<>>} ELSE BOOLEAN

WorkerCheck(w) ==
    /\ \E empty \in racyEmpty :
          Goto(w, "check", IF stop_requested[w] /\ empty THEN "exit" ELSE "lock")
    /\ UNCHANGED <<m_tasks, m_semaphore, m_mutex, task, done, late, unchangedByLoop>>

WorkerLock(w) ==
    /\ Goto(w, "lock", "take")
    /\ Acquire(w)
    /\ UNCHANGED <<m_tasks, m_semaphore, task, done, late, unchangedByLoop>>

\* Mutant: front() without pop().
WorkerTakeFront(w) ==
    /\ \/ /\ m_tasks = <<>>
          /\ Goto(w, "take", "while")
          /\ UNCHANGED <<m_tasks, task, late>>
       \/ /\ m_tasks # <<>>
          /\ Goto(w, "take", "run")
          /\ task' = [task EXCEPT ![w] = Head(m_tasks)]
          /\ late' = [late EXCEPT ![w] = IF m_stopping THEN @ + 1 ELSE @]
          /\ UNCHANGED m_tasks
    /\ Release
    /\ UNCHANGED <<m_semaphore, done, unchangedByLoop>>

WorkerTake(w) ==
    /\ \/ /\ m_tasks = <<>>
          /\ Goto(w, "take", "while")
          /\ UNCHANGED <<m_tasks, task, late>>
       \/ /\ m_tasks # <<>>
          /\ Goto(w, "take", "run")
          /\ task' = [task EXCEPT ![w] = Head(m_tasks)]
          /\ m_tasks' = Tail(m_tasks)
          /\ late' = [late EXCEPT ![w] = IF m_stopping THEN @ + 1 ELSE @]
    /\ Release
    /\ UNCHANGED <<m_semaphore, done, unchangedByLoop>>

\* task() ends; one that enqueues another has done so.
WorkerRun(w) ==
    /\ task[w] \in DOMAIN Child => Child[task[w]] \in submitted
    /\ Goto(w, "run", "while")
    /\ done' = done \cup {task[w]}
    /\ task' = [task EXCEPT ![w] = None]
    /\ UNCHANGED <<m_tasks, m_semaphore, m_mutex, late, unchangedByLoop>>

--------------------------------------------------------------------------------
(* ~ThreadPool.  dtor is 0 before; 2i-1 and 2i before the release and the     *)
(* request_stop for worker i; 2*NumThreads + 1 while the jthreads are joined; *)
(* 2*NumThreads + 2 at the end.                                               *)

unchangedByDtor == <<m_mutex, pc, task, submitted, done, late>>

DestroyBegin ==
    /\ dtor = 0
    /\ \A c \in Clients : pc[c] = "idle"
    /\ m_stopping' = TRUE
    /\ dtor' = 1
    /\ UNCHANGED <<m_tasks, m_semaphore, stop_requested, dropped, unchangedByDtor>>

\* Mutant: workers are asked to stop but not woken.
DestroyReleaseLost(w) ==
    /\ dtor = 2 * w - 1
    /\ dtor' = dtor + 1
    /\ UNCHANGED <<m_semaphore, m_tasks, m_stopping, stop_requested, dropped, unchangedByDtor>>

DestroyRelease(w) ==
    /\ dtor = 2 * w - 1
    /\ m_semaphore' = m_semaphore + 1
    /\ dtor' = dtor + 1
    /\ UNCHANGED <<m_tasks, m_stopping, stop_requested, dropped, unchangedByDtor>>

DestroyRequestStop(w) ==
    /\ dtor = 2 * w
    /\ stop_requested' = [stop_requested EXCEPT ![w] = TRUE]
    /\ dtor' = dtor + 1
    /\ UNCHANGED <<m_tasks, m_semaphore, m_stopping, dropped, unchangedByDtor>>

\* The jthreads of m_workers are joined, then m_tasks is destroyed.
DestroyMembers ==
    /\ dtor = 2 * NumThreads + 1
    /\ \A w \in Workers : pc[w] = "exit"
    /\ dtor' = dtor + 1
    /\ dropped' = Range(m_tasks)
    /\ m_tasks' = <<>>
    /\ UNCHANGED <<m_semaphore, m_stopping, stop_requested, unchangedByDtor>>

--------------------------------------------------------------------------------
EnqueueStep(a) == EnqueueEmplace(a) \/ EnqueueRelease(a)

WorkerStep(w) ==
    \/ WorkerWhile(w) \/ WorkerAcquire(w) \/ WorkerCheck(w) \/ WorkerLock(w)
    \/ WorkerTake(w) \/ WorkerRun(w) \/ EnqueueChild(w) \/ EnqueueStep(w)

DestroyStep == DestroyMembers \/ \E w \in Workers : DestroyRelease(w) \/ DestroyRequestStop(w)

Next ==
    \/ \E c \in Clients, t \in Tasks : EnqueueCall(c, t)
    \/ \E c \in Clients : EnqueueStep(c)
    \/ \E w \in Workers : WorkerStep(w)
    \/ DestroyBegin
    \/ DestroyStep

Spec == Init /\ [][Next]_vars

(* Threads that can run do; tasks end.  Nobody is bound to enqueue, nor to    *)
(* destroy the pool.                                                          *)
Fairness ==
    /\ \A c \in Clients : WF_vars(EnqueueStep(c))
    /\ \A w \in Workers : WF_vars(WorkerStep(w))
    /\ WF_vars(DestroyStep)

FairSpec == Spec /\ Fairness

--------------------------------------------------------------------------------
\* Every variable has a value of its type, and the mutex is held where the code holds it.
TypeOK ==
    /\ m_tasks \in Seq(Tasks)
    /\ m_semaphore \in Nat
    /\ m_stopping \in BOOLEAN
    /\ m_mutex \in Agents \cup {None}
    /\ stop_requested \in [Workers -> BOOLEAN]
    /\ pc \in [Agents -> {"idle", "emplace", "release", "while", "acquire", "check", "lock", "take",
                          "run", "exit"}]
    /\ \A a \in Agents : pc[a] \in {"emplace", "take"} <=> m_mutex = a
    /\ task \in [Agents -> Tasks \cup {None}]
    /\ dtor \in 0 .. 2 * NumThreads + 2
    /\ submitted \subseteq Tasks /\ done \subseteq Tasks /\ dropped \subseteq Tasks
    /\ late \in [Workers -> Nat]

At(where) == Cardinality({a \in Agents : pc[a] \in where})

(* A permit for every task: until the destructor begins, the permits in the   *)
(* semaphore, those in the hands of workers that have not taken their task    *)
(* yet, and those that enqueue is about to release are as many as the tasks   *)
(* in the queue.  So no worker wakes in vain and no task is left unannounced. *)
PermitPerTask ==
    ~m_stopping => m_semaphore + At({"check", "lock", "take"}) + At({"release"}) = Len(m_tasks)

(* No task runs twice: a task is in one place only, the queue, the hands of   *)
(* one thread, the set of those that ran or that of those dropped.            *)
RunOnce ==
    /\ TypeOK
    /\ IsInjective(m_tasks)
    /\ Range(m_tasks) \cap (done \cup dropped) = {}
    /\ done \cap dropped = {}
    /\ \A w \in Workers : task[w] # None =>
          /\ task[w] \notin Range(m_tasks) \cup done \cup dropped
          /\ \A a \in Agents \ {w} : task[a] # task[w]

(* Once m_stopping is set a worker takes at most one more task: destruction   *)
(* does not wait for the queue to be worked off.                              *)
PromptStop == \A w \in Workers : late[w] <= 1

(* ~ThreadPool returns: every worker is woken, leaves its loop and is joined, *)
(* whatever it was doing when the destructor began.                           *)
DestructorReturns == m_stopping ~> dtor = 2 * NumThreads + 2

(* Every future becomes ready: a task that was enqueued runs, or is dropped   *)
(* with a broken promise when the pool is destroyed.                          *)
FuturesResolved == \A t \in Tasks : t \in submitted ~> t \in done \cup dropped
================================================================================
