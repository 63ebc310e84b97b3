---------------------------- MODULE ThreadPoolProofs ---------------------------
(******************************************************************************)
(* Safety of ThreadPool for any number of workers, clients and tasks: every   *)
(* task has a permit, no task runs twice, and a pool that is being destroyed  *)
(* runs at most one more task per worker.                                     *)
(******************************************************************************)
EXTENDS ThreadPool, FiniteSetTheorems, TLAPS

USE NumThreadsAssumption, ChildAssumption, ClientsAssumption, SMTT(40)

\* The task that an agent in enqueue is about to emplace.
Pending(a) == IF a \in Workers THEN Child[task[a]] ELSE task[a]

\* Who is where in the code, and with a task in hand.
Roles ==
    /\ \A c \in Clients :
          /\ pc[c] \in {"idle", "emplace", "release"}
          /\ task[c] # None <=> pc[c] = "emplace"
    /\ \A w \in Workers :
          /\ pc[w] # "idle"
          /\ task[w] # None <=> pc[w] \in {"run", "emplace", "release"}
          /\ pc[w] = "emplace" => task[w] \in DOMAIN Child

\* The tasks that are in the queue, that ran or that were dropped.
Placed == Range(m_tasks) \cup done \cup dropped

\* A submitted task is in one place only.
InOnePlace ==
    /\ IsInjective(m_tasks)
    /\ Placed \subseteq submitted
    /\ Range(m_tasks) \cap (done \cup dropped) = {}
    /\ done \cap dropped = {}
    /\ \A w \in Workers : task[w] # None =>
          /\ task[w] \in submitted \ Placed
          /\ \A v \in Workers \ {w} : task[v] # task[w]
    /\ \A a \in Agents : pc[a] = "emplace" =>
          /\ Pending(a) \in submitted \ Placed
          /\ \A w \in Workers : task[w] # Pending(a)

\* Before the destructor begins no worker is told to stop, and every task has a permit.
Permits ==
    /\ m_stopping <=> dtor # 0
    /\ \A w \in Workers : stop_requested[w] => m_stopping
    /\ PermitPerTask

\* A worker that took a task after m_stopping was set is on its way out.
LastTask ==
    \A w \in Workers :
        /\ late[w] <= 1
        /\ late[w] = 1 => m_stopping /\ pc[w] \in {"run", "emplace", "release", "while", "exit"}

IndInv == TypeOK /\ Roles /\ InOnePlace /\ Permits /\ LastTask

--------------------------------------------------------------------------------
(* Types and roles. *)

PCs == {"idle", "emplace", "release", "while", "acquire", "check", "lock", "take", "run", "exit"}

\* A step of agent a to a place where the mutex is not held, from one where it is not held.
LEMMA Passes ==
    ASSUME TypeOK, NEW a \in Agents, NEW from \in PCs, NEW to \in PCs, Goto(a, from, to),
           from \notin {"emplace", "take"}, to \notin {"emplace", "take"}, UNCHANGED m_mutex
    PROVE  /\ pc' \in [Agents -> PCs]
           /\ m_mutex' \in Agents \cup {None}
           /\ \A b \in Agents : pc'[b] \in {"emplace", "take"} <=> m_mutex' = b
BY Zenon DEF TypeOK, Goto, PCs

\* The lock of the mutex.
LEMMA Locks ==
    ASSUME TypeOK, NEW a \in Agents, NEW from \in PCs, NEW to \in {"emplace", "take"},
           Goto(a, from, to), Acquire(a)
    PROVE  /\ pc' \in [Agents -> PCs]
           /\ m_mutex' \in Agents \cup {None}
           /\ \A b \in Agents : pc'[b] \in {"emplace", "take"} <=> m_mutex' = b
BY Zenon DEF TypeOK, Goto, PCs, Acquire

\* Its unlock.
LEMMA Unlocks ==
    ASSUME TypeOK, NEW a \in Agents, NEW from \in {"emplace", "take"}, NEW to \in PCs,
           to \notin {"emplace", "take"}, Goto(a, from, to), Release
    PROVE  /\ pc' \in [Agents -> PCs]
           /\ m_mutex' \in Agents \cup {None}
           /\ \A b \in Agents : pc'[b] \in {"emplace", "take"} <=> m_mutex' = b
BY Zenon DEF TypeOK, Goto, PCs, Release

\* Every step keeps the types, and the agents in their roles.
LEMMA TypeStep ==
    ASSUME IndInv, [Next]_vars
    PROVE  TypeOK' /\ Roles'
<1> USE DEF PCs
<1> TypeOK /\ Roles /\ InOnePlace
  BY Zenon DEF IndInv
<1>1. ASSUME NEW c \in Clients, NEW t \in Tasks, EnqueueCall(c, t)
      PROVE  TypeOK' /\ Roles'
  <2>1. c \in Agents /\ c \notin Workers /\ Goto(c, "idle", "emplace") /\ Acquire(c)
    BY <1>1, Zenon DEF EnqueueCall, Agents
  <2>2. TypeOK'
    BY <1>1, <2>1, Locks, Zenon DEF EnqueueCall, TypeOK
  <2> QED BY <1>1, <2>1, <2>2, Zenon DEF EnqueueCall, Goto, TypeOK, Roles, Agents
<1>2. ASSUME NEW w \in Workers, EnqueueChild(w)
      PROVE  TypeOK' /\ Roles'
  <2>1. w \in Agents /\ w \notin Clients /\ Goto(w, "run", "emplace") /\ Acquire(w)
    BY <1>2, Zenon DEF EnqueueChild, Agents
  <2>2. TypeOK'
    BY <1>2, <2>1, Locks DEF EnqueueChild, TypeOK
  <2> QED BY <1>2, <2>1, <2>2, Zenon DEF EnqueueChild, Goto, TypeOK, Roles, Agents
<1>3. ASSUME NEW a \in Agents, EnqueueEmplace(a)
      PROVE  TypeOK' /\ Roles'
  <2>1. Goto(a, "emplace", "release") /\ Release /\ Pending(a) \in Tasks
    BY <1>3, Zenon DEF EnqueueEmplace, InOnePlace, TypeOK, Goto
  <2>2. m_tasks' = Append(m_tasks, Pending(a)) /\ m_tasks' \in Seq(Tasks)
    BY <1>3, <2>1 DEF EnqueueEmplace, Pending, TypeOK
  <2>3. TypeOK'
    BY <1>3, <2>1, <2>2, Unlocks, Zenon DEF EnqueueEmplace, TypeOK
  <2> QED BY <1>3, <2>1, <2>3 DEF EnqueueEmplace, Goto, TypeOK, Roles, Agents
<1>4. ASSUME NEW a \in Agents, EnqueueRelease(a)
      PROVE  TypeOK' /\ Roles'
  <2>1. PICK to \in {"run", "idle"} : Goto(a, "release", to) /\ (to = "run" <=> a \in Workers)
    BY <1>4, Zenon DEF EnqueueRelease
  <2>2. TypeOK'
    BY <1>4, <2>1, Passes DEF EnqueueRelease, TypeOK
  <2> QED BY <1>4, <2>1, <2>2 DEF EnqueueRelease, Goto, TypeOK, Roles, Agents
<1>5. ASSUME NEW w \in Workers, WorkerWhile(w) \/ WorkerAcquire(w) \/ WorkerCheck(w)
      PROVE  TypeOK' /\ Roles'
  <2>1. PICK from \in {"while", "acquire", "check"}, to \in {"acquire", "check", "lock", "exit"} :
            Goto(w, from, to)
    BY <1>5, Zenon DEF WorkerWhile, WorkerAcquire, WorkerCheck
  <2>2. UNCHANGED <<m_mutex, task, done, late, m_tasks, unchangedByLoop>> /\ m_semaphore' \in Nat
    BY <1>5 DEF WorkerWhile, WorkerAcquire, WorkerCheck, TypeOK
  <2>3. w \in Agents /\ w \notin Clients
    BY Zenon DEF Agents
  <2>4. TypeOK'
    BY <2>1, <2>2, <2>3, Passes DEF TypeOK, unchangedByLoop
  <2> QED BY <2>1, <2>2, <2>3, <2>4 DEF Goto, TypeOK, Roles, Agents
<1>6. ASSUME NEW w \in Workers, WorkerLock(w)
      PROVE  TypeOK' /\ Roles'
  <2>1. w \in Agents /\ w \notin Clients /\ Goto(w, "lock", "take") /\ Acquire(w)
    BY <1>6, Zenon DEF WorkerLock, Agents
  <2>2. TypeOK'
    BY <1>6, <2>1, Locks, Zenon DEF WorkerLock, TypeOK, unchangedByLoop
  <2> QED BY <1>6, <2>1, <2>2, Zenon DEF WorkerLock, Goto, TypeOK, Roles, Agents
<1>7. ASSUME NEW w \in Workers, WorkerTake(w)
      PROVE  TypeOK' /\ Roles'
  <2>1. w \in Agents /\ w \notin Clients /\ Release
        /\ UNCHANGED <<m_semaphore, done, unchangedByLoop>>
    BY <1>7, Zenon DEF WorkerTake, Agents
  <2>2. CASE m_tasks = <<>>
    <3>1. Goto(w, "take", "while") /\ UNCHANGED <<m_tasks, task, late>>
      BY <1>7, <2>2, Zenon DEF WorkerTake
    <3>2. TypeOK'
      BY <2>1, <3>1, Unlocks, Zenon DEF TypeOK, unchangedByLoop
    <3> QED BY <2>1, <3>1, <3>2, Zenon DEF Goto, TypeOK, Roles, Agents
  <2>3. CASE m_tasks # <<>>
    <3>1. /\ Goto(w, "take", "run")
          /\ task' = [task EXCEPT ![w] = Head(m_tasks)]
          /\ m_tasks' = Tail(m_tasks)
          /\ late' = [late EXCEPT ![w] = IF m_stopping THEN @ + 1 ELSE @]
      BY <1>7, <2>3, Zenon DEF WorkerTake
    <3>2. Head(m_tasks) \in Tasks /\ m_tasks' \in Seq(Tasks)
      BY <2>3, <3>1 DEF TypeOK
    <3>3. task' \in [Agents -> Tasks \cup {None}]
      BY <2>1, <3>1, <3>2, Zenon DEF TypeOK
    <3>4. late' \in [Workers -> Nat]
      <4>1. late \in [Workers -> Nat] /\ (IF m_stopping THEN late[w] + 1 ELSE late[w]) \in Nat
        BY DEF TypeOK
      <4> QED BY <3>1, <4>1, Zenon
    <3>5. TypeOK'
      BY <2>1, <3>1, <3>2, <3>3, <3>4, Unlocks, Zenon DEF TypeOK, unchangedByLoop
    <3> QED BY <2>1, <3>1, <3>2, <3>5, ZenonT(40) DEF Goto, TypeOK, Roles, Agents
  <2> QED BY <2>2, <2>3, Zenon
<1>8. ASSUME NEW w \in Workers, WorkerRun(w)
      PROVE  TypeOK' /\ Roles'
  <2>1. w \in Agents /\ w \notin Clients /\ Goto(w, "run", "while")
    BY <1>8, Zenon DEF WorkerRun, Agents
  <2>2. task[w] \in Tasks
    BY <2>1, Zenon DEF Goto, Roles, TypeOK
  <2>3. TypeOK'
    BY <1>8, <2>1, <2>2, Passes, Zenon DEF WorkerRun, TypeOK, unchangedByLoop
  <2> QED BY <1>8, <2>1, <2>3, Zenon DEF WorkerRun, Goto, TypeOK, Roles, Agents
<1>9. CASE DestroyBegin \/ \E w \in Workers : DestroyRelease(w) \/ DestroyRequestStop(w)
  <2>1. UNCHANGED <<m_tasks, dropped, unchangedByDtor>> /\ m_semaphore' \in Nat
    BY <1>9 DEF DestroyBegin, DestroyRelease, DestroyRequestStop, TypeOK
  <2>2. dtor' \in 0 .. 2 * NumThreads + 2
    BY <1>9 DEF DestroyBegin, DestroyRelease, DestroyRequestStop, TypeOK, Workers
  <2>3. m_stopping' \in BOOLEAN
    BY <1>9, Zenon DEF DestroyBegin, DestroyRelease, DestroyRequestStop, TypeOK
  <2>4. stop_requested' \in [Workers -> BOOLEAN]
    <3>1. stop_requested \in [Workers -> BOOLEAN]
      BY Zenon DEF TypeOK
    <3> QED BY <1>9, <3>1, Zenon DEF DestroyBegin, DestroyRelease, DestroyRequestStop
  <2> QED BY <2>1, <2>2, <2>3, <2>4, Zenon DEF TypeOK, Roles, unchangedByDtor
<1>10. CASE DestroyMembers
  <2>1. UNCHANGED <<m_semaphore, m_stopping, stop_requested, unchangedByDtor>>
        /\ dtor' \in 0 .. 2 * NumThreads + 2
    BY <1>10 DEF DestroyMembers, TypeOK
  <2>2. dropped' \subseteq Tasks /\ m_tasks' \in Seq(Tasks)
    BY <1>10 DEF DestroyMembers, TypeOK, Range
  <2> QED BY <2>1, <2>2, Zenon DEF TypeOK, Roles, unchangedByDtor
<1>11. CASE UNCHANGED vars
  BY <1>11, Zenon DEF vars, TypeOK, Roles
<1> QED BY <1>1, <1>2, <1>3, <1>4, <1>5, <1>6, <1>7, <1>8, <1>9, <1>10, <1>11, Zenon
        DEF Next, EnqueueStep, WorkerStep, DestroyStep, Agents

--------------------------------------------------------------------------------
(* Tasks. *)

\* A task that joins the queue.
LEMMA Joins ==
    ASSUME NEW s \in Seq(Tasks), NEW x \in Tasks
    PROVE  /\ Range(Append(s, x)) = Range(s) \cup {x}
           /\ IsInjective(s) /\ x \notin Range(s) => IsInjective(Append(s, x))
<1> DEFINE r == Append(s, x)
<1>1. /\ DOMAIN s = 1 .. Len(s) /\ DOMAIN r = 1 .. Len(s) + 1 /\ Len(s) \in Nat
      /\ \A i \in 1 .. Len(s) : r[i] = s[i]
      /\ r[Len(s) + 1] = x
  OBVIOUS
<1> HIDE DEF r
<1>2. \A i \in DOMAIN r : i \in DOMAIN s \/ i = Len(s) + 1
  BY <1>1
<1>3. Len(s) + 1 \in DOMAIN r /\ Len(s) + 1 \notin DOMAIN s /\ DOMAIN s \subseteq DOMAIN r
  BY <1>1
<1>4. \A i \in DOMAIN s : r[i] = s[i]
  BY <1>1, Zenon
<1>5. Range(r) = Range(s) \cup {x}
  BY <1>1, <1>2, <1>3, <1>4, Zenon DEF Range
<1>6. IsInjective(s) /\ x \notin Range(s) => IsInjective(r)
  BY <1>1, <1>2, <1>3, <1>4 DEF Range, IsInjective
<1> QED BY <1>5, <1>6, Zenon DEF r

\* The task at the front leaves the queue.
LEMMA Leaves ==
    ASSUME NEW s \in Seq(Tasks), s # <<>>, IsInjective(s)
    PROVE  /\ Range(s) = Range(Tail(s)) \cup {Head(s)}
           /\ Head(s) \notin Range(Tail(s))
           /\ IsInjective(Tail(s))
<1> DEFINE r == Tail(s)
<1>1. /\ DOMAIN s = 1 .. Len(s) /\ DOMAIN r = 1 .. Len(s) - 1 /\ Len(s) \in Nat \ {0}
      /\ \A i \in DOMAIN r : r[i] = s[i + 1]
      /\ Head(s) = s[1]
  OBVIOUS
<1> HIDE DEF r
<1>2. \A i \in DOMAIN r : i + 1 \in DOMAIN s /\ i + 1 # 1
  BY <1>1
<1>3. \A i \in DOMAIN s : i = 1 \/ (i - 1 \in DOMAIN r /\ r[i - 1] = s[i])
  BY <1>1
<1>4. 1 \in DOMAIN s
  BY <1>1
<1>5. Range(s) = Range(r) \cup {s[1]}
  <2>1. ASSUME NEW y \in Range(s) PROVE y \in Range(r) \cup {s[1]}
    BY <2>1, <1>3, ZenonT(40) DEF Range
  <2>2. ASSUME NEW y \in Range(r) PROVE y \in Range(s)
    BY <2>2, <1>1, <1>2 DEF Range
  <2>3. s[1] \in Range(s)
    BY <1>4, Zenon DEF Range
  <2> QED BY <2>1, <2>2, <2>3, Zenon
<1>6. s[1] \notin Range(r)
  BY <1>1, <1>2, <1>4 DEF Range, IsInjective
<1>7. IsInjective(r)
  BY <1>1, <1>2 DEF IsInjective
<1> QED BY <1>1, <1>5, <1>6, <1>7, Zenon DEF r

\* Every step leaves each task in one place.
LEMMA PlaceStep ==
    ASSUME IndInv, [Next]_vars
    PROVE  InOnePlace'
<1> TypeOK /\ Roles /\ InOnePlace
  BY Zenon DEF IndInv
<1>0. \A a, b \in Agents : pc[a] = "emplace" /\ pc[b] = "emplace" => a = b
  BY Zenon DEF TypeOK
<1>1. ASSUME NEW c \in Clients, NEW t \in Tasks, EnqueueCall(c, t)
      PROVE  InOnePlace'
  <2>1. c \in Agents /\ c \notin Workers /\ m_mutex = None
    BY <1>1, Zenon DEF Agents, EnqueueCall, Acquire
  <2>2. /\ UNCHANGED <<m_tasks, done, dropped>> /\ submitted' = submitted \cup {t}
        /\ t \notin submitted /\ Placed' = Placed
        /\ \A a \in Agents \ {c} : task'[a] = task[a] /\ pc'[a] = pc[a] /\ pc[a] # "emplace"
        /\ task'[c] = t
    BY <1>1, <2>1 DEF EnqueueCall, Goto, Placed, TypeOK
  <2>3. \A a \in Agents : pc'[a] = "emplace" => a = c /\ Pending(a)' = t
    BY <2>1, <2>2, Zenon DEF Pending
  <2>4. \A w \in Workers : w \in Agents \ {c}
    BY <2>1, Zenon DEF Agents
  <2> QED BY <2>2, <2>3, <2>4, ZenonT(40) DEF InOnePlace
<1>2. ASSUME NEW w \in Workers, EnqueueChild(w)
      PROVE  InOnePlace'
  <2>1. w \in Agents /\ m_mutex = None
    BY <1>2, Zenon DEF Agents, EnqueueChild, Acquire
  <2>2. /\ UNCHANGED <<m_tasks, done, dropped, task>> /\ Placed' = Placed
        /\ submitted' = submitted \cup {Child[task[w]]} /\ Child[task[w]] \notin submitted
        /\ \A a \in Agents \ {w} : pc'[a] = pc[a] /\ pc[a] # "emplace"
    BY <1>2, <2>1, Zenon DEF EnqueueChild, Goto, Placed, TypeOK
  <2>3. \A a \in Agents : pc'[a] = "emplace" => a = w /\ Pending(a)' = Child[task[w]]
    BY <2>2, Zenon DEF Pending
  <2>4. Child[task[w]] \in Tasks \ {None}
    BY <1>2, Zenon DEF EnqueueChild
  <2>5. \A v \in Workers : task[v] # Child[task[w]]
    BY <2>2, <2>4, Zenon DEF InOnePlace
  <2> QED BY <2>2, <2>3, <2>5 DEF InOnePlace
<1>3. ASSUME NEW a \in Agents, EnqueueEmplace(a)
      PROVE  InOnePlace'
  <2>1. PICK x \in Tasks : Pending(a) = x /\ pc[a] = "emplace"
    BY <1>3, Zenon DEF EnqueueEmplace, Goto, InOnePlace, TypeOK
  <2>2. /\ m_tasks' = Append(m_tasks, x) /\ UNCHANGED <<done, dropped, submitted>>
        /\ \A b \in Agents : pc'[b] # "emplace"
        /\ \A w \in Workers : task'[w] = task[w]
    BY <1>0, <1>3, <2>1, Zenon DEF EnqueueEmplace, Goto, Pending, TypeOK, Agents
  <2>3. Range(m_tasks') = Range(m_tasks) \cup {x} /\ IsInjective(m_tasks')
    BY <2>1, <2>2, Joins, Zenon DEF TypeOK, InOnePlace, Placed
  <2>4. x \in submitted \ Placed /\ \A w \in Workers : task[w] # x
    BY <2>1, Zenon DEF InOnePlace
  <2> QED BY <2>2, <2>3, <2>4 DEF InOnePlace, Placed
<1>4. ASSUME NEW w \in Workers, WorkerTake(w)
      PROVE  InOnePlace'
  <2>1. UNCHANGED <<done, dropped, submitted>> /\ pc[w] = "take" /\ task[w] = None
    BY <1>4, Zenon DEF WorkerTake, unchangedByLoop, Goto, Roles
  <2>2. \A a \in Agents : pc[a] # "emplace" /\ pc'[a] # "emplace"
    BY <1>4, <2>1 DEF WorkerTake, Goto, TypeOK, Agents
  <2>3. CASE m_tasks = <<>>
    BY <1>4, <2>1, <2>2, <2>3, Zenon DEF WorkerTake, InOnePlace, Placed
  <2>4. CASE m_tasks # <<>>
    <3>1. PICK x \in Tasks : Head(m_tasks) = x
      BY <2>4 DEF TypeOK
    <3>2. m_tasks' = Tail(m_tasks) /\ task' = [task EXCEPT ![w] = x]
      BY <1>4, <2>4, <3>1, Zenon DEF WorkerTake
    <3>3. /\ Range(m_tasks) = Range(m_tasks') \cup {x} /\ x \notin Range(m_tasks')
          /\ IsInjective(m_tasks')
      BY <2>4, <3>1, <3>2, Leaves, Zenon DEF InOnePlace, TypeOK
    <3>4. \A v \in Workers : task'[v] = IF v = w THEN x ELSE task[v]
      BY <3>2, Zenon DEF TypeOK, Agents
    <3> QED BY <2>1, <2>2, <3>3, <3>4 DEF InOnePlace, Placed
  <2> QED BY <2>3, <2>4, Zenon
<1>5. ASSUME NEW w \in Workers, WorkerRun(w)
      PROVE  InOnePlace'
  <2>1. PICK x \in Tasks : task[w] = x
    BY <1>5, Zenon DEF WorkerRun, Goto, Roles, TypeOK, Agents
  <2>2. /\ UNCHANGED <<m_tasks, dropped, submitted>> /\ done' = done \cup {x}
        /\ \A v \in Workers : task'[v] = IF v = w THEN None ELSE task[v]
        /\ \A c \in Clients : task'[c] = task[c]
        /\ w \in Agents /\ \A a \in Agents : pc'[a] = IF a = w THEN "while" ELSE pc[a]
    BY <1>5, <2>1, Zenon DEF WorkerRun, unchangedByLoop, TypeOK, Agents, Goto
  <2>3. \A a \in Agents : pc'[a] = "emplace" => pc[a] = "emplace" /\ Pending(a)' = Pending(a)
    BY <2>2, Zenon DEF Pending, Agents
  <2>4. x # None /\ Placed' = Placed \cup {x}
    BY <2>2, Zenon DEF Placed
  <2>5. x \in submitted \ Placed /\ \A v \in Workers \ {w} : task[v] # x
    BY <2>1, <2>4, Zenon DEF InOnePlace
  <2>6. /\ IsInjective(m_tasks') /\ Placed' \subseteq submitted'
        /\ Range(m_tasks') \cap (done \cup dropped)' = {} /\ done' \cap dropped' = {}
    BY <2>2, <2>4, <2>5 DEF InOnePlace, Placed
  <2>7. \A v \in Workers : task'[v] # None =>
           task'[v] \in submitted' \ Placed' /\ \A u \in Workers \ {v} : task'[u] # task'[v]
    BY <2>2, <2>4, <2>5, Zenon DEF InOnePlace
  <2>8. \A a \in Agents : pc'[a] = "emplace" =>
           Pending(a)' \in submitted' \ Placed' /\ \A v \in Workers : task'[v] # Pending(a)'
    <3>1. \A a \in Agents : pc[a] = "emplace" =>
             /\ Pending(a) \in submitted \ Placed /\ Pending(a) \notin {None, x}
             /\ \A v \in Workers : task[v] # Pending(a)
      BY <2>1 DEF InOnePlace, TypeOK
    <3> QED BY <2>2, <2>3, <2>4, <3>1
  <2> QED BY <2>6, <2>7, <2>8, Zenon DEF InOnePlace
<1>6. CASE DestroyMembers
  <2>1. /\ UNCHANGED <<submitted, done, task, pc>>
        /\ dropped' = Range(m_tasks) /\ m_tasks' = <<>>
    BY <1>6, Zenon DEF DestroyMembers, unchangedByDtor
  <2>2. Range(m_tasks') = {} /\ IsInjective(m_tasks')
    BY <2>1 DEF Range, IsInjective
  <2>3. Placed' \subseteq Placed /\ \A a \in Agents : Pending(a)' = Pending(a)
    BY <2>1, <2>2, Zenon DEF Placed, Pending
  <2> QED BY <2>1, <2>2, <2>3, Zenon DEF InOnePlace
<1>7. ASSUME UNCHANGED <<m_tasks, submitted, done, dropped, task>>,
             \A a \in Agents : pc'[a] = "emplace" => pc[a] = "emplace"
      PROVE  InOnePlace'
  BY <1>7, Zenon DEF InOnePlace, Placed, Pending
<1>8. ASSUME NEW a \in Agents, EnqueueRelease(a)
      PROVE  InOnePlace'
  BY <1>7, <1>8, Zenon DEF EnqueueRelease, Goto, TypeOK
<1>9. ASSUME NEW w \in Workers,
             WorkerWhile(w) \/ WorkerAcquire(w) \/ WorkerCheck(w) \/ WorkerLock(w)
      PROVE  InOnePlace'
  BY <1>7, <1>9 DEF WorkerWhile, WorkerAcquire, WorkerCheck, WorkerLock, unchangedByLoop, Goto, TypeOK
<1>10. CASE DestroyBegin \/ \E w \in Workers : DestroyRelease(w) \/ DestroyRequestStop(w)
  BY <1>7, <1>10, Zenon DEF DestroyBegin, DestroyRelease, DestroyRequestStop, unchangedByDtor
<1>11. CASE UNCHANGED vars
  BY <1>7, <1>11, Zenon DEF vars
<1> QED BY <1>1, <1>2, <1>3, <1>4, <1>5, <1>6, <1>8, <1>9, <1>10, <1>11, Zenon
        DEF Next, EnqueueStep, WorkerStep, DestroyStep, Agents

--------------------------------------------------------------------------------
(* Permits. *)

\* The agents can be counted.
LEMMA AgentsFinite == IsFiniteSet(Agents)
<1>1. IsFiniteSet(Workers)
  BY FS_Interval DEF Workers
<1> QED BY <1>1, FS_Union, ClientsAssumption, Zenon DEF Agents

\* What a step of one agent does to the number of agents in some places.
LEMMA AtMoves ==
    ASSUME TypeOK, NEW a \in Agents, NEW from, NEW to, NEW where, Goto(a, from, to)
    PROVE  \E rest \in Nat :
              /\ Cardinality({b \in Agents : pc[b] \in where}) = rest + (IF from \in where THEN 1 ELSE 0)
              /\ Cardinality({b \in Agents : pc'[b] \in where}) = rest + (IF to \in where THEN 1 ELSE 0)
<1> DEFINE S == {b \in Agents : pc[b] \in where}
           T == {b \in Agents : pc'[b] \in where}
           R == S \ {a}
<1>1. IsFiniteSet(S) /\ IsFiniteSet(R) /\ IsFiniteSet(T)
  BY AgentsFinite, FS_Subset, Zenon
<1>2. (a \in S <=> from \in where) /\ (a \in T <=> to \in where) /\ T \ {a} = R
  BY Zenon DEF Goto, TypeOK
<1> HIDE DEF S, T, R
<1>3. Cardinality(S \ {a}) = IF a \in S THEN Cardinality(S) - 1 ELSE Cardinality(S)
  BY <1>1, FS_RemoveElement, Zenon
<1>4. Cardinality(T \ {a}) = IF a \in T THEN Cardinality(T) - 1 ELSE Cardinality(T)
  BY <1>1, FS_RemoveElement, Zenon
<1>5. Cardinality(S \ {a}) = Cardinality(R) /\ Cardinality(T \ {a}) = Cardinality(R)
  BY <1>2, Zenon DEF R
<1>6. Cardinality(S) \in Nat /\ Cardinality(T) \in Nat /\ Cardinality(R) \in Nat
  BY <1>1, FS_CardinalityType, Zenon
<1>7. /\ Cardinality(S) = Cardinality(R) + (IF from \in where THEN 1 ELSE 0)
      /\ Cardinality(T) = Cardinality(R) + (IF to \in where THEN 1 ELSE 0)
  BY <1>2, <1>3, <1>4, <1>5, <1>6
<1> QED BY <1>6, <1>7, Zenon DEF S, T

\* The permits in the hands of workers, and those about to be released.
Holding == At({"check", "lock", "take"})
Announcing == At({"release"})

\* The two counts before and after a step of one agent.
LEMMA CountsMove ==
    ASSUME TypeOK, NEW a \in Agents, NEW from, NEW to, Goto(a, from, to)
    PROVE  \E h \in Nat, n \in Nat :
              /\ Holding = h + (IF from \in {"check", "lock", "take"} THEN 1 ELSE 0)
              /\ Holding' = h + (IF to \in {"check", "lock", "take"} THEN 1 ELSE 0)
              /\ Announcing = n + (IF from \in {"release"} THEN 1 ELSE 0)
              /\ Announcing' = n + (IF to \in {"release"} THEN 1 ELSE 0)
<1>0. \A where : \E rest \in Nat :
          /\ Cardinality({b \in Agents : pc[b] \in where}) = rest + (IF from \in where THEN 1 ELSE 0)
          /\ Cardinality({b \in Agents : pc'[b] \in where}) = rest + (IF to \in where THEN 1 ELSE 0)
  BY AtMoves
<1>1. \E h \in Nat :
          /\ Holding = h + (IF from \in {"check", "lock", "take"} THEN 1 ELSE 0)
          /\ Holding' = h + (IF to \in {"check", "lock", "take"} THEN 1 ELSE 0)
  BY <1>0, Zenon DEF Holding, At
<1>2. \E n \in Nat :
          /\ Announcing = n + (IF from \in {"release"} THEN 1 ELSE 0)
          /\ Announcing' = n + (IF to \in {"release"} THEN 1 ELSE 0)
  BY <1>0, Zenon DEF Announcing, At
<1> QED BY <1>1, <1>2, Zenon

\* Every step keeps a permit for every task.
LEMMA PermitStep ==
    ASSUME IndInv, [Next]_vars
    PROVE  Permits'
<1> TypeOK /\ Roles /\ Permits
  BY Zenon DEF IndInv
<1>0. ~m_stopping => m_semaphore + Holding + Announcing = Len(m_tasks)
  BY Zenon DEF Permits, PermitPerTask, Holding, Announcing
<1>1. ASSUME UNCHANGED <<m_stopping, dtor, stop_requested>>,
             ~m_stopping => m_semaphore' + Holding' + Announcing' = Len(m_tasks')
      PROVE  Permits'
  BY <1>1, Zenon DEF Permits, PermitPerTask, Holding, Announcing
<1>2. ASSUME NEW c \in Clients, NEW t \in Tasks, EnqueueCall(c, t)
      PROVE  Permits'
  <2>1. c \in Agents /\ Goto(c, "idle", "emplace")
    BY <1>2, Zenon DEF EnqueueCall, Agents
  <2> QED BY <1>0, <1>1, <1>2, <2>1, CountsMove DEF EnqueueCall
<1>3. ASSUME NEW w \in Workers, EnqueueChild(w)
      PROVE  Permits'
  <2>1. w \in Agents /\ Goto(w, "run", "emplace")
    BY <1>3, Zenon DEF EnqueueChild, Agents
  <2> QED BY <1>0, <1>1, <1>3, <2>1, CountsMove DEF EnqueueChild
<1>4. ASSUME NEW a \in Agents, EnqueueEmplace(a)
      PROVE  Permits'
  <2>1. Goto(a, "emplace", "release") /\ UNCHANGED <<m_semaphore, m_stopping, dtor, stop_requested>>
    BY <1>4, Zenon DEF EnqueueEmplace
  <2>2. Len(m_tasks') = Len(m_tasks) + 1
    BY <1>4 DEF EnqueueEmplace, TypeOK
  <2>3. PICK h \in Nat, n \in Nat :
            Holding = h /\ Holding' = h /\ Announcing = n /\ Announcing' = n + 1
    BY <2>1, CountsMove
  <2> QED BY <1>0, <1>1, <2>1, <2>2, <2>3 DEF TypeOK
<1>5. ASSUME NEW a \in Agents, EnqueueRelease(a)
      PROVE  Permits'
  <2>1. PICK to \in {"run", "idle"} : Goto(a, "release", to)
    BY <1>5, Zenon DEF EnqueueRelease
  <2>2. m_semaphore' = m_semaphore + 1 /\ UNCHANGED <<m_tasks, m_stopping, dtor, stop_requested>>
    BY <1>5, Zenon DEF EnqueueRelease
  <2>3. PICK h \in Nat, n \in Nat :
            Holding = h /\ Holding' = h /\ Announcing = n + 1 /\ Announcing' = n
    BY <2>1, CountsMove
  <2> QED BY <1>0, <1>1, <2>1, <2>2, <2>3 DEF TypeOK
<1>6. ASSUME NEW w \in Workers, WorkerWhile(w)
      PROVE  Permits'
  <2>1. PICK to \in {"exit", "acquire"} : w \in Agents /\ Goto(w, "while", to)
    BY <1>6, Zenon DEF WorkerWhile, Agents
  <2> QED BY <1>0, <1>1, <1>6, <2>1, CountsMove DEF WorkerWhile, unchangedByLoop
<1>7. ASSUME NEW w \in Workers, WorkerAcquire(w)
      PROVE  Permits'
  <2>1. w \in Agents /\ Goto(w, "acquire", "check")
    BY <1>7, Zenon DEF WorkerAcquire, Agents
  <2>2. /\ m_semaphore \in Nat /\ m_semaphore' = m_semaphore - 1
        /\ UNCHANGED <<m_tasks, m_stopping, dtor, stop_requested>>
    BY <1>7, Zenon DEF WorkerAcquire, unchangedByLoop, TypeOK
  <2>3. PICK h \in Nat, n \in Nat :
            Holding = h /\ Holding' = h + 1 /\ Announcing = n /\ Announcing' = n
    BY <2>1, CountsMove
  <2> QED BY <1>0, <1>1, <2>2, <2>3
<1>8. ASSUME NEW w \in Workers, WorkerCheck(w)
      PROVE  Permits'
  <2>1. w \in Agents /\ (~m_stopping => Goto(w, "check", "lock"))
    BY <1>8, Zenon DEF WorkerCheck, Agents, Permits
  <2> QED BY <1>0, <1>1, <1>8, <2>1, CountsMove DEF WorkerCheck, unchangedByLoop
<1>9. ASSUME NEW w \in Workers, WorkerLock(w)
      PROVE  Permits'
  <2>1. w \in Agents /\ Goto(w, "lock", "take")
    BY <1>9, Zenon DEF WorkerLock, Agents
  <2> QED BY <1>0, <1>1, <1>9, <2>1, CountsMove DEF WorkerLock, unchangedByLoop
<1>10. ASSUME NEW w \in Workers, WorkerTake(w)
       PROVE  Permits'
  <2>1. PICK to \in {"while", "run"} : w \in Agents /\ Goto(w, "take", to)
    BY <1>10, Zenon DEF WorkerTake, Agents
  <2>2. UNCHANGED <<m_semaphore, m_stopping, dtor, stop_requested>>
    BY <1>10, Zenon DEF WorkerTake, unchangedByLoop
  <2>3. IF m_tasks = <<>> THEN Len(m_tasks) = 0 /\ m_tasks' = m_tasks
                          ELSE Len(m_tasks') = Len(m_tasks) - 1
    BY <1>10 DEF WorkerTake, TypeOK
  <2>4. m_semaphore \in Nat /\ Len(m_tasks) \in Nat
    BY DEF TypeOK
  <2>5. PICK h \in Nat, n \in Nat :
            Holding = h + 1 /\ Holding' = h /\ Announcing = n /\ Announcing' = n
    BY <2>1, CountsMove
  <2> QED BY <1>0, <1>1, <2>2, <2>3, <2>4, <2>5
<1>11. ASSUME NEW w \in Workers, WorkerRun(w)
       PROVE  Permits'
  <2>1. w \in Agents /\ Goto(w, "run", "while")
    BY <1>11, Zenon DEF WorkerRun, Agents
  <2> QED BY <1>0, <1>1, <1>11, <2>1, CountsMove DEF WorkerRun, unchangedByLoop
<1>12. CASE DestroyBegin
  BY <1>12 DEF DestroyBegin, Permits, PermitPerTask
<1>13. CASE DestroyStep
  <2>1. m_stopping /\ m_stopping' /\ dtor' # 0
    BY <1>13 DEF DestroyStep, DestroyMembers, DestroyRelease, DestroyRequestStop, Permits, TypeOK, Workers
  <2> QED BY <2>1, Zenon DEF Permits, PermitPerTask
<1>14. CASE UNCHANGED vars
  <2>1. Holding' = Holding /\ Announcing' = Announcing
    BY <1>14, Zenon DEF Holding, Announcing, At, vars
  <2> QED BY <1>0, <1>1, <1>14, <2>1, Zenon DEF vars
<1> QED BY <1>2, <1>3, <1>4, <1>5, <1>6, <1>7, <1>8, <1>9, <1>10, <1>11, <1>12, <1>13, <1>14, Zenon
        DEF Next, EnqueueStep, WorkerStep, Agents

--------------------------------------------------------------------------------
(* The last task of a worker. *)

\* Every step keeps a worker with a late task on its way out.
LEMMA LateStep ==
    ASSUME IndInv, [Next]_vars
    PROVE  LastTask'
<1> TypeOK /\ Permits /\ LastTask
  BY Zenon DEF IndInv
<1> DEFINE WayOut == {"run", "emplace", "release", "while", "exit"}
<1>0. \A w \in Workers : w \in Agents
  BY Zenon DEF Agents
<1>1. ASSUME UNCHANGED late, m_stopping => m_stopping',
             \A w \in Workers : late[w] = 1 /\ pc[w] \in WayOut => pc'[w] \in WayOut
      PROVE  LastTask'
  BY <1>1, Zenon DEF LastTask
<1>2. ASSUME NEW c \in Clients, NEW t \in Tasks, EnqueueCall(c, t)
      PROVE  LastTask'
  BY <1>0, <1>1, <1>2, Zenon DEF EnqueueCall, Goto, TypeOK
<1>3. ASSUME NEW a \in Agents, EnqueueEmplace(a) \/ EnqueueRelease(a)
      PROVE  LastTask'
  BY <1>0, <1>1, <1>3 DEF EnqueueEmplace, EnqueueRelease, Goto, TypeOK
<1>4. ASSUME NEW w \in Workers, EnqueueChild(w) \/ WorkerRun(w)
      PROVE  LastTask'
  BY <1>0, <1>1, <1>4, Zenon DEF EnqueueChild, WorkerRun, Goto, TypeOK, unchangedByLoop
<1>5. ASSUME NEW w \in Workers, WorkerAcquire(w) \/ WorkerCheck(w) \/ WorkerLock(w)
      PROVE  LastTask'
  <2>1. pc[w] \notin WayOut /\ UNCHANGED <<late, m_stopping>>
    BY <1>5, Zenon DEF WorkerAcquire, WorkerCheck, WorkerLock, Goto, unchangedByLoop
  <2>2. \A v \in Workers : v # w => pc'[v] = pc[v]
    BY <1>0, <1>5, Zenon DEF WorkerAcquire, WorkerCheck, WorkerLock, Goto, TypeOK
  <2> QED BY <1>1, <2>1, <2>2, Zenon
<1>6. ASSUME NEW w \in Workers, WorkerWhile(w)
      PROVE  LastTask'
  <2>1. late[w] = 1 => pc'[w] = "exit"
    BY <1>0, <1>6, Zenon DEF WorkerWhile, Goto, TypeOK, LastTask
  <2> QED BY <1>0, <1>1, <1>6, <2>1, Zenon DEF WorkerWhile, Goto, TypeOK, unchangedByLoop
<1>7. ASSUME NEW w \in Workers, WorkerTake(w)
      PROVE  LastTask'
  <2>1. pc[w] = "take" /\ late[w] = 0 /\ UNCHANGED m_stopping
    BY <1>7 DEF WorkerTake, Goto, unchangedByLoop, LastTask, TypeOK
  <2>2. \A v \in Workers : v # w => pc'[v] = pc[v] /\ late'[v] = late[v]
    BY <1>0, <1>7, Zenon DEF WorkerTake, Goto, TypeOK
  <2>3. late'[w] = 0 \/ (late'[w] = 1 /\ m_stopping /\ pc'[w] = "run")
    BY <1>0, <1>7, <2>1 DEF WorkerTake, Goto, TypeOK
  <2> QED BY <2>1, <2>2, <2>3 DEF LastTask
<1>8. CASE DestroyBegin \/ DestroyStep \/ UNCHANGED vars
  BY <1>1, <1>8 DEF DestroyBegin, DestroyStep, DestroyMembers, DestroyRelease, DestroyRequestStop,
                    unchangedByDtor, vars
<1> QED BY <1>2, <1>3, <1>4, <1>5, <1>6, <1>7, <1>8, Zenon DEF Next, EnqueueStep, WorkerStep, Agents

--------------------------------------------------------------------------------
(* Safety. *)

\* A new pool satisfies the invariant.
LEMMA InitInv == Init => IndInv
<1> SUFFICES ASSUME Init PROVE IndInv
  OBVIOUS
<1>0. /\ \A w \in Workers : w \in Agents /\ pc[w] = "while" /\ task[w] = None
      /\ \A c \in Clients : c \in Agents /\ pc[c] = "idle" /\ task[c] = None
  BY Zenon DEF Init, Agents
<1>1. TypeOK /\ Roles /\ LastTask
  <2>1. pc \in [Agents -> PCs] /\ \A a \in Agents : pc[a] \notin {"emplace", "take"} /\ m_mutex # a
    BY Zenon DEF Init, PCs
  <2>2. TypeOK
    <3>1. m_tasks \in Seq(Tasks) /\ m_mutex = None /\ task \in [Agents -> Tasks \cup {None}]
      BY DEF Init
    <3>2. dtor \in 0 .. 2 * NumThreads + 2 /\ late \in [Workers -> Nat] /\ m_semaphore \in Nat
      BY DEF Init
    <3>3. m_stopping \in BOOLEAN /\ stop_requested \in [Workers -> BOOLEAN]
      BY Zenon DEF Init
    <3>4. submitted \subseteq Tasks /\ done \subseteq Tasks /\ dropped \subseteq Tasks
      BY Zenon DEF Init
    <3> QED BY <2>1, <3>1, <3>2, <3>3, <3>4, Zenon DEF TypeOK, PCs
  <2>3. Roles
    BY <1>0, Zenon DEF Roles
  <2>4. LastTask
    BY DEF Init, LastTask
  <2> QED BY <2>2, <2>3, <2>4, Zenon
<1>2. Range(m_tasks) = {} /\ IsInjective(m_tasks)
  BY DEF Init, Range, IsInjective
<1>3. InOnePlace
  BY <1>1, <1>2, Zenon DEF Init, InOnePlace, Placed, Agents
<1>4. \A where : where \cap {"while", "idle"} = {} => At(where) = 0
  <2> SUFFICES ASSUME NEW where, where \cap {"while", "idle"} = {} PROVE At(where) = 0
    OBVIOUS
  <2>1. {a \in Agents : pc[a] \in where} = {}
    BY Zenon DEF Init
  <2> QED BY <2>1, FS_EmptySet, Zenon DEF At
<1>5. At({"check", "lock", "take"}) = 0 /\ At({"release"}) = 0
  BY <1>4, Zenon
<1>6. Permits
  BY <1>5 DEF Init, Permits, PermitPerTask
<1> QED BY <1>1, <1>3, <1>6, Zenon DEF IndInv

\* The inductive invariant holds in every behaviour of the pool.
THEOREM Invariance == Spec => []IndInv
<1>1. IndInv /\ [Next]_vars => IndInv'
  BY TypeStep, PlaceStep, PermitStep, LateStep, Zenon DEF IndInv
<1> QED BY <1>1, InitInv, PTL DEF Spec

(* Until the destructor begins, enqueue releases one permit for every task it *)
(* adds and a worker takes a task for every permit it acquires, whatever the  *)
(* interleaving: no worker finds the queue empty, no task waits unannounced.  *)
THEOREM PermitsMatchTasks == Spec => []PermitPerTask
<1>1. IndInv => PermitPerTask
  BY Zenon DEF IndInv, Permits
<1> QED BY <1>1, Invariance, PTL

\* No task runs twice, is in the hands of two threads, or runs and is dropped as well.
THEOREM TasksRunOnce == Spec => []RunOnce
<1>1. IndInv => RunOnce
  <2> SUFFICES ASSUME TypeOK, Roles, InOnePlace PROVE RunOnce
    BY Zenon DEF IndInv
  <2>1. \A c \in Clients, w \in Workers : task[w] # None => task[c] # task[w]
    BY Zenon DEF Roles, InOnePlace, Pending, Agents
  <2> QED BY <2>1, Zenon DEF RunOnce, InOnePlace, Placed, Agents
<1> QED BY <1>1, Invariance, PTL

\* Once the destructor has set m_stopping, each worker takes at most one more task.
THEOREM StopIsPrompt == Spec => []PromptStop
<1>1. IndInv => PromptStop
  BY Zenon DEF IndInv, LastTask, PromptStop
<1> QED BY <1>1, Invariance, PTL
================================================================================
