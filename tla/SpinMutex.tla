------------------------------- MODULE SpinMutex -------------------------------
(******************************************************************************)
(* class Mutex (src/include/fiah/thread/SpinMutex.hpp): a spin lock on one    *)
(* std::atomic_flag.  Every access of the flag is a step; the pauses, the     *)
(* yield and the count of 64 tries change nothing that is shared.  A relaxed  *)
(* test that reads an older value is the same test taken earlier.             *)
(*                                                                            *)
(* Memory orders: synced is the set of threads before whose next access all   *)
(* the critical sections ended so far happen.                                 *)
(******************************************************************************)
CONSTANT Lockers  \* the threads that use the mutex

VARIABLES
    flag,    \* the atomic_flag
    m,       \* where each thread is: "out", in the loop of lock(), or "in"
    synced

mutexVars == <<flag, m, synced>>

MutexInit ==
    /\ flag = FALSE
    /\ m = [t \in Lockers |-> "out"]
    /\ synced = Lockers

\* Mutant: test_and_set is relaxed.
test_and_setRelaxed(t, old) ==
    /\ old = flag
    /\ flag' = TRUE
    /\ UNCHANGED synced

\* flag.test_and_set(acquire): the old value, and what the last clear released if it was clear.
test_and_set(t, old) ==
    /\ old = flag
    /\ flag' = TRUE
    /\ synced' = IF old THEN synced ELSE synced \cup {t}

\* Mutant: try_lock answers like std::mutex does, while its callers take FALSE for success.
try_lockNegated(t, ret) == test_and_set(t, ~ret)

\* try_lock returns the old value of the flag: FALSE if the lock was taken.
try_lock(t, ret) == test_and_set(t, ret)

At(t, from, to) == m[t] = from /\ m' = [m EXCEPT ![t] = to]

\* lock(): one try, then tests and tries in turn until a try succeeds.
LockFast(t) ==
    \E old \in BOOLEAN : test_and_set(t, old) /\ At(t, "out", IF old THEN "spin" ELSE "in")

LockTest(t) ==
    /\ ~flag
    /\ At(t, "spin", "try")
    /\ UNCHANGED <<flag, synced>>

LockTry(t) ==
    \E old \in BOOLEAN : test_and_set(t, old) /\ At(t, "try", IF old THEN "spin" ELSE "in")

\* A call of try_lock whose caller goes on as owner when the answer is FALSE.
TryLock(t) ==
    \E ret \in BOOLEAN : try_lock(t, ret) /\ At(t, "out", IF ret THEN "out" ELSE "in")

Unlock(t) ==
    /\ At(t, "in", "out")
    /\ flag' = FALSE
    /\ synced' = {t}

MutexNext ==
    \E t \in Lockers : LockFast(t) \/ LockTest(t) \/ LockTry(t) \/ TryLock(t) \/ Unlock(t)

MutexSpec == MutexInit /\ [][MutexNext]_mutexVars

MutexTypeOK ==
    /\ flag \in BOOLEAN
    /\ m \in [Lockers -> {"out", "spin", "try", "in"}]
    /\ synced \subseteq Lockers

(* Mutual exclusion: the flag is set while a thread is between lock (or a     *)
(* try_lock that returned FALSE) and unlock, there is one such thread at      *)
(* most, and the acquire of lines 13, 24 and 48 has ordered every earlier     *)
(* critical section before its own.                                           *)
MutualExclusion ==
    /\ MutexTypeOK
    /\ \A t \in Lockers : m[t] = "in" => flag /\ t \in synced
    /\ \A t, u \in Lockers : m[t] = "in" /\ m[u] = "in" => t = u
================================================================================
