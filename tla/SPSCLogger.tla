------------------------------ MODULE SPSCLogger -------------------------------
(******************************************************************************)
(* fiah::SPSCLogger (src/include/fiah/utils/SPSCLogger.hh): a singleton that  *)
(* gives every logging thread an SPSCQueue of its own and drains the queues   *)
(* in a thread of its own, m_consumer_thread, to stdout.                      *)
(*                                                                            *)
(* A queue is the sequence BoundedFIFO promises, with one step per push and   *)
(* per pop: SPSCQueueProofs shows that the code of SPSCQueue keeps that       *)
(* promise.  What is done under m_queues_mutex is one step.  A record is its  *)
(* thread and its number among the thread's calls; its text, time stamp and   *)
(* colour are left out.                                                       *)
(*                                                                            *)
(* The clients obey the life cycle of a function-local static: a call waits   *)
(* for the constructor (get_instance), and the destructor runs when no call   *)
(* is in progress and none follows.                                           *)
(******************************************************************************)
EXTENDS Naturals, Sequences, Functions

CONSTANTS
    Threads,          \* the logging threads
    MaxCalls,         \* the bound on the calls each of them makes
    QUEUE_SIZE,
    OUT_LIST_SIZE     \* the length of the array in which _run buffers records

ASSUME LoggerSizes ==
    /\ MaxCalls \in Nat
    /\ QUEUE_SIZE \in Nat \ {0}
    /\ OUT_LIST_SIZE \in Nat \ {0}

VARIABLES
    life,         \* constructing, running, stopping (stop requested), dead; or aborted
    m_queues,     \* the threads whose queues are registered, in order
    queue,        \* the records in each thread's queue
    pc, calls,    \* each thread's next step, and the number of its calls
    accepted,     \* the numbers of the records that each thread's pushes accepted
    cpc,          \* the next step of _run
    q_snapshot, cursor, out_list,
    output        \* what was written to stdout

clientVars == <<pc, calls, accepted>>
runVars == <<cpc, q_snapshot, cursor, out_list, output>>
vars == <<life, m_queues, queue, clientVars, runVars>>

Init ==
    /\ life = "constructing"
    /\ m_queues = <<>>
    /\ queue = [t \in Threads |-> <<>>]
    /\ pc = [t \in Threads |-> "idle"]
    /\ calls = [t \in Threads |-> 0]
    /\ accepted = [t \in Threads |-> {}]
    /\ cpc = "while"
    /\ q_snapshot = <<>>
    /\ cursor = 1
    /\ out_list = <<>>
    /\ output = <<>>

\* The constructor's body: the reserve, while m_consumer_thread already runs.
Constructed ==
    /\ life = "constructing"
    /\ life' = "running"
    /\ UNCHANGED <<m_queues, queue, clientVars, runVars>>

--------------------------------------------------------------------------------
(* info, warn and error in a logging thread. *)

\* Formatting the record, and reading the thread_local queue pointer.
LogCall(t) ==
    /\ life = "running"
    /\ pc[t] = "idle"
    /\ calls[t] < MaxCalls
    /\ calls' = [calls EXCEPT ![t] = @ + 1]
    /\ pc' = [pc EXCEPT ![t] = IF t \in Range(m_queues) THEN "push" ELSE "register"]
    /\ UNCHANGED <<life, m_queues, queue, accepted, runVars>>

\* _register_thread.
LogRegister(t) ==
    /\ life # "aborted"
    /\ pc[t] = "register"
    /\ m_queues' = Append(m_queues, t)
    /\ pc' = [pc EXCEPT ![t] = "push"]
    /\ UNCHANGED <<life, queue, calls, accepted, runVars>>

\* Mutant: a full queue makes room by discarding its oldest record.
LogPushOverwrite(t) ==
    /\ life # "aborted"
    /\ pc[t] = "push"
    /\ pc' = [pc EXCEPT ![t] = "idle"]
    /\ accepted' = [accepted EXCEPT ![t] = @ \cup {calls[t]}]
    /\ queue' = [queue EXCEPT ![t] =
                    Append(IF Len(@) < QUEUE_SIZE THEN @ ELSE Tail(@), calls[t])]
    /\ UNCHANGED <<life, m_queues, calls, runVars>>

\* The push, whose result _log ignores: a record that finds its queue full is dropped.
LogPush(t) ==
    /\ life # "aborted"
    /\ pc[t] = "push"
    /\ pc' = [pc EXCEPT ![t] = "idle"]
    /\ \/ /\ Len(queue[t]) < QUEUE_SIZE
          /\ queue' = [queue EXCEPT ![t] = Append(@, calls[t])]
          /\ accepted' = [accepted EXCEPT ![t] = @ \cup {calls[t]}]
       \/ Len(queue[t]) = QUEUE_SIZE /\ UNCHANGED <<queue, accepted>>
    /\ UNCHANGED <<life, m_queues, calls, runVars>>

--------------------------------------------------------------------------------
(* _run, in m_consumer_thread. *)

\* Mutants: no drain follows the stop request; the request is not looked at.
RunWhileNoDrain ==
    /\ cpc = "while" /\ life # "aborted"
    /\ cpc' = IF life = "stopping" THEN "exited" ELSE "snapshot"
    /\ cursor' = 1
    /\ UNCHANGED <<life, m_queues, queue, clientVars, q_snapshot, out_list, output>>

RunWhileDeaf ==
    /\ cpc = "while" /\ life # "aborted"
    /\ cpc' = "snapshot"
    /\ cursor' = 1
    /\ UNCHANGED <<life, m_queues, queue, clientVars, q_snapshot, out_list, output>>

\* The test of the stop token, and the start of the last drain.
RunWhile ==
    /\ cpc = "while" /\ life # "aborted"
    /\ cpc' = IF life = "stopping" THEN "lastdrain" ELSE "snapshot"
    /\ cursor' = 1
    /\ UNCHANGED <<life, m_queues, queue, clientVars, q_snapshot, out_list, output>>

\* Mutant: the snapshot is taken only once.
RunSnapshotOnce ==
    /\ cpc = "snapshot" /\ life # "aborted"
    /\ cpc' = "drain"
    /\ q_snapshot' = IF q_snapshot = <<>> THEN m_queues ELSE q_snapshot
    /\ cursor' = 1
    /\ UNCHANGED <<life, m_queues, queue, clientVars, out_list, output>>

RunSnapshot ==
    /\ cpc = "snapshot" /\ life # "aborted"
    /\ cpc' = "drain"
    /\ q_snapshot' = m_queues
    /\ cursor' = 1
    /\ UNCHANGED <<life, m_queues, queue, clientVars, out_list, output>>

(* The constructor's reserve stores m_begin and m_end without the mutex.  A   *)
(* copy that reads one of them before and the other after these stores finds  *)
(* an enormous size, and its allocation or its reads end the process.         *)
RunSnapshotTorn ==
    /\ cpc = "snapshot" /\ life = "constructing"
    /\ life' = "aborted"
    /\ UNCHANGED <<m_queues, queue, clientVars, runVars>>

\* _flush and the reset of list_tracker that follows it.
flush(list) ==
    /\ output' = output \o list
    /\ out_list' = <<>>

Draining == cpc \in {"drain", "lastdrain"} /\ life # "aborted"

\* A pop that returns true.
DrainPop ==
    /\ Draining /\ cursor <= Len(q_snapshot)
    /\ LET t == q_snapshot[cursor] IN
          /\ queue[t] # <<>>
          /\ queue' = [queue EXCEPT ![t] = Tail(@)]
          /\ LET list == Append(out_list, <<t, Head(queue[t])>>) IN
                IF Len(list) >= OUT_LIST_SIZE
                THEN flush(list)
                ELSE out_list' = list /\ UNCHANGED output
    /\ UNCHANGED <<life, m_queues, clientVars, cpc, q_snapshot, cursor>>

\* A pop that returns false: the next queue of the snapshot.
DrainNext ==
    /\ Draining /\ cursor <= Len(q_snapshot)
    /\ queue[q_snapshot[cursor]] = <<>>
    /\ flush(out_list)
    /\ cursor' = cursor + 1
    /\ UNCHANGED <<life, m_queues, queue, clientVars, cpc, q_snapshot>>

DrainEnd ==
    /\ Draining /\ cursor > Len(q_snapshot)
    /\ cpc' = IF cpc = "drain" THEN "while" ELSE "exited"
    /\ UNCHANGED <<life, m_queues, queue, clientVars, q_snapshot, cursor, out_list, output>>

--------------------------------------------------------------------------------
(* ~SPSCLogger. *)

DestroyRequestStop ==
    /\ life = "running"
    /\ \A t \in Threads : pc[t] = "idle"
    /\ life' = "stopping"
    /\ UNCHANGED <<m_queues, queue, clientVars, runVars>>

\* The return of join, and the deletion of the queues with what is still in them.
DestroyJoined ==
    /\ life = "stopping" /\ cpc = "exited"
    /\ life' = "dead"
    /\ m_queues' = <<>>
    /\ queue' = [t \in Threads |-> <<>>]
    /\ UNCHANGED <<clientVars, runVars>>

--------------------------------------------------------------------------------
LogStep(t) == LogCall(t) \/ LogRegister(t) \/ LogPush(t)

RunStep ==
    RunWhile \/ RunSnapshot \/ RunSnapshotTorn \/ DrainPop \/ DrainNext \/ DrainEnd

Next ==
    \/ Constructed \/ RunStep \/ DestroyRequestStop \/ DestroyJoined
    \/ \E t \in Threads : LogStep(t)

(* The scheduler runs every thread that can run; whether a thread logs again, *)
(* and when the program ends, is the clients' choice.                         *)
Fairness ==
    /\ WF_vars(Constructed) /\ WF_vars(RunStep) /\ WF_vars(DestroyJoined)
    /\ \A t \in Threads : WF_vars(LogRegister(t) \/ LogPush(t))

Spec == Init /\ [][Next]_vars

FairSpec == Spec /\ Fairness

--------------------------------------------------------------------------------
Records == Threads \X (1 .. MaxCalls)

(* Every variable has a value of its type; list_tracker is an index of        *)
(* out_list (line 147), and a queue holds at most QUEUE_SIZE records.         *)
TypeOK ==
    /\ life \in {"constructing", "running", "stopping", "dead", "aborted"}
    /\ m_queues \in Seq(Threads) /\ q_snapshot \in Seq(Threads)
    /\ queue \in [Threads -> Seq(1 .. MaxCalls)] /\ \A t \in Threads : Len(queue[t]) <= QUEUE_SIZE
    /\ accepted \in [Threads -> SUBSET (1 .. MaxCalls)]
    /\ pc \in [Threads -> {"idle", "register", "push"}]
    /\ calls \in [Threads -> 0 .. MaxCalls]
    /\ cpc \in {"while", "snapshot", "drain", "lastdrain", "exited"}
    /\ cursor \in 1 .. Len(q_snapshot) + 1
    /\ out_list \in Seq(Records) /\ Len(out_list) < OUT_LIST_SIZE
    /\ output \in Seq(Records)

\* What was taken from the queues, in that order.
Popped == output \o out_list

(* The threads whose queues were deleted unread (line 130): they registered   *)
(* after the snapshot on which the last drain works (line 166).               *)
Missed(t) == life = "dead" /\ t \notin Range(q_snapshot)

(* No record is duplicated, or overtaken by a later one of its thread,        *)
(* between push (line 287), out_list and stdout, however registrations and    *)
(* snapshots interleave, and the destructor alone loses any: the accepted     *)
(* ones are in stdout, in out_list or in the queue, and the numbers of each   *)
(* thread rise along that way.  Of a thread that the last snapshot missed     *)
(* every record is lost, of the other ones none.                              *)
RecordsConserved ==
    /\ TypeOK
    /\ \A t \in Threads, n \in 1 .. MaxCalls :
          n \in accepted[t] /\ ~Missed(t) <=> <<t, n>> \in Range(Popped) \/ n \in Range(queue[t])
    /\ \A i, j \in DOMAIN Popped :
          i < j /\ Popped[i][1] = Popped[j][1] => Popped[i][2] < Popped[j][2]
    /\ \A t \in Threads : \A j \in DOMAIN queue[t] :
          /\ \A i \in DOMAIN Popped : Popped[i][1] = t => Popped[i][2] < queue[t][j]
          /\ \A i \in DOMAIN queue[t] : i < j => queue[t][i] < queue[t][j]

(* When the consumer thread has returned (the last drain, line 166), stdout   *)
(* has every accepted record of every thread that was registered when the     *)
(* last snapshot was taken.                                                   *)
SnapshotFlushed ==
    cpc = "exited" => \A t \in Range(q_snapshot) : \A n \in accepted[t] : <<t, n>> \in Range(output)

(* While the logger lives, every accepted record reaches stdout, also those   *)
(* of threads that register while _run drains an older snapshot.              *)
EventuallyWritten ==
    \A t \in Threads, n \in 1 .. MaxCalls :
        n \in accepted[t] ~> <<t, n>> \in Range(output) \/ life # "running"

\* The destructor returns: _run sees the stop request and finishes its last drain.
DestructorReturns == life = "stopping" ~> life = "dead"
================================================================================
