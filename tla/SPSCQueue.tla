------------------------------- MODULE SPSCQueue -------------------------------
(******************************************************************************)
(* fiah::SPSCQueue (src/include/fiah/structs/SPSCQueue.hh): the lock-free     *)
(* ring of one producer and one consumer thread.  Every access to memory that *)
(* both threads can reach is a step of its own; a load of a counter that only *)
(* the loading thread writes is part of the step before it.                   *)
(*                                                                            *)
(* The counters are std::uint64_t and wrap at Word (2^64 in the program).     *)
(* A slot of m_storage is Raw bytes, a live element of Values, or a live      *)
(* element that was MovedFrom.                                                *)
(*                                                                            *)
(* Memory orders: released[t] is the value of t's counter up to which t's     *)
(* accesses to the slots are ordered before its last release store, view[t]   *)
(* the value of the other thread's counter up to which that thread's accesses *)
(* happen before the next access of t.  view advances only in an acquire load *)
(* of emplace or pop; those of the observers, which could only add to it, are *)
(* not counted.                                                               *)
(******************************************************************************)
EXTENDS Integers, Sequences

CONSTANTS
    Capacity,  \* kCapacity
    Word,      \* the number of values of a counter
    Values,    \* the elements
    Raw, MovedFrom, None

ASSUME CapacityAssumption == Capacity \in Nat \ {0}
ASSUME WordAssumption == Word \in Nat /\ Word > Capacity /\ Word % Capacity = 0
ASSUME ValuesAssumption == Raw \notin Values /\ MovedFrom \notin Values /\ None \notin Values
                        /\ Raw # MovedFrom

VARIABLES
    m_head, m_tail, m_storage,
    pc,      \* the next step of each thread
    head, tail, \* each thread's local copies of the counters
    arg,     \* the argument of the emplace in progress
    out,     \* the reference pop moves the element into
    ret,     \* how the thread's last emplace or pop ended
    seen,    \* the observer the thread called last, with no emplace or pop since
    popped,  \* the element that the last successful pop returned
    released, view, \* the happens-before knowledge described above
    life     \* the queue's lifetime

vars == <<m_head, m_tail, m_storage, pc, head, tail, arg, out, ret, seen, popped, released, view, life>>

Counter == 0 .. Word - 1
Slots == 0 .. Capacity - 1
Threads == {"producer", "consumer"}
Observers == {"empty", "full", "size"}

\* x + 1 and a - b in std::uint64_t.
Inc(x) == IF x = Word - 1 THEN 0 ELSE x + 1
Sub(a, b) == IF a >= b THEN a - b ELSE a - b + Word

slot_ptr(idx) == idx % Capacity

\* Mutants: the ring takes one element too many; one too few.
IsFullLate(h, t) == Sub(h, t) > Capacity
IsFullEarly(h, t) == Sub(h, t) >= Capacity - 1

IsFull(h, t) == Sub(h, t) = Capacity

Init ==
    /\ m_head = 0
    /\ m_tail = 0
    /\ m_storage = [s \in Slots |-> Raw]
    /\ pc = [t \in Threads |-> "idle"]
    /\ head = [t \in Threads |-> 0]
    /\ tail = [t \in Threads |-> 0]
    /\ arg = None
    /\ out = None
    /\ ret = [t \in Threads |-> "none"]
    /\ seen = [t \in Threads |-> "none"]
    /\ popped = None
    /\ released = [t \in Threads |-> 0]
    /\ view = [t \in Threads |-> 0]
    /\ life = "alive"

Goto(t, from, to) == pc[t] = from /\ pc' = [pc EXCEPT ![t] = to]

Return(t, from, result) ==
    /\ Goto(t, from, "idle")
    /\ ret' = [ret EXCEPT ![t] = result]
    /\ seen' = [seen EXCEPT ![t] = "none"]

--------------------------------------------------------------------------------
(* push and emplace, by the producer. *)

EmplaceCall(v) ==
    /\ life = "alive"
    /\ Goto("producer", "idle", "emplace")
    /\ arg' = v
    /\ head' = [head EXCEPT !["producer"] = m_head]
    /\ UNCHANGED <<m_head, m_tail, m_storage, tail, out, ret, seen, popped, released, view, life>>

\* Mutant: m_tail is loaded with memory_order_relaxed.
EmplaceCheckRelaxed ==
    /\ tail' = [tail EXCEPT !["producer"] = m_tail]
    /\ \/ /\ IsFull(head["producer"], m_tail)
          /\ Return("producer", "emplace", "refused")
          /\ arg' = None
       \/ /\ ~IsFull(head["producer"], m_tail)
          /\ Goto("producer", "emplace", "construct")
          /\ UNCHANGED <<arg, ret, seen>>
    /\ UNCHANGED <<m_head, m_tail, m_storage, head, out, popped, released, view, life>>

\* The load of m_tail and the full check.
EmplaceCheck ==
    /\ tail' = [tail EXCEPT !["producer"] = m_tail]
    /\ view' = [view EXCEPT !["producer"] = released["consumer"]]
    /\ \/ /\ IsFull(head["producer"], m_tail)
          /\ Return("producer", "emplace", "refused")
          /\ arg' = None
       \/ /\ ~IsFull(head["producer"], m_tail)
          /\ Goto("producer", "emplace", "construct")
          /\ UNCHANGED <<arg, ret, seen>>
    /\ UNCHANGED <<m_head, m_tail, m_storage, head, out, popped, released, life>>

EmplaceConstruct ==
    /\ Goto("producer", "construct", "publish")
    /\ m_storage' = [m_storage EXCEPT ![slot_ptr(head["producer"])] = arg]
    /\ UNCHANGED <<m_head, m_tail, head, tail, arg, out, ret, seen, popped, released, view, life>>

\* The constructor of T throws: emplace is left before m_head is stored.
EmplaceThrow ==
    /\ Return("producer", "construct", "threw")
    /\ arg' = None
    /\ UNCHANGED <<m_head, m_tail, m_storage, head, tail, out, popped, released, view, life>>

\* Mutant: m_head is not stored.
EmplacePublishLost ==
    /\ Return("producer", "publish", "ok")
    /\ arg' = None
    /\ UNCHANGED <<m_head, released, m_tail, m_storage, head, tail, out, popped, view, life>>

EmplacePublish ==
    /\ Return("producer", "publish", "ok")
    /\ m_head' = Inc(head["producer"])
    /\ released' = [released EXCEPT !["producer"] = Inc(head["producer"])]
    /\ arg' = None
    /\ UNCHANGED <<m_tail, m_storage, head, tail, out, popped, view, life>>

--------------------------------------------------------------------------------
(* pop, by the consumer. *)

PopCall ==
    /\ life = "alive"
    /\ Goto("consumer", "idle", "pop")
    /\ tail' = [tail EXCEPT !["consumer"] = m_tail]
    /\ UNCHANGED <<m_head, m_tail, m_storage, head, arg, out, ret, seen, popped, released, view, life>>

\* Mutant: pop does not ask whether the queue is empty.
PopCheckUnguarded ==
    /\ head' = [head EXCEPT !["consumer"] = m_head]
    /\ view' = [view EXCEPT !["consumer"] = released["producer"]]
    /\ Goto("consumer", "pop", "move")
    /\ UNCHANGED <<ret, seen, m_head, m_tail, m_storage, tail, arg, out, popped, released, life>>

\* The load of m_head and the empty check.
PopCheck ==
    /\ head' = [head EXCEPT !["consumer"] = m_head]
    /\ view' = [view EXCEPT !["consumer"] = released["producer"]]
    /\ \/ /\ m_head = tail["consumer"]
          /\ Return("consumer", "pop", "refused")
       \/ /\ m_head # tail["consumer"]
          /\ Goto("consumer", "pop", "move")
          /\ UNCHANGED <<ret, seen>>
    /\ UNCHANGED <<m_head, m_tail, m_storage, tail, arg, out, popped, released, life>>

PopMove ==
    /\ Goto("consumer", "move", "destroy")
    /\ out' = m_storage[slot_ptr(tail["consumer"])]
    /\ m_storage' = [m_storage EXCEPT ![slot_ptr(tail["consumer"])] = MovedFrom]
    /\ UNCHANGED <<m_head, m_tail, head, tail, arg, ret, seen, popped, released, view, life>>

\* The move assignment of T throws and leaves its source as it was.
PopThrow ==
    /\ Return("consumer", "move", "threw")
    /\ UNCHANGED <<m_head, m_tail, m_storage, head, tail, arg, out, popped, released, view, life>>

PopDestroy ==
    /\ Goto("consumer", "destroy", "release")
    /\ m_storage' = [m_storage EXCEPT ![slot_ptr(tail["consumer"])] = Raw]
    /\ UNCHANGED <<m_head, m_tail, head, tail, arg, out, ret, seen, popped, released, view, life>>

\* Mutant: m_tail is not stored.
PopReleaseLost ==
    /\ Return("consumer", "release", "ok")
    /\ popped' = out
    /\ UNCHANGED <<m_tail, released, m_head, m_storage, head, tail, arg, out, view, life>>

PopRelease ==
    /\ Return("consumer", "release", "ok")
    /\ m_tail' = Inc(tail["consumer"])
    /\ released' = [released EXCEPT !["consumer"] = Inc(tail["consumer"])]
    /\ popped' = out
    /\ UNCHANGED <<m_head, m_storage, head, tail, arg, out, view, life>>

--------------------------------------------------------------------------------
(* empty(), full() and size(), by either thread: two loads, of which empty()  *)
(* loads m_tail first and the others m_head.  The answer is computed from the *)
(* two registers.                                                             *)

ObserveFirst(t, op) ==
    /\ life = "alive"
    /\ Goto(t, "idle", op)
    /\ IF op = "empty"
       THEN tail' = [tail EXCEPT ![t] = m_tail] /\ UNCHANGED head
       ELSE head' = [head EXCEPT ![t] = m_head] /\ UNCHANGED tail
    /\ seen' = [seen EXCEPT ![t] = "none"]
    /\ UNCHANGED <<m_head, m_tail, m_storage, arg, out, ret, popped, released, view, life>>

ObserveSecond(t, op) ==
    /\ Goto(t, op, "idle")
    /\ IF op = "empty"
       THEN head' = [head EXCEPT ![t] = m_head] /\ UNCHANGED tail
       ELSE tail' = [tail EXCEPT ![t] = m_tail] /\ UNCHANGED head
    /\ seen' = [seen EXCEPT ![t] = op]
    /\ UNCHANGED <<m_head, m_tail, m_storage, arg, out, ret, popped, released, view, life>>

\* Mutant: full() asks for more than Capacity elements.
fullAnswerLate(t) == IsFullLate(head[t], tail[t])

emptyAnswer(t) == head[t] = tail[t]
fullAnswer(t) == IsFull(head[t], tail[t])
sizeAnswer(t) == Sub(head[t], tail[t])

--------------------------------------------------------------------------------
(* ~SPSCQueue, once both threads have left the queue.  The registers of the   *)
(* consumer's slot in head and tail serve as its locals.                      *)

DestroyBegin ==
    /\ life = "alive"
    /\ \A t \in Threads : pc[t] = "idle"
    /\ life' = "draining"
    /\ tail' = [tail EXCEPT !["consumer"] = m_tail]
    /\ head' = [head EXCEPT !["consumer"] = m_head]
    /\ UNCHANGED <<m_head, m_tail, m_storage, pc, arg, out, ret, seen, popped, released, view>>

DestroyElement ==
    /\ life = "draining"
    /\ tail["consumer"] # head["consumer"]
    /\ m_storage' = [m_storage EXCEPT ![slot_ptr(tail["consumer"])] = Raw]
    /\ tail' = [tail EXCEPT !["consumer"] = Inc(@)]
    /\ UNCHANGED <<m_head, m_tail, pc, head, arg, out, ret, seen, popped, released, view, life>>

DestroyEnd ==
    /\ life = "draining"
    /\ tail["consumer"] = head["consumer"]
    /\ life' = "dead"
    /\ UNCHANGED <<m_head, m_tail, m_storage, pc, head, tail, arg, out, ret, seen, popped, released, view>>

--------------------------------------------------------------------------------
ProducerStep == EmplaceCheck \/ EmplaceConstruct \/ EmplaceThrow \/ EmplacePublish

ConsumerStep == PopCheck \/ PopMove \/ PopThrow \/ PopDestroy \/ PopRelease

Next ==
    \/ \E v \in Values : EmplaceCall(v)
    \/ ProducerStep
    \/ PopCall
    \/ ConsumerStep
    \/ \E t \in Threads, op \in Observers : ObserveFirst(t, op) \/ ObserveSecond(t, op)
    \/ DestroyBegin \/ DestroyElement \/ DestroyEnd

Spec == Init /\ [][Next]_vars

(* Both threads run their loops, as in examples/spsc_queue_example.cc: an     *)
(* operation once begun goes on, the producer pushes and the consumer pops    *)
(* again and again whatever else they call, and construction and move of an   *)
(* element do not fail for ever.                                              *)
Fairness ==
    /\ WF_vars(ProducerStep) /\ SF_vars(EmplaceConstruct) /\ SF_vars(\E v \in Values : EmplaceCall(v))
    /\ WF_vars(ConsumerStep) /\ SF_vars(PopMove) /\ SF_vars(PopCall)
    /\ \A t \in Threads, op \in Observers : WF_vars(ObserveSecond(t, op))

FairSpec == Spec /\ Fairness

--------------------------------------------------------------------------------
Operations == {"idle", "emplace", "construct", "publish", "pop", "move", "destroy", "release"}

\* Every variable has a value of its type, and each thread runs only its own operations.
TypeOK ==
    /\ m_head \in Counter /\ m_tail \in Counter
    /\ m_storage \in [Slots -> Values \cup {Raw, MovedFrom}]
    /\ pc \in [Threads -> Operations \cup Observers]
    /\ pc["producer"] \notin {"pop", "move", "destroy", "release"}
    /\ pc["consumer"] \notin {"emplace", "construct", "publish"}
    /\ head \in [Threads -> Counter] /\ tail \in [Threads -> Counter]
    /\ arg \in Values \cup {None}
    /\ (arg # None) <=> (pc["producer"] \in {"emplace", "construct", "publish"})
    /\ out \in Values \cup {None}
    /\ popped \in Values \cup {None}
    /\ ret \in [Threads -> {"none", "ok", "refused", "threw"}]
    /\ seen \in [Threads -> Observers \cup {"none"}]
    /\ released \in [Threads -> Counter] /\ view \in [Threads -> Counter]
    /\ life \in {"alive", "draining", "dead"}

--------------------------------------------------------------------------------
(* The inductive invariant. *)

Emplacing == {"emplace", "construct", "publish"}
Popping == {"pop", "move", "destroy", "release"}

\* An operation's copy of its thread's own counter is current.
OwnCounters ==
    /\ pc["producer"] \in Emplacing => head["producer"] = m_head
    /\ pc["consumer"] \in Popping => tail["consumer"] = m_tail

\* The consumer's end of the window of elements: the destructor drains from its own copy.
Front == IF life = "alive" THEN m_tail ELSE tail["consumer"]

\* How far slot s is behind slot t, going round the ring.
Behind(s, t) == IF s >= t THEN s - t ELSE s - t + Capacity

\* The window holds at most Capacity elements and a thread past its check has what it needs.
Window ==
    /\ Sub(m_head, Front) <= Capacity
    /\ pc["producer"] \in {"construct", "publish"} => Sub(m_head, Front) < Capacity
    /\ pc["consumer"] \in {"move", "destroy", "release"} => m_head # m_tail

\* The slot of m_head is Sub(m_head, Front) slots after that of Front.
Aligned ==
    slot_ptr(m_head) = IF slot_ptr(Front) + Sub(m_head, Front) < Capacity
                       THEN slot_ptr(Front) + Sub(m_head, Front)
                       ELSE slot_ptr(Front) + Sub(m_head, Front) - Capacity

\* A slot holds an element if and only if it is in the window, but for the two in transit.
Occupied(s) == Behind(s, slot_ptr(Front)) < Sub(m_head, Front)
Filling(s) == pc["producer"] = "publish" /\ s = slot_ptr(head["producer"])
Emptying(s) == pc["consumer"] \in {"destroy", "release"} /\ s = slot_ptr(tail["consumer"])

Storage ==
    \A s \in Slots :
        /\ Filling(s) => m_storage[s] = arg
        /\ Emptying(s) => m_storage[s] = IF pc["consumer"] = "destroy" THEN MovedFrom ELSE Raw
        /\ Occupied(s) /\ ~Emptying(s) => m_storage[s] \in Values
        /\ ~Occupied(s) /\ ~Filling(s) => m_storage[s] = Raw

\* Nobody is in the queue while it is destroyed.
Lifetime ==
    /\ life # "alive" => /\ pc["producer"] = "idle" /\ pc["consumer"] = "idle"
                         /\ head["consumer"] = m_head
    /\ life = "dead" => tail["consumer"] = m_head

\* What was released is what was stored, and what was acquired covers the slot in hand.
Knowledge ==
    /\ released["producer"] = m_head
    /\ released["consumer"] = m_tail
    /\ pc["producer"] \in {"construct", "publish"} => Sub(m_head, view["producer"]) < Capacity
    /\ pc["consumer"] \in {"move", "destroy", "release"} =>
          Sub(view["consumer"], m_tail) \in 1 .. Capacity

(* The inductive invariant: the ring's counters, slots and the acquire and    *)
(* release edges agree at every step of emplace, pop and the destructor.      *)
IndInv ==
    /\ TypeOK /\ OwnCounters /\ Window /\ Aligned /\ Storage /\ Lifetime /\ Knowledge

--------------------------------------------------------------------------------
(* No data race on a slot: when the producer is about to construct in a slot, *)
(* the acquire load of m_tail (line 112) has ordered the pop that emptied it  *)
(* before; when the consumer is about to move out of a slot, the acquire load *)
(* of m_head (line 130) has ordered its construction before.                  *)
RaceFree ==
    /\ pc["producer"] = "construct" => Sub(head["producer"], view["producer"]) < Capacity
    /\ pc["consumer"] \in {"move", "destroy"} =>
          Sub(view["consumer"], tail["consumer"]) \in 1 .. Capacity

(* Lifetimes of elements: emplace constructs only in raw bytes (it never      *)
(* overwrites an element that was not popped), pop moves only out of a live   *)
(* element, destroy_at only meets objects, and when ~SPSCQueue is done no     *)
(* element is left undestroyed.                                               *)
ElementLifetimes ==
    /\ pc["producer"] = "construct" => m_storage[slot_ptr(head["producer"])] = Raw
    /\ pc["consumer"] = "move" => m_storage[slot_ptr(tail["consumer"])] \in Values
    /\ life = "draining" /\ tail["consumer"] # head["consumer"] =>
          m_storage[slot_ptr(tail["consumer"])] \in Values
    /\ life = "dead" => \A s \in Slots : m_storage[s] = Raw

\* size() answers each of the two threads with a number of elements the queue can hold.
SizeInRange ==
    \A t \in Threads : seen[t] = "size" => sizeAnswer(t) \in 0 .. Capacity

\* A refusal by emplace or pop, if this step is one, does not contradict the thread's observer.
WordKept ==
    /\ pc["producer"] = "emplace" /\ pc'["producer"] = "idle" =>
          ~(seen["producer"] = "full" /\ ~fullAnswer("producer"))
    /\ pc["consumer"] = "pop" /\ pc'["consumer"] = "idle" =>
          ~(seen["consumer"] = "empty" /\ ~emptyAnswer("consumer"))

(* What an observer told its own thread stays good: after full() answered     *)
(* false the producer's next emplace is not refused, after empty() answered   *)
(* false the consumer's next pop is not, whatever the other thread did in     *)
(* between; and size() is never out of range.                                 *)
ObserversKeptWord == []SizeInRange /\ [][WordKept]_vars

--------------------------------------------------------------------------------
(* The refinement mapping.  The oldest element is in out from the move until  *)
(* m_tail is stored, which is where pop takes effect; push takes effect at    *)
(* the store of m_head.                                                       *)

\* The k-th slot after that of counter value c.
SlotAfter(c, k) ==
    IF slot_ptr(c) + k < Capacity THEN slot_ptr(c) + k ELSE slot_ptr(c) + k - Capacity

Items ==
    [i \in 1 .. (IF life = "alive" THEN Sub(m_head, m_tail) ELSE 0) |->
        IF i = 1 /\ pc["consumer"] \in {"destroy", "release"}
        THEN out
        ELSE m_storage[SlotAfter(m_tail, i - 1)]]

FIFO == INSTANCE BoundedFIFO WITH
    items <- Items,
    pushing <- arg,
    popping <- pc["consumer"] \in {"pop", "move", "destroy", "release"},
    pushRet <- ret["producer"],
    popRet <- ret["consumer"],
    got <- popped,
    open <- life = "alive"

(* The queue is a linearizable bounded FIFO: every step of emplace, pop, the  *)
(* observers and the destructor is a step of BoundedFIFO or changes nothing   *)
(* its clients can see.                                                       *)
ImplementsFIFO == FIFO!Spec

(* No element is stuck: while the consumer keeps calling pop, the oldest      *)
(* element is taken (or the queue is destroyed).                              *)
ConsumerProgress ==
    \A c \in Counter : (m_tail = c /\ m_head # c) ~> (m_tail # c \/ life # "alive")

(* No refusal is for ever: while the producer keeps calling emplace and the   *)
(* consumer keeps calling pop, a push succeeds again.                         *)
ProducerProgress ==
    \A c \in Counter : m_head = c ~> (m_head # c \/ life # "alive")
================================================================================
