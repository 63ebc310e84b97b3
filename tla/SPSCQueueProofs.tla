---------------------------- MODULE SPSCQueueProofs ----------------------------
(* SPSCQueue for every capacity, every counter width that is a larger         *)
(* multiple of the capacity, and every set of elements: arithmetic of the     *)
(* counters, one lemma per step that it preserves the inductive invariant,    *)
(* the safety theorems that follow, what the observers' answers mean, and     *)
(* the refinement of BoundedFIFO.                                             *)
EXTENDS SPSCQueue, TLAPS

USE CapacityAssumption, WordAssumption, ValuesAssumption, SMTT(40)

--------------------------------------------------------------------------------
(* Arithmetic of the counters and of the ring. *)

\* The uint64_t operations stay in range and Inc undoes one unit of Sub on either side.
LEMMA CounterArithmetic ==
    ASSUME NEW x \in Counter, NEW y \in Counter
    PROVE  /\ Inc(x) \in Counter
           /\ Sub(x, y) \in Counter
           /\ Sub(x, y) = 0 <=> x = y
           /\ Sub(x, y) < Capacity => Sub(Inc(x), y) = Sub(x, y) + 1
           /\ x # y => Sub(x, Inc(y)) = Sub(x, y) - 1
  BY DEF Counter, Inc, Sub

\* Quotient and remainder by the capacity are unique.
LEMMA Remainder ==
    ASSUME NEW q \in Int, NEW r \in Slots
    PROVE  (q * Capacity + r) % Capacity = r
<1> DEFINE n == q * Capacity + r
           p == n \div Capacity
           m == n % Capacity
<1>1. n \in Int /\ p \in Int /\ m \in 0 .. Capacity - 1 /\ n = p * Capacity + m
  BY DEF Slots
<1> HIDE DEF n, p, m
<1>2. (q - p) * Capacity = m - r
  BY <1>1 DEF n, Slots
<1>3. m - r < Capacity /\ r - m < Capacity
  BY <1>1 DEF Slots
<1>4. q - p < 1
  <2> SUFFICES ASSUME q - p >= 1 PROVE FALSE
    BY <1>1
  <2>1. (q - p) * Capacity >= Capacity
    BY <1>1
  <2> QED BY <2>1, <1>2, <1>3, <1>1 DEF Slots
<1>5. q - p > -1
  <2> SUFFICES ASSUME q - p <= -1 PROVE FALSE
    BY <1>1
  <2>1. (q - p) * Capacity <= -Capacity
    BY <1>1
  <2> QED BY <2>1, <1>2, <1>3, <1>1 DEF Slots
<1>6. q - p = 0
  BY <1>4, <1>5, <1>1
<1>7. m = r
  BY <1>6, <1>2, <1>1 DEF Slots
<1> QED BY <1>7, Zenon DEF m, n

\* idx & kMask names a slot, and one step of the counter is one step round the ring,
\* the step over the end of the counter's range included.
LEMMA SlotOfInc ==
    ASSUME NEW x \in Counter
    PROVE  /\ slot_ptr(x) \in Slots
           /\ slot_ptr(Inc(x)) = IF slot_ptr(x) = Capacity - 1 THEN 0 ELSE slot_ptr(x) + 1
<1> DEFINE q == x \div Capacity
           r == x % Capacity
<1>1. q \in Int /\ r \in Slots /\ x = q * Capacity + r
  BY DEF Counter, Slots
<1>2. slot_ptr(x) = r
  BY Zenon DEF slot_ptr
<1> HIDE DEF q, r
<1>3. (x + 1) % Capacity = IF r = Capacity - 1 THEN 0 ELSE r + 1
  <2>1. CASE r = Capacity - 1
    <3>1. x + 1 = (q + 1) * Capacity + 0
      BY <1>1, <2>1
    <3>2. 0 \in Slots /\ q + 1 \in Int
      BY <1>1 DEF Slots
    <3>3. ((q + 1) * Capacity + 0) % Capacity = 0
      BY <3>2, Remainder, Zenon
    <3> QED BY <3>1, <3>3, <2>1, Zenon
  <2>2. CASE r # Capacity - 1
    <3>1. x + 1 = q * Capacity + (r + 1)
      BY <1>1 DEF Slots
    <3>2. r + 1 \in Slots
      BY <1>1, <2>2 DEF Slots
    <3>3. (q * Capacity + (r + 1)) % Capacity = r + 1
      BY <3>2, <1>1, Remainder, Zenon
    <3> QED BY <3>1, <3>3, <2>2, Zenon
  <2> QED BY <2>1, <2>2, Zenon
<1>4. CASE x # Word - 1
  BY <1>1, <1>2, <1>3, <1>4, Zenon DEF Inc, slot_ptr
<1>5. CASE x = Word - 1
  <2>1. (x + 1) % Capacity = 0
    BY <1>5
  <2>2. 0 % Capacity = 0
    <3>1. 0 = 0 * Capacity + 0 /\ 0 \in Slots
      BY DEF Slots
    <3> QED BY <3>1, Remainder
  <2> QED BY <2>1, <2>2, <1>1, <1>2, <1>3, <1>5, Zenon DEF Inc, slot_ptr, Slots
<1> QED BY <1>4, <1>5, Zenon

--------------------------------------------------------------------------------
(* The inductive invariant. *)

\* The constructor establishes the invariant.
LEMMA InitInv == Init => IndInv
<1> SUFFICES ASSUME Init PROVE IndInv
  OBVIOUS
<1>1. 0 \in Counter /\ slot_ptr(0) \in Slots /\ Sub(0, 0) = 0
  <2>1. 0 \in Counter
    BY DEF Counter
  <2> QED BY <2>1, CounterArithmetic, SlotOfInc, Zenon
<1>2. TypeOK
  BY <1>1, Zenon DEF Init, TypeOK, Threads, Operations, Observers
<1>3. OwnCounters /\ Window /\ Lifetime /\ Knowledge
  BY <1>1 DEF Init, OwnCounters, Window, Lifetime, Knowledge, Front, Emplacing, Popping, Threads
<1>4. Aligned
  BY <1>1 DEF Init, Aligned, Front, Slots
<1>5. Storage
  BY <1>1 DEF Init, Storage, Front, Occupied, Filling, Emptying, Behind, Slots, Threads
<1> QED BY <1>2, <1>3, <1>4, <1>5, Zenon DEF IndInv

\* The slot of Front is the oldest element's, and the slot of m_head is free unless the ring is full.
LEMMA EndsOfWindow ==
    ASSUME IndInv
    PROVE  /\ Front \in Counter
           /\ slot_ptr(Front) \in Slots /\ slot_ptr(m_head) \in Slots
           /\ Sub(m_head, Front) \in 0 .. Capacity
           /\ Sub(m_head, Front) = 0 <=> m_head = Front
           /\ m_head # Front => Occupied(slot_ptr(Front))
           /\ Sub(m_head, Front) < Capacity => ~Occupied(slot_ptr(m_head))
<1>1. Front \in Counter /\ m_head \in Counter
  BY Zenon DEF IndInv, TypeOK, Front, Threads
<1>2. slot_ptr(Front) \in Slots /\ slot_ptr(m_head) \in Slots
  BY <1>1, SlotOfInc, Zenon
<1>3. Sub(m_head, Front) \in Counter /\ (Sub(m_head, Front) = 0 <=> m_head = Front)
  BY <1>1, CounterArithmetic
<1>4. Sub(m_head, Front) \in 0 .. Capacity
  BY <1>3 DEF IndInv, Window, Counter
<1>5. m_head # Front => Occupied(slot_ptr(Front))
  BY <1>2, <1>3, <1>4 DEF Occupied, Behind, Slots
<1>6. Sub(m_head, Front) < Capacity => ~Occupied(slot_ptr(m_head))
  BY <1>2, <1>4 DEF IndInv, Aligned, Occupied, Behind, Slots
<1> QED BY <1>1, <1>2, <1>3, <1>4, <1>5, <1>6, Zenon

\* pop, past its check, finds an element in the slot of its tail.
LEMMA OldestIsElement ==
    ASSUME IndInv, pc["consumer"] = "move"
    PROVE  m_storage[slot_ptr(tail["consumer"])] \in Values
<1>1. tail["consumer"] = m_tail /\ m_head # m_tail /\ life = "alive"
  BY Zenon DEF IndInv, OwnCounters, Popping, Window, Lifetime
<1>a. Front = m_tail
  BY <1>1, Zenon DEF Front
<1>2. Occupied(slot_ptr(Front)) /\ slot_ptr(Front) \in Slots /\ Front = m_tail
  BY <1>1, <1>a, EndsOfWindow, Zenon
<1> QED BY <1>1, <1>2, Zenon DEF IndInv, Storage, Emptying

\* The type invariant is preserved by every step, given that a popped slot holds an element.
LEMMA TypeStep == IndInv /\ [Next]_vars => TypeOK'
<1> SUFFICES ASSUME IndInv, [Next]_vars PROVE TypeOK'
  OBVIOUS
<1> USE DEF Threads, Operations, Observers, Goto, Return
<1>0. TypeOK
  BY Zenon DEF IndInv
<1>1. ASSUME NEW v \in Values, EmplaceCall(v) PROVE TypeOK'
  BY <1>0, <1>1, Zenon DEF EmplaceCall, TypeOK
<1>2. CASE EmplaceCheck
  BY <1>0, <1>2 DEF EmplaceCheck, TypeOK
<1>3. CASE EmplaceConstruct
  BY ZenonT(40), <1>0, <1>3 DEF EmplaceConstruct, TypeOK
<1>4. CASE EmplaceThrow
  BY <1>0, <1>4, Zenon DEF EmplaceThrow, TypeOK
<1>5. CASE EmplacePublish
  BY <1>0, <1>5, CounterArithmetic DEF EmplacePublish, TypeOK
<1>6. CASE PopCall
  BY <1>0, <1>6, Zenon DEF PopCall, TypeOK
<1>7. CASE PopCheck
  BY <1>0, <1>7 DEF PopCheck, TypeOK
<1>8. CASE PopMove
  <2>1. m_storage[slot_ptr(tail["consumer"])] \in Values
    BY <1>8, OldestIsElement, Zenon DEF PopMove, IndInv, TypeOK
  <2> QED BY ZenonT(40), <1>0, <1>8, <2>1 DEF PopMove, TypeOK
<1>9. CASE PopThrow
  BY <1>0, <1>9, Zenon DEF PopThrow, TypeOK
<1>10. CASE PopDestroy
  BY ZenonT(40), <1>0, <1>10 DEF PopDestroy, TypeOK
<1>11. CASE PopRelease
  BY <1>0, <1>11, CounterArithmetic DEF PopRelease, TypeOK
<1>12. ASSUME NEW t \in Threads, NEW op \in {"empty", "full", "size"}, ObserveFirst(t, op)
       PROVE TypeOK'
  BY <1>0, <1>12 DEF ObserveFirst, TypeOK
<1>13. ASSUME NEW t \in Threads, NEW op \in {"empty", "full", "size"}, ObserveSecond(t, op)
       PROVE TypeOK'
  BY <1>0, <1>13 DEF ObserveSecond, TypeOK
<1>14. CASE DestroyBegin
  BY <1>0, <1>14, Zenon DEF DestroyBegin, TypeOK
<1>15. CASE DestroyElement
  <2>1. Inc(tail["consumer"]) \in Counter
    BY <1>0, CounterArithmetic DEF TypeOK
  <2> QED BY ZenonT(40), <1>0, <1>15, <2>1 DEF DestroyElement, TypeOK
<1>16. CASE DestroyEnd
  BY <1>0, <1>16, Zenon DEF DestroyEnd, TypeOK
<1>17. CASE UNCHANGED vars
  BY <1>0, <1>17, Zenon DEF vars, TypeOK
<1> QED
  BY <1>1, <1>2, <1>3, <1>4, <1>5, <1>6, <1>7, <1>8, <1>9, <1>10, <1>11, <1>12, <1>13, <1>14,
     <1>15, <1>16, <1>17, Zenon DEF Next, ProducerStep, ConsumerStep

\* What IndInv says beyond types.
Rest == OwnCounters /\ Window /\ Aligned /\ Storage /\ Lifetime /\ Knowledge

\* A step that stores neither a counter nor an element keeps what is said of the ring.
LEMMA RingKept ==
    ASSUME IndInv, UNCHANGED <<m_head, m_tail, m_storage>>, Front' = Front,
           pc["producer"] = "publish" \/ pc'["producer"] = "publish" =>
              UNCHANGED <<pc["producer"], head["producer"], arg>>,
           pc["consumer"] \in {"destroy", "release"} \/ pc'["consumer"] \in {"destroy", "release"} =>
              UNCHANGED <<pc["consumer"], tail["consumer"]>>
    PROVE  /\ Aligned' /\ Storage'
           /\ /\ pc'["producer"] = "construct" => pc["producer"] = "construct"
              /\ pc'["consumer"] = "move" => pc["consumer"] = "move"
              => Window' /\ (UNCHANGED <<released, view>> => Knowledge')
<1>1. /\ slot_ptr(m_head)' = slot_ptr(m_head) /\ slot_ptr(Front)' = slot_ptr(Front)
      /\ Sub(m_head, Front)' = Sub(m_head, Front)
  BY Zenon DEF slot_ptr, Sub
<1>2. Aligned'
  BY <1>1, Zenon DEF IndInv, Aligned
<1>3. \A s \in Slots : Occupied(s)' = Occupied(s)
  BY <1>1, Zenon DEF Occupied, Behind
<1>4. \A s \in Slots : Filling(s)' = Filling(s) /\ Emptying(s)' = Emptying(s)
  BY Zenon DEF Filling, Emptying, slot_ptr
<1>5. Storage'
  BY <1>3, <1>4, Zenon DEF IndInv, Storage, Filling, Emptying
<1>6. ASSUME pc'["producer"] = "construct" => pc["producer"] = "construct",
             pc'["consumer"] = "move" => pc["consumer"] = "move"
      PROVE  Window' /\ (UNCHANGED <<released, view>> => Knowledge')
  BY <1>1, <1>6, Zenon DEF IndInv, Window, Knowledge, Sub
<1> QED BY <1>2, <1>5, <1>6, Zenon

--------------------------------------------------------------------------------
(* The steps of emplace. *)

\* One lemma per action.  The call of emplace keeps the invariant.
LEMMA EmplaceCallStep ==
    ASSUME IndInv, NEW v \in Values, EmplaceCall(v)
    PROVE  Rest'
<1>0. TypeOK /\ life = "alive" /\ Front' = Front
  BY Zenon DEF IndInv, TypeOK, Front, Lifetime, Threads, EmplaceCall, Goto
<1>1. OwnCounters' /\ Lifetime'
  BY <1>0, Zenon DEF IndInv, TypeOK, Threads, OwnCounters, Lifetime, Emplacing, Popping, EmplaceCall, Goto
<1>2. Window' /\ Aligned' /\ Storage' /\ Knowledge'
  BY <1>0, RingKept, Zenon DEF TypeOK, Threads, EmplaceCall, Goto
<1> QED BY <1>1, <1>2, Zenon DEF Rest

\* EmplaceCheck keeps the parts of the invariant that it can disturb.
LEMMA EmplaceCheckStep ==
    ASSUME IndInv, EmplaceCheck
    PROVE  Rest'
<1>0. TypeOK /\ life = "alive" /\ head["producer"] = m_head /\ Front = m_tail /\ Front' = m_tail
  BY Zenon DEF IndInv, TypeOK, OwnCounters, Emplacing, Lifetime, Front, Threads, EmplaceCheck, Goto, Return
<1>1. OwnCounters' /\ Lifetime'
  BY <1>0, Zenon DEF IndInv, TypeOK, Threads, OwnCounters, Lifetime, Emplacing, Popping, EmplaceCheck, Goto,
     Return
<1>a. /\ pc'["consumer"] = pc["consumer"]
      /\ pc'["producer"] \in {"construct", "publish"} => ~IsFull(m_head, m_tail)
      /\ view'["producer"] = released["consumer"] /\ view'["consumer"] = view["consumer"]
  BY <1>0, Zenon DEF TypeOK, Threads, EmplaceCheck, Goto, Return
<1>b. Sub(m_head, Front)' = Sub(m_head, Front) /\ Sub(m_head, m_tail) \in 0 .. Capacity
  BY <1>0, EndsOfWindow, Zenon DEF Sub, EmplaceCheck, Goto, Return
<1>2. Window' /\ Aligned'
  <2>1. Window'
    BY <1>0, <1>a, <1>b DEF IndInv, Window, IsFull, EmplaceCheck, Goto, Return
  <2>2. slot_ptr(m_head)' = slot_ptr(m_head) /\ slot_ptr(Front)' = slot_ptr(Front)
    BY <1>0, Zenon DEF slot_ptr, EmplaceCheck, Goto, Return
  <2> QED BY <1>b, <2>1, <2>2, Zenon DEF IndInv, Aligned
<1>3. Knowledge'
  <2>1. released["consumer"] = m_tail /\ UNCHANGED <<m_head, m_tail, released>>
    BY Zenon DEF IndInv, Knowledge, EmplaceCheck, Goto, Return
  <2>2. pc'["producer"] \in {"construct", "publish"} => Sub(m_head, m_tail) < Capacity
    BY <1>a, <1>b DEF IsFull
  <2> QED BY <1>a, <2>1, <2>2, Zenon DEF IndInv, Knowledge, Sub
<1>4. Storage'
  BY <1>0, RingKept, Zenon DEF TypeOK, Threads, EmplaceCheck, Goto, Return
<1> QED BY <1>1, <1>2, <1>3, <1>4, Zenon DEF Rest

\* EmplaceConstruct keeps the parts of the invariant that it can disturb.
LEMMA EmplaceConstructStep ==
    ASSUME IndInv, EmplaceConstruct
    PROVE  Rest'
<1>0. TypeOK /\ life = "alive" /\ Front' = Front /\ head["producer"] = m_head
  BY Zenon DEF IndInv, TypeOK, OwnCounters, Emplacing, Lifetime, Front, Threads, EmplaceConstruct, Goto
<1>1. OwnCounters' /\ Lifetime' /\ Knowledge'
  BY <1>0, Zenon DEF IndInv, TypeOK, Threads, OwnCounters, Lifetime, Knowledge, Emplacing, Popping, Sub,
     EmplaceConstruct, Goto
<1>2. Window' /\ Aligned'
  BY <1>0, Zenon DEF IndInv, TypeOK, Threads, Window, Aligned, Sub, slot_ptr, EmplaceConstruct, Goto
<1>3. Storage'
  <2>1. ~Occupied(slot_ptr(m_head)) /\ slot_ptr(m_head) \in Slots
    BY <1>0, EndsOfWindow, Zenon DEF IndInv, Window, EmplaceConstruct, Goto
  <2>2. \A s \in Slots : /\ Occupied(s)' = Occupied(s)
                         /\ Emptying(s)' = Emptying(s)
                         /\ Filling(s)' <=> s = slot_ptr(m_head)
                         /\ ~Filling(s)
    BY <1>0, Zenon DEF Occupied, Emptying, Filling, slot_ptr, Sub, Behind, TypeOK, Threads,
       EmplaceConstruct, Goto
  <2>3. \A s \in Slots : Emptying(s) => s # slot_ptr(m_head)
    <3>1. ASSUME pc["consumer"] \in {"destroy", "release"} PROVE Occupied(slot_ptr(tail["consumer"]))
      BY <1>0, <3>1, EndsOfWindow, Zenon DEF IndInv, OwnCounters, Popping, Window, Front
    <3> QED BY <3>1, <2>1, Zenon DEF Emptying
  <2> QED BY <1>0, <2>1, <2>2, <2>3 DEF IndInv, Storage, TypeOK, EmplaceConstruct, Goto
<1> QED BY <1>1, <1>2, <1>3, Zenon DEF Rest

\* EmplaceThrow keeps the parts of the invariant that it can disturb.
LEMMA EmplaceThrowStep ==
    ASSUME IndInv, EmplaceThrow
    PROVE  Rest'
<1>0. TypeOK /\ life = "alive" /\ Front' = Front
  BY Zenon DEF IndInv, TypeOK, Front, Lifetime, Threads, EmplaceThrow, Goto, Return
<1>1. OwnCounters' /\ Lifetime'
  BY <1>0, Zenon DEF IndInv, TypeOK, Threads, OwnCounters, Lifetime, Emplacing, Popping, EmplaceThrow, Goto,
     Return
<1>2. Window' /\ Aligned' /\ Storage' /\ Knowledge'
  BY <1>0, RingKept, Zenon DEF TypeOK, Threads, EmplaceThrow, Goto, Return
<1> QED BY <1>1, <1>2, Zenon DEF Rest

\* EmplacePublish keeps the parts of the invariant that it can disturb.
LEMMA EmplacePublishStep ==
    ASSUME IndInv, EmplacePublish
    PROVE  Rest'
<1>0. /\ TypeOK /\ life = "alive" /\ Front' = Front /\ head["producer"] = m_head
      /\ Front \in Counter /\ m_head \in Counter /\ m_head' = Inc(m_head)
      /\ Sub(m_head, Front) \in 0 .. Capacity - 1
      /\ Sub(m_head, Front)' = Sub(m_head, Front) + 1
  <2>1. TypeOK /\ life = "alive" /\ Front' = Front /\ head["producer"] = m_head
    BY Zenon DEF IndInv, TypeOK, OwnCounters, Emplacing, Lifetime, Front, Threads, EmplacePublish, Return,
       Goto
  <2>2. Front \in Counter /\ m_head \in Counter /\ m_head' = Inc(m_head)
    BY <2>1, EndsOfWindow, Zenon DEF TypeOK, EmplacePublish, Return, Goto
  <2>3. Sub(m_head, Front) \in 0 .. Capacity - 1
    BY <2>1, EndsOfWindow DEF IndInv, Window, EmplacePublish, Return, Goto
  <2>4. Sub(Inc(m_head), Front) = Sub(m_head, Front) + 1
    BY <2>2, <2>3, CounterArithmetic
  <2>5. Sub(m_head, Front)' = Sub(Inc(m_head), Front)
    BY <2>1, <2>2, Zenon DEF Sub
  <2> QED BY <2>1, <2>2, <2>3, <2>4, <2>5, Zenon
<1>1. OwnCounters' /\ Lifetime'
  BY <1>0, Zenon DEF IndInv, TypeOK, Threads, OwnCounters, Lifetime, Emplacing, Popping, EmplacePublish,
     Return, Goto
<1>2. Knowledge'
  BY <1>0, Zenon DEF IndInv, TypeOK, Threads, Knowledge, Sub, EmplacePublish, Return, Goto
<1>3. Window'
  <2>1. m_head' # m_tail'
    BY <1>0, CounterArithmetic DEF Front, EmplacePublish, Return, Goto
  <2> QED BY <1>0, <2>1 DEF Window, TypeOK, Threads, EmplacePublish, Return, Goto
<1>4. Aligned'
  <2>1. slot_ptr(m_head)' = slot_ptr(Inc(m_head)) /\ slot_ptr(Front)' = slot_ptr(Front)
    BY <1>0, Zenon DEF slot_ptr
  <2> QED BY <1>0, <2>1, SlotOfInc DEF IndInv, Aligned, Slots
<1>5. Storage'
  <2>1. slot_ptr(m_head) \in Slots /\ slot_ptr(Front) \in Slots
    BY <1>0, SlotOfInc, Zenon
  <2>2. \A s \in Slots : Occupied(s)' <=> Occupied(s) \/ s = slot_ptr(m_head)
    BY <1>0, <2>1 DEF IndInv, Aligned, Occupied, Behind, Slots, slot_ptr
  <2>3. \A s \in Slots : /\ Emptying(s)' = Emptying(s)
                         /\ ~Filling(s)'
                         /\ Filling(s) <=> s = slot_ptr(m_head)
    BY <1>0, Zenon DEF Emptying, Filling, slot_ptr, TypeOK, Threads, EmplacePublish, Return, Goto
  <2>4. arg \in Values
    BY <1>0, Zenon DEF TypeOK, EmplacePublish, Return, Goto
  <2> QED BY <1>0, <2>1, <2>2, <2>3, <2>4, Zenon DEF IndInv, Storage, TypeOK, Threads, EmplacePublish,
     Return, Goto
<1> QED BY <1>1, <1>2, <1>3, <1>4, <1>5, Zenon DEF Rest

--------------------------------------------------------------------------------
(* The steps of pop. *)

\* The call of pop keeps the invariant.
LEMMA PopCallStep ==
    ASSUME IndInv, PopCall
    PROVE  Rest'
<1>0. TypeOK /\ life = "alive" /\ Front' = Front
  BY Zenon DEF IndInv, TypeOK, Front, Lifetime, Threads, PopCall, Goto, Return
<1>1. OwnCounters' /\ Lifetime'
  BY <1>0, Zenon DEF IndInv, TypeOK, Threads, OwnCounters, Lifetime, Emplacing, Popping, PopCall, Goto, Return
<1>2. Window' /\ Aligned' /\ Storage' /\ Knowledge'
  BY <1>0, RingKept, Zenon DEF TypeOK, Threads, PopCall, Goto, Return
<1> QED BY <1>1, <1>2, Zenon DEF Rest

\* PopCheck keeps the parts of the invariant that it can disturb.
LEMMA PopCheckStep ==
    ASSUME IndInv, PopCheck
    PROVE  Rest'
<1>0. TypeOK /\ life = "alive" /\ tail["consumer"] = m_tail /\ Front = m_tail /\ Front' = m_tail
  BY Zenon DEF IndInv, TypeOK, OwnCounters, Popping, Lifetime, Front, Threads, PopCheck, Goto, Return
<1>1. OwnCounters' /\ Lifetime'
  BY <1>0, Zenon DEF IndInv, TypeOK, Threads, OwnCounters, Lifetime, Emplacing, Popping, PopCheck, Goto, Return
<1>2. Window' /\ Aligned'
  BY <1>0, EndsOfWindow, Zenon DEF IndInv, TypeOK, Threads, Window, Aligned, Sub, slot_ptr, PopCheck, Goto,
     Return
<1>3. Knowledge'
  <2>1. /\ pc'["producer"] = pc["producer"]
        /\ pc'["consumer"] \in {"move", "destroy", "release"} => m_head # m_tail
        /\ view'["consumer"] = released["producer"] /\ view'["producer"] = view["producer"]
    BY <1>0, Zenon DEF TypeOK, Threads, PopCheck, Goto, Return
  <2>2. released["producer"] = m_head /\ UNCHANGED <<m_head, m_tail, released>>
    BY Zenon DEF IndInv, Knowledge, PopCheck, Goto, Return
  <2>3. m_head # m_tail => Sub(m_head, m_tail) \in 1 .. Capacity
    BY <1>0, EndsOfWindow
  <2> QED BY <2>1, <2>2, <2>3, Zenon DEF IndInv, Knowledge, Sub
<1>4. Storage'
  BY <1>0, RingKept, Zenon DEF TypeOK, Threads, PopCheck, Goto, Return
<1> QED BY <1>1, <1>2, <1>3, <1>4, Zenon DEF Rest

\* PopMove keeps the parts of the invariant that it can disturb.
LEMMA PopMoveStep ==
    ASSUME IndInv, PopMove
    PROVE  Rest'
<1>0. TypeOK /\ life = "alive" /\ tail["consumer"] = m_tail /\ Front = m_tail /\ Front' = m_tail
  BY Zenon DEF IndInv, TypeOK, OwnCounters, Popping, Lifetime, Front, Threads, PopMove, Goto
<1>1. OwnCounters' /\ Lifetime' /\ Knowledge'
  BY <1>0, Zenon DEF IndInv, TypeOK, Threads, OwnCounters, Lifetime, Knowledge, Emplacing, Popping, Sub,
     PopMove, Goto
<1>2. Window' /\ Aligned'
  BY <1>0, Zenon DEF IndInv, TypeOK, Threads, Window, Aligned, Sub, slot_ptr, PopMove, Goto
<1>3. Storage'
  <2>1. Occupied(slot_ptr(m_tail)) /\ slot_ptr(m_tail) \in Slots
    BY <1>0, EndsOfWindow, Zenon DEF IndInv, Window, PopMove, Goto
  <2>2. \A s \in Slots : /\ Occupied(s)' = Occupied(s)
                         /\ Filling(s)' = Filling(s)
                         /\ Emptying(s)' <=> s = slot_ptr(m_tail)
                         /\ Emptying(s) => s = slot_ptr(m_tail)
    BY <1>0, Zenon DEF Occupied, Emptying, Filling, slot_ptr, Sub, Behind, TypeOK, Threads, PopMove, Goto
  <2>3. \A s \in Slots : Filling(s) => s # slot_ptr(m_tail)
    <3>1. ASSUME pc["producer"] = "publish" PROVE ~Occupied(slot_ptr(head["producer"]))
      BY <1>0, <3>1, EndsOfWindow, Zenon DEF IndInv, OwnCounters, Emplacing, Window
    <3> QED BY <3>1, <2>1, Zenon DEF Filling
  <2>4. m_storage' = [m_storage EXCEPT ![slot_ptr(m_tail)] = MovedFrom] /\ pc'["consumer"] = "destroy"
    BY <1>0, Zenon DEF TypeOK, Threads, PopMove, Goto
  <2> QED BY <1>0, <2>1, <2>2, <2>3, <2>4, ZenonT(40) DEF IndInv, Storage, TypeOK, PopMove, Goto
<1> QED BY <1>1, <1>2, <1>3, Zenon DEF Rest

\* PopThrow keeps the parts of the invariant that it can disturb.
LEMMA PopThrowStep ==
    ASSUME IndInv, PopThrow
    PROVE  Rest'
<1>0. TypeOK /\ life = "alive" /\ Front' = Front
  BY Zenon DEF IndInv, TypeOK, Front, Lifetime, Threads, PopThrow, Goto, Return
<1>1. OwnCounters' /\ Lifetime'
  BY <1>0, Zenon DEF IndInv, TypeOK, Threads, OwnCounters, Lifetime, Emplacing, Popping, PopThrow, Goto, Return
<1>2. Window' /\ Aligned' /\ Storage' /\ Knowledge'
  BY <1>0, RingKept, Zenon DEF TypeOK, Threads, PopThrow, Goto, Return
<1> QED BY <1>1, <1>2, Zenon DEF Rest

\* PopDestroy keeps the parts of the invariant that it can disturb.
LEMMA PopDestroyStep ==
    ASSUME IndInv, PopDestroy
    PROVE  Rest'
<1>0. TypeOK /\ life = "alive" /\ tail["consumer"] = m_tail /\ Front = m_tail /\ Front' = m_tail
  BY Zenon DEF IndInv, TypeOK, OwnCounters, Popping, Lifetime, Front, Threads, PopDestroy, Goto
<1>1. OwnCounters' /\ Lifetime' /\ Knowledge'
  BY <1>0, Zenon DEF IndInv, TypeOK, Threads, OwnCounters, Lifetime, Knowledge, Emplacing, Popping, Sub,
     PopDestroy, Goto
<1>2. Window' /\ Aligned'
  BY <1>0, Zenon DEF IndInv, TypeOK, Threads, Window, Aligned, Sub, slot_ptr, PopDestroy, Goto
<1>3. Storage'
  <2>1. Occupied(slot_ptr(m_tail)) /\ slot_ptr(m_tail) \in Slots
    BY <1>0, EndsOfWindow, Zenon DEF IndInv, Window, PopDestroy, Goto
  <2>2. \A s \in Slots : /\ Occupied(s)' = Occupied(s)
                         /\ Filling(s)' = Filling(s)
                         /\ Emptying(s)' <=> s = slot_ptr(m_tail)
                         /\ Emptying(s) => s = slot_ptr(m_tail)
    BY <1>0, Zenon DEF Occupied, Emptying, Filling, slot_ptr, Sub, Behind, TypeOK, Threads, PopDestroy, Goto
  <2>3. \A s \in Slots : Filling(s) => s # slot_ptr(m_tail)
    <3>1. ASSUME pc["producer"] = "publish" PROVE ~Occupied(slot_ptr(head["producer"]))
      BY <1>0, <3>1, EndsOfWindow, Zenon DEF IndInv, OwnCounters, Emplacing, Window
    <3> QED BY <3>1, <2>1, Zenon DEF Filling
  <2>4. m_storage' = [m_storage EXCEPT ![slot_ptr(m_tail)] = Raw] /\ pc'["consumer"] = "release"
    BY <1>0, Zenon DEF TypeOK, Threads, PopDestroy, Goto
  <2> QED BY <1>0, <2>1, <2>2, <2>3, <2>4 DEF IndInv, Storage, TypeOK, PopDestroy, Goto
<1> QED BY <1>1, <1>2, <1>3, Zenon DEF Rest

\* PopRelease keeps the parts of the invariant that it can disturb.
LEMMA PopReleaseStep ==
    ASSUME IndInv, PopRelease
    PROVE  Rest'
<1>0. /\ TypeOK /\ life = "alive" /\ tail["consumer"] = m_tail /\ Front = m_tail
      /\ m_tail \in Counter /\ m_head \in Counter /\ m_tail' = Inc(m_tail) /\ Front' = Inc(m_tail)
      /\ Sub(m_head, Front) \in 1 .. Capacity
      /\ Sub(m_head, Front)' = Sub(m_head, Front) - 1
  <2>1. TypeOK /\ life = "alive" /\ tail["consumer"] = m_tail /\ Front = m_tail
    BY Zenon DEF IndInv, TypeOK, OwnCounters, Popping, Lifetime, Front, Threads, PopRelease, Return, Goto
  <2>2. m_tail \in Counter /\ m_head \in Counter /\ m_tail' = Inc(m_tail) /\ Front' = Inc(m_tail)
    BY <2>1, Zenon DEF TypeOK, Front, PopRelease, Return, Goto
  <2>3. m_head # m_tail
    BY <2>1, Zenon DEF IndInv, Window, PopRelease, Return, Goto
  <2>4. Sub(m_head, Front) \in 1 .. Capacity
    BY <2>1, <2>3, EndsOfWindow
  <2>5. Sub(m_head, Inc(m_tail)) = Sub(m_head, m_tail) - 1
    BY <2>2, <2>3, CounterArithmetic
  <2>6. Sub(m_head, Front)' = Sub(m_head, Inc(m_tail))
    BY <2>2, Zenon DEF Sub, PopRelease, Return, Goto
  <2> QED BY <2>1, <2>2, <2>4, <2>5, <2>6, Zenon
<1>1. OwnCounters' /\ Lifetime'
  BY <1>0, Zenon DEF IndInv, TypeOK, Threads, OwnCounters, Lifetime, Emplacing, Popping, PopRelease, Return,
     Goto
<1>2. Knowledge'
  <2>1. /\ pc'["consumer"] = "idle" /\ pc'["producer"] = pc["producer"] /\ UNCHANGED <<m_head, view>>
        /\ released'["consumer"] = Inc(m_tail) /\ released'["producer"] = released["producer"]
        /\ m_tail' = Inc(m_tail)
    BY <1>0, Zenon DEF TypeOK, Threads, PopRelease, Return, Goto
  <2> QED BY <2>1, Zenon DEF IndInv, Knowledge, Sub
<1>3. Window'
  <2>1. pc'["consumer"] = "idle" /\ pc'["producer"] = pc["producer"]
    BY <1>0, Zenon DEF TypeOK, Threads, PopRelease, Return, Goto
  <2> QED BY <1>0, <2>1 DEF IndInv, Window
<1>4. Aligned'
  <2>1. slot_ptr(m_head)' = slot_ptr(m_head) /\ slot_ptr(Front)' = slot_ptr(Inc(m_tail))
    BY <1>0, Zenon DEF slot_ptr, PopRelease, Return, Goto
  <2> QED BY <1>0, <2>1, SlotOfInc DEF IndInv, Aligned, Slots
<1>5. Storage'
  <2>1. slot_ptr(m_head) \in Slots /\ slot_ptr(m_tail) \in Slots
    BY <1>0, SlotOfInc, Zenon
  <2>2. slot_ptr(Front)' = IF slot_ptr(m_tail) = Capacity - 1 THEN 0 ELSE slot_ptr(m_tail) + 1
    BY <1>0, SlotOfInc, Zenon DEF slot_ptr
  <2>3. \A s \in Slots : Occupied(s)' <=> Occupied(s) /\ s # slot_ptr(m_tail)
    BY <1>0, <2>1, <2>2 DEF Occupied, Behind, Slots
  <2>4. \A s \in Slots : /\ Filling(s)' = Filling(s)
                         /\ ~Emptying(s)'
                         /\ Emptying(s) <=> s = slot_ptr(m_tail)
    BY <1>0, Zenon DEF Emptying, Filling, slot_ptr, TypeOK, Threads, PopRelease, Return, Goto
  <2>5. \A s \in Slots : Filling(s) => s # slot_ptr(m_tail)
    <3>1. ASSUME pc["producer"] = "publish" PROVE ~Occupied(slot_ptr(head["producer"]))
      BY <1>0, <3>1, EndsOfWindow, Zenon DEF IndInv, OwnCounters, Emplacing, Window
    <3>2. Occupied(slot_ptr(m_tail))
      BY <1>0, EndsOfWindow
    <3> QED BY <3>1, <3>2, Zenon DEF Filling
  <2> QED BY ZenonT(40), <1>0, <2>1, <2>3, <2>4, <2>5 DEF IndInv, Storage, TypeOK, Threads,
     PopRelease, Return, Goto
<1> QED BY <1>1, <1>2, <1>3, <1>4, <1>5, Zenon DEF Rest

\* The observers:

\* ObserveFirst keeps the parts of the invariant that it can disturb.
LEMMA ObserveFirstStep ==
    ASSUME IndInv, NEW t \in Threads, NEW op \in Observers, ObserveFirst(t, op)
    PROVE  Rest'
<1>0. TypeOK /\ life = "alive" /\ Front' = Front
  BY Zenon DEF IndInv, TypeOK, Front, Lifetime, Threads, Observers, ObserveFirst, Goto, Return
<1>1. OwnCounters' /\ Lifetime'
  BY <1>0, Zenon DEF IndInv, TypeOK, Threads, Observers, OwnCounters, Lifetime, Emplacing, Popping,
     ObserveFirst, Goto, Return
<1>2. Window' /\ Aligned' /\ Storage' /\ Knowledge'
  BY <1>0, RingKept, Zenon DEF TypeOK, Threads, Observers, ObserveFirst, Goto, Return
<1> QED BY <1>1, <1>2, Zenon DEF Rest

\* ObserveSecond keeps the parts of the invariant that it can disturb.
LEMMA ObserveSecondStep ==
    ASSUME IndInv, NEW t \in Threads, NEW op \in Observers, ObserveSecond(t, op)
    PROVE  Rest'
<1>0. TypeOK /\ life = "alive" /\ Front' = Front
  BY Zenon DEF IndInv, TypeOK, Front, Lifetime, Threads, Observers, ObserveSecond, Goto, Return
<1>1. OwnCounters' /\ Lifetime'
  BY <1>0, Zenon DEF IndInv, TypeOK, Threads, Observers, OwnCounters, Lifetime, Emplacing, Popping,
     ObserveSecond, Goto, Return
<1>2. Window' /\ Aligned' /\ Storage' /\ Knowledge'
  BY <1>0, RingKept, ZenonT(40) DEF TypeOK, Threads, Observers, ObserveSecond, Goto, Return
<1> QED BY <1>1, <1>2, Zenon DEF Rest

\* The destructor:

\* DestroyBegin keeps the parts of the invariant that it can disturb.
LEMMA DestroyBeginStep ==
    ASSUME IndInv, DestroyBegin
    PROVE  Rest'
<1>0. TypeOK /\ life = "alive" /\ Front' = Front
  BY Zenon DEF IndInv, TypeOK, Front, Lifetime, Threads, DestroyBegin
<1>1. OwnCounters' /\ Lifetime'
  BY <1>0, Zenon DEF IndInv, TypeOK, Threads, OwnCounters, Lifetime, Emplacing, Popping, DestroyBegin
<1>2. Window' /\ Aligned' /\ Storage' /\ Knowledge'
  BY <1>0, RingKept, Zenon DEF TypeOK, Threads, DestroyBegin
<1> QED BY <1>1, <1>2, Zenon DEF Rest

\* DestroyElement keeps the parts of the invariant that it can disturb.
LEMMA DestroyElementStep ==
    ASSUME IndInv, DestroyElement
    PROVE  Rest'
<1> DEFINE t == tail["consumer"]
<1>0. /\ TypeOK /\ Front = t /\ t \in Counter /\ m_head \in Counter
      /\ t' = Inc(t) /\ Front' = Inc(t) /\ UNCHANGED <<m_head, pc>>
      /\ pc["producer"] = "idle" /\ pc["consumer"] = "idle"
      /\ Sub(m_head, t) \in 1 .. Capacity
      /\ Sub(m_head, Front)' = Sub(m_head, t) - 1
  <2>1. TypeOK /\ Front = t /\ t \in Counter /\ m_head \in Counter
    BY Zenon DEF IndInv, TypeOK, Front, Threads, DestroyElement
  <2>2. t' = Inc(t) /\ Front' = Inc(t) /\ UNCHANGED <<m_head, pc>>
    BY <2>1, Zenon DEF TypeOK, Threads, Front, DestroyElement
  <2>3. pc["producer"] = "idle" /\ pc["consumer"] = "idle" /\ m_head # t
    BY Zenon DEF IndInv, Lifetime, DestroyElement
  <2>4. Sub(m_head, t) \in 1 .. Capacity
    BY <2>1, <2>3, EndsOfWindow
  <2>5. Sub(m_head, Inc(t)) = Sub(m_head, t) - 1
    BY <2>1, <2>3, CounterArithmetic
  <2>6. Sub(m_head, Front)' = Sub(m_head, Inc(t))
    BY <2>2, Zenon DEF Sub
  <2> QED BY <2>1, <2>2, <2>3, <2>4, <2>5, <2>6, Zenon
<1> HIDE DEF t
<1>1. OwnCounters' /\ Lifetime'
  BY <1>0, Zenon DEF IndInv, OwnCounters, Lifetime, Emplacing, Popping, DestroyElement
<1>2. Knowledge'
  BY <1>0, Zenon DEF IndInv, Knowledge, Sub, DestroyElement
<1>3. Window'
  <2>1. pc'["producer"] = "idle" /\ pc'["consumer"] = "idle"
    BY <1>0, Zenon
  <2>2. Sub(m_head, Front)' <= Capacity
    BY <1>0
  <2> QED BY <2>1, <2>2, Zenon DEF Window
<1>4. Aligned'
  <2>1. slot_ptr(m_head)' = slot_ptr(m_head) /\ slot_ptr(Front)' = slot_ptr(Inc(t))
    BY <1>0, Zenon DEF slot_ptr
  <2> QED BY <1>0, <2>1, SlotOfInc DEF IndInv, Aligned, Slots
<1>5. Storage'
  <2>1. slot_ptr(m_head) \in Slots /\ slot_ptr(t) \in Slots
    BY <1>0, SlotOfInc, Zenon
  <2>2. slot_ptr(Front)' = IF slot_ptr(t) = Capacity - 1 THEN 0 ELSE slot_ptr(t) + 1
    BY <1>0, SlotOfInc, Zenon DEF slot_ptr
  <2>3. \A s \in Slots : Occupied(s)' <=> Occupied(s) /\ s # slot_ptr(t)
    <3>1. Front = t /\ Sub(m_head, t) \in 1 .. Capacity /\ Sub(m_head, Front)' = Sub(m_head, t) - 1
      BY <1>0, Zenon
    <3> QED BY <3>1, <2>1, <2>2 DEF Occupied, Behind, Slots
  <2>4. \A s \in Slots : ~Filling(s) /\ ~Filling(s)' /\ ~Emptying(s) /\ ~Emptying(s)'
    BY <1>0, Zenon DEF Emptying, Filling
  <2> QED BY <1>0, <2>1, <2>3, <2>4, Zenon DEF IndInv, Storage, TypeOK, t, DestroyElement
<1> QED BY <1>1, <1>2, <1>3, <1>4, <1>5, Zenon DEF Rest

\* DestroyEnd keeps the parts of the invariant that it can disturb.
LEMMA DestroyEndStep ==
    ASSUME IndInv, DestroyEnd
    PROVE  Rest'
<1>0. TypeOK /\ Front' = Front
  BY Zenon DEF IndInv, TypeOK, Front, Lifetime, Threads, DestroyEnd
<1>1. OwnCounters' /\ Lifetime'
  BY <1>0, Zenon DEF IndInv, TypeOK, Threads, OwnCounters, Lifetime, Emplacing, Popping, DestroyEnd
<1>2. Window' /\ Aligned' /\ Storage' /\ Knowledge'
  BY <1>0, RingKept, Zenon DEF TypeOK, Threads, DestroyEnd
<1> QED BY <1>1, <1>2, Zenon DEF Rest

\* A stuttering step changes nothing.
LEMMA StutterStep ==
    ASSUME IndInv, UNCHANGED vars
    PROVE  Rest'
  BY ZenonT(40) DEF vars, IndInv, Rest, OwnCounters, Window, Aligned, Storage, Lifetime, Knowledge,
     Front,
         Occupied, Filling, Emptying, slot_ptr, Sub, Behind

\* Every step of either thread, of an observer and of the destructor preserves the invariant.
LEMMA NextInv == IndInv /\ [Next]_vars => IndInv'
<1> SUFFICES ASSUME IndInv, [Next]_vars PROVE IndInv'
  OBVIOUS
<1>1. TypeOK'
  BY TypeStep, Zenon
<1>2. Rest'
  BY EmplaceCallStep, EmplaceCheckStep, EmplaceConstructStep, EmplaceThrowStep, EmplacePublishStep,
     PopCallStep, PopCheckStep, PopMoveStep, PopThrowStep, PopDestroyStep, PopReleaseStep,
     ObserveFirstStep, ObserveSecondStep, DestroyBeginStep, DestroyElementStep, DestroyEndStep,
     StutterStep, Zenon
  DEF Next, ProducerStep, ConsumerStep
<1> QED BY <1>1, <1>2, Zenon DEF Rest, IndInv

--------------------------------------------------------------------------------
(* Safety. *)

\* The inductive invariant holds in every behaviour of the queue.
THEOREM Invariance == Spec => []IndInv
  BY InitInv, NextInv, PTL DEF Spec

\* Types are kept: in particular pop never hands out raw bytes, and counters stay in range.
THEOREM TypeCorrect == Spec => []TypeOK
<1>1. IndInv => TypeOK
  BY Zenon DEF IndInv
<1> QED BY <1>1, Invariance, PTL

\* The acquire and release orders of emplace and pop suffice: no two accesses of a slot race.
THEOREM NoDataRace == Spec => []RaceFree
<1>1. IndInv => RaceFree
  BY Zenon DEF IndInv, RaceFree, Knowledge, OwnCounters, Emplacing, Popping
<1> QED BY <1>1, Invariance, PTL

\* Elements are constructed in raw bytes, moved and destroyed once, and none outlives the queue.
THEOREM LifetimesKept == Spec => []ElementLifetimes
<1>1. IndInv => ElementLifetimes
  <2> SUFFICES ASSUME IndInv PROVE ElementLifetimes
    OBVIOUS
  <2>1. pc["producer"] = "construct" => m_storage[slot_ptr(head["producer"])] = Raw
    BY EndsOfWindow, Zenon DEF IndInv, OwnCounters, Emplacing, Window, Storage, Filling
  <2>2. pc["consumer"] = "move" => m_storage[slot_ptr(tail["consumer"])] \in Values
    BY OldestIsElement, Zenon
  <2>3. ASSUME life = "draining", tail["consumer"] # head["consumer"]
        PROVE  m_storage[slot_ptr(tail["consumer"])] \in Values
    BY <2>3, EndsOfWindow, Zenon DEF IndInv, Lifetime, Storage, Emptying, Front
  <2>4. ASSUME life = "dead", NEW s \in Slots
        PROVE  m_storage[s] = Raw
    <3>1. Sub(m_head, Front) = 0 /\ slot_ptr(Front) \in Slots
      BY <2>4, EndsOfWindow, Zenon DEF IndInv, Lifetime, Front
    <3>2. ~Occupied(s)
      BY <3>1 DEF Occupied, Behind, Slots
    <3> QED BY <2>4, <3>2, Zenon DEF IndInv, Lifetime, Storage, Filling
  <2> QED BY <2>1, <2>2, <2>3, <2>4, Zenon DEF ElementLifetimes
<1> QED BY <1>1, Invariance, PTL

--------------------------------------------------------------------------------
(* The observers. *)

(* A thread's own counter is as it loaded it; the other thread's has since    *)
(* moved, if at all, in the direction that makes room for the producer and    *)
(* elements for the consumer.                                                 *)
ProducerSaw ==
    /\ pc["producer"] \in {"full", "size"} \/ seen["producer"] # "none" => head["producer"] = m_head
    /\ pc["producer"] = "empty" \/ seen["producer"] # "none" =>
          Sub(m_head, tail["producer"]) \in Sub(m_head, m_tail) .. Capacity

ConsumerSaw ==
    /\ pc["consumer"] = "empty" \/ (seen["consumer"] # "none" /\ life = "alive") =>
          tail["consumer"] = m_tail
    /\ pc["consumer"] \in {"full", "size"} \/ (seen["consumer"] # "none" /\ life = "alive") =>
          Sub(head["consumer"], m_tail) <= Sub(m_head, m_tail)

\* While the queue is alive m_head - m_tail is at most the capacity; emplace and pop move it by one.
LEMMA LiveWindow ==
    ASSUME IndInv, life = "alive"
    PROVE  /\ Sub(m_head, m_tail) \in 0 .. Capacity
           /\ pc["producer"] = "publish" => Sub(Inc(m_head), m_tail) = Sub(m_head, m_tail) + 1
           /\ pc["consumer"] = "release" => Sub(m_head, Inc(m_tail)) = Sub(m_head, m_tail) - 1
<1>1. Front = m_tail /\ m_head \in Counter /\ m_tail \in Counter
  BY Zenon DEF Front, IndInv, TypeOK
<1>2. Sub(m_head, m_tail) \in 0 .. Capacity
  BY <1>1, EndsOfWindow, Zenon
<1> QED BY <1>1, <1>2, CounterArithmetic DEF IndInv, Window

\* The counters and their differences are numbers from 0.
LEMMA Differences ==
    ASSUME IndInv
    PROVE  /\ m_head \in Counter /\ m_tail \in Counter
           /\ head["consumer"] \in Counter /\ tail["producer"] \in Counter
           /\ Sub(m_head, m_tail) \in Nat /\ Sub(m_head, tail["producer"]) \in Nat
           /\ Sub(head["consumer"], m_tail) \in Nat
<1>1. /\ m_head \in Counter /\ m_tail \in Counter
      /\ head["consumer"] \in Counter /\ tail["producer"] \in Counter
  BY Zenon DEF IndInv, TypeOK, Threads
<1>2. /\ Sub(m_head, m_tail) \in Counter /\ Sub(m_head, tail["producer"]) \in Counter
      /\ Sub(head["consumer"], m_tail) \in Counter
  BY ZenonT(40), <1>1, CounterArithmetic
<1>3. \A n \in Counter : n \in Nat
  BY DEF Counter
<1> QED BY <1>1, <1>2, <1>3, Zenon

\* What the producer saw stays good in every step.
LEMMA ProducerSawStep == IndInv /\ ProducerSaw /\ [Next]_vars => ProducerSaw'
<1> SUFFICES ASSUME IndInv, ProducerSaw, [Next]_vars PROVE ProducerSaw'
  OBVIOUS
<1> USE DEF Goto, Return
<1>0. TypeOK /\ Threads = {"producer", "consumer"}
  BY Zenon DEF IndInv, Threads
<1>1. ASSUME NEW v \in Values, EmplaceCall(v) PROVE ProducerSaw'
  BY <1>0, <1>1, Zenon DEF EmplaceCall, TypeOK, ProducerSaw, Sub
<1>2. CASE EmplaceCheck
  <2>1. life = "alive" /\ head["producer"] = m_head
    BY <1>0, <1>2, Zenon DEF IndInv, Lifetime, OwnCounters, Emplacing, EmplaceCheck
  <2>2. Sub(m_head, m_tail) \in 0 .. Capacity
    BY <2>1, LiveWindow, Zenon
  <2>3. tail'["producer"] = m_tail /\ UNCHANGED <<m_head, m_tail, head>> /\ pc'["producer"] \in {"idle", "construct"}
    BY <1>0, <1>2, Zenon DEF EmplaceCheck, TypeOK
  <2> QED BY <2>1, <2>2, <2>3 DEF ProducerSaw, Sub
<1>3. CASE EmplaceConstruct
  BY <1>0, <1>3, Zenon DEF EmplaceConstruct, TypeOK, ProducerSaw, Sub
<1>4. CASE EmplaceThrow
  BY <1>0, <1>4, Zenon DEF EmplaceThrow, TypeOK, ProducerSaw, Sub
<1>5. CASE EmplacePublish
  BY <1>0, <1>5, Zenon DEF EmplacePublish, TypeOK, ProducerSaw
<1>6. CASE PopRelease
  <2>1. life = "alive" /\ tail["consumer"] = m_tail /\ pc["consumer"] = "release"
    BY <1>0, <1>6, Zenon DEF IndInv, Lifetime, OwnCounters, Popping, PopRelease
  <2>2. /\ Sub(m_head, m_tail) \in 0 .. Capacity
        /\ Sub(m_head, m_tail)' = Sub(m_head, m_tail) - 1
    BY <2>1, <1>6, LiveWindow, Zenon DEF PopRelease, Sub
  <2>3. Sub(m_head, tail["producer"])' = Sub(m_head, tail["producer"])
    BY <1>6, Zenon DEF PopRelease, Sub
  <2>4. /\ pc'["producer"] = pc["producer"] /\ seen'["producer"] = seen["producer"]
        /\ UNCHANGED <<m_head, head>>
    BY <1>0, <1>6, Zenon DEF PopRelease, TypeOK
  <2> QED BY <2>2, <2>3, <2>4 DEF ProducerSaw
<1>7. ASSUME NEW op \in Observers, ObserveFirst("producer", op) PROVE ProducerSaw'
  <2>1. Sub(m_head, m_tail) \in 0 .. Capacity
    BY <1>7, LiveWindow, Zenon DEF ObserveFirst
  <2>2. /\ pc'["producer"] = op /\ seen'["producer"] = "none" /\ UNCHANGED <<m_head, m_tail>>
        /\ op = "empty" => tail'["producer"] = m_tail
        /\ op # "empty" => head'["producer"] = m_head
    BY <1>0, <1>7, Zenon DEF ObserveFirst, TypeOK
  <2> QED BY <2>1, <2>2 DEF ProducerSaw, Sub
<1>8. ASSUME NEW op \in Observers, ObserveSecond("producer", op) PROVE ProducerSaw'
  <2>1. life = "alive"
    BY <1>8, Zenon DEF IndInv, Lifetime, ObserveSecond, Observers
  <2>2. Sub(m_head, m_tail) \in 0 .. Capacity
    BY <2>1, LiveWindow, Zenon
  <2>3. /\ pc["producer"] = op /\ pc'["producer"] = "idle" /\ UNCHANGED <<m_head, m_tail>>
        /\ op = "empty" => head'["producer"] = m_head /\ tail'["producer"] = tail["producer"]
        /\ op # "empty" => tail'["producer"] = m_tail /\ head'["producer"] = head["producer"]
    BY <1>0, <1>8, Zenon DEF ObserveSecond, TypeOK
  <2> QED BY <2>2, <2>3 DEF ProducerSaw, Sub, Observers
<1>9. ASSUME /\ pc'["producer"] = pc["producer"] /\ seen'["producer"] = seen["producer"]
             /\ head'["producer"] = head["producer"] /\ tail'["producer"] = tail["producer"]
             /\ UNCHANGED <<m_head, m_tail>>
      PROVE  ProducerSaw'
  BY <1>9, Zenon DEF ProducerSaw, Sub
<1>10. CASE PopCall \/ PopCheck \/ PopMove \/ PopThrow \/ PopDestroy
  BY <1>0, <1>9, <1>10 DEF PopCall, PopCheck, PopMove, PopThrow, PopDestroy, TypeOK
<1>11. ASSUME NEW op \in Observers, ObserveFirst("consumer", op) \/ ObserveSecond("consumer", op)
       PROVE  ProducerSaw'
  BY <1>0, <1>9, <1>11 DEF ObserveFirst, ObserveSecond, TypeOK
<1>12. CASE DestroyBegin \/ DestroyElement \/ DestroyEnd \/ UNCHANGED vars
  BY <1>0, <1>9, <1>12, Zenon DEF DestroyBegin, DestroyElement, DestroyEnd, vars, TypeOK
<1> QED
  BY <1>0, <1>1, <1>2, <1>3, <1>4, <1>5, <1>6, <1>7, <1>8, <1>10, <1>11, <1>12, Zenon
  DEF Next, ProducerStep, ConsumerStep

\* What the consumer saw stays good in every step.
LEMMA ConsumerSawStep == IndInv /\ ConsumerSaw /\ [Next]_vars => ConsumerSaw'
<1> SUFFICES ASSUME IndInv, ConsumerSaw, [Next]_vars PROVE ConsumerSaw'
  OBVIOUS
<1> USE DEF Goto, Return
<1>0. TypeOK /\ Threads = {"producer", "consumer"} /\ Sub(m_head, m_tail) \in Int
  BY Differences DEF IndInv, Threads
<1>1. CASE PopCall
  BY <1>0, <1>1, Zenon DEF PopCall, TypeOK, ConsumerSaw, Sub
<1>2. CASE PopCheck
  <2>1. tail["consumer"] = m_tail
    BY <1>2, Zenon DEF IndInv, OwnCounters, Popping, PopCheck
  <2>2. head'["consumer"] = m_head /\ UNCHANGED <<m_head, m_tail, tail>> /\ pc'["consumer"] \in {"idle", "move"}
    BY <1>0, <1>2, Zenon DEF PopCheck, TypeOK
  <2> QED BY <1>0, <2>1, <2>2 DEF ConsumerSaw, Sub
<1>3. CASE PopMove \/ PopDestroy
  BY <1>0, <1>3 DEF PopMove, PopDestroy, TypeOK, ConsumerSaw, Sub
<1>4. CASE PopThrow \/ PopRelease
  BY <1>0, <1>4, Zenon DEF PopThrow, PopRelease, TypeOK, ConsumerSaw
<1>5. CASE EmplacePublish
  <2>1. life = "alive" /\ head["producer"] = m_head /\ pc["producer"] = "publish"
    BY <1>5, Zenon DEF IndInv, Lifetime, OwnCounters, Emplacing, EmplacePublish
  <2>2. Sub(m_head, m_tail)' = Sub(m_head, m_tail) + 1
    BY <2>1, <1>5, LiveWindow, Zenon DEF EmplacePublish, Sub
  <2>3. Sub(head["consumer"], m_tail)' = Sub(head["consumer"], m_tail) /\ Sub(head["consumer"], m_tail) \in Int
    <3>1. Sub(head["consumer"], m_tail)' = Sub(head["consumer"], m_tail)
      BY <1>5, Zenon DEF EmplacePublish, Sub
    <3> QED BY <3>1, Differences
  <2>4. /\ pc'["consumer"] = pc["consumer"] /\ seen'["consumer"] = seen["consumer"]
        /\ UNCHANGED <<m_tail, tail, life>>
    BY <1>0, <1>5, Zenon DEF EmplacePublish, TypeOK
  <2> QED BY <1>0, <2>2, <2>3, <2>4 DEF ConsumerSaw
<1>6. ASSUME NEW op \in Observers, ObserveFirst("consumer", op) PROVE ConsumerSaw'
  <2>1. /\ pc'["consumer"] = op /\ seen'["consumer"] = "none" /\ UNCHANGED <<m_head, m_tail>>
        /\ op = "empty" => tail'["consumer"] = m_tail
        /\ op # "empty" => head'["consumer"] = m_head
    BY <1>0, <1>6 DEF ObserveFirst, TypeOK
  <2> QED BY <1>0, <2>1 DEF ConsumerSaw, Sub
<1>7. ASSUME NEW op \in Observers, ObserveSecond("consumer", op) PROVE ConsumerSaw'
  <2>1. /\ pc["consumer"] = op /\ pc'["consumer"] = "idle" /\ UNCHANGED <<m_head, m_tail>>
        /\ op = "empty" => head'["consumer"] = m_head /\ tail'["consumer"] = tail["consumer"]
        /\ op # "empty" => tail'["consumer"] = m_tail /\ head'["consumer"] = head["consumer"]
    BY <1>0, <1>7 DEF ObserveSecond, TypeOK
  <2> QED BY <1>0, <2>1 DEF ConsumerSaw, Sub, Observers
<1>8. CASE DestroyBegin \/ DestroyElement \/ DestroyEnd
  BY <1>0, <1>8, Zenon DEF DestroyBegin, DestroyElement, DestroyEnd, IndInv, Lifetime, ConsumerSaw
<1>9. ASSUME /\ pc'["consumer"] = pc["consumer"] /\ seen'["consumer"] = seen["consumer"]
             /\ head'["consumer"] = head["consumer"] /\ tail'["consumer"] = tail["consumer"]
             /\ UNCHANGED <<m_head, m_tail, life>>
      PROVE  ConsumerSaw'
  BY <1>9, Zenon DEF ConsumerSaw, Sub
<1>10. ASSUME NEW v \in Values, EmplaceCall(v) PROVE ConsumerSaw'
  BY <1>0, <1>9, <1>10, Zenon DEF EmplaceCall, TypeOK
<1>11. CASE EmplaceCheck \/ EmplaceConstruct \/ EmplaceThrow \/ UNCHANGED vars
  BY <1>0, <1>9, <1>11, Zenon DEF EmplaceCheck, EmplaceConstruct, EmplaceThrow, vars, TypeOK
<1>12. ASSUME NEW op \in Observers, ObserveFirst("producer", op) \/ ObserveSecond("producer", op)
       PROVE  ConsumerSaw'
  BY <1>0, <1>9, <1>12 DEF ObserveFirst, ObserveSecond, TypeOK
<1> QED
  BY <1>0, <1>1, <1>2, <1>3, <1>4, <1>5, <1>6, <1>7, <1>8, <1>10, <1>11, <1>12, Zenon
  DEF Next, ProducerStep, ConsumerStep

\* Both threads' knowledge holds throughout.
LEMMA Saw == Spec => [](IndInv /\ ProducerSaw /\ ConsumerSaw)
<1>1. Init => ProducerSaw /\ ConsumerSaw
  BY Zenon DEF Init, ProducerSaw, ConsumerSaw, Threads
<1> QED BY <1>1, Invariance, ProducerSawStep, ConsumerSawStep, PTL DEF Spec

\* size() stays in range, and a refusal never contradicts what the thread was told before it.
THEOREM WordIsKept == Spec => ObserversKeptWord
<1>1. ASSUME IndInv, ProducerSaw, ConsumerSaw PROVE SizeInRange
  <2>1. seen["producer"] = "size" => Sub(head["producer"], tail["producer"]) \in 0 .. Capacity
    BY <1>1, Differences DEF ProducerSaw
  <2>2. seen["consumer"] = "size" => Sub(head["consumer"], tail["consumer"]) \in 0 .. Capacity
    <3>1. CASE life = "alive"
      BY <1>1, <3>1, LiveWindow, Differences DEF ConsumerSaw
    <3>2. CASE life # "alive"
      BY <1>1, <3>2, EndsOfWindow, Zenon DEF IndInv, Lifetime, Front
    <3> QED BY <3>1, <3>2, Zenon
  <2> QED BY <2>1, <2>2, Zenon DEF SizeInRange, sizeAnswer, Threads
<1>2. ASSUME IndInv, ProducerSaw, ConsumerSaw, [Next]_vars PROVE [WordKept]_vars
  <2> USE DEF Goto, Return
  <2>0. TypeOK
    BY <1>2, Zenon DEF IndInv
  <2>1. ASSUME pc["producer"] = "emplace", pc'["producer"] = "idle", seen["producer"] = "full"
        PROVE  fullAnswer("producer")
    <3>1. EmplaceCheck
      <4>1. pc \in [Threads -> {pc["producer"], pc["consumer"]}]
        BY <2>0, Zenon DEF TypeOK, Threads
      <4>2. ~PopCall /\ ~ConsumerStep
        BY <2>1, <4>1, Zenon DEF PopCall, ConsumerStep, PopCheck, PopMove, PopThrow, PopDestroy, PopRelease, Threads
      <4>3. \A t \in Threads, op \in Observers : ~ObserveFirst(t, op) /\ ~ObserveSecond(t, op)
        BY <2>1, <4>1, Zenon DEF ObserveFirst, ObserveSecond, Threads, Observers
      <4>4. ~UNCHANGED vars /\ ~DestroyBegin /\ ~DestroyElement /\ ~DestroyEnd
        BY <2>1, Zenon DEF DestroyBegin, DestroyElement, DestroyEnd, vars
      <4>5. ~EmplaceConstruct /\ ~EmplaceThrow /\ ~EmplacePublish /\ \A v \in Values : ~EmplaceCall(v)
        BY <2>1, Zenon DEF EmplaceCall, EmplaceConstruct, EmplaceThrow, EmplacePublish
      <4> QED BY <1>2, <4>2, <4>3, <4>4, <4>5, Zenon DEF Next, ProducerStep
    <3>2. head["producer"] = m_head /\ Sub(m_head, m_tail) = Capacity
      BY <1>2, <2>0, <2>1, <3>1, Zenon DEF EmplaceCheck, IsFull, TypeOK, Threads, ProducerSaw
    <3>3. Sub(head["producer"], tail["producer"]) = Capacity
      BY <1>2, <2>1, <3>2, Differences DEF ProducerSaw
    <3> QED BY <3>3, Zenon DEF fullAnswer, IsFull
  <2>2. ASSUME pc["consumer"] = "pop", pc'["consumer"] = "idle", seen["consumer"] = "empty"
        PROVE  emptyAnswer("consumer")
    <3>1. PopCheck
      <4>1. pc \in [Threads -> {pc["producer"], pc["consumer"]}]
        BY <2>0, Zenon DEF TypeOK, Threads
      <4>2. ~ProducerStep /\ \A v \in Values : ~EmplaceCall(v)
        BY <2>2, <4>1, Zenon
        DEF EmplaceCall, ProducerStep, EmplaceCheck, EmplaceConstruct, EmplaceThrow, EmplacePublish, Threads
      <4>3. \A t \in Threads, op \in Observers : ~ObserveFirst(t, op) /\ ~ObserveSecond(t, op)
        BY <2>2, <4>1, Zenon DEF ObserveFirst, ObserveSecond, Threads, Observers
      <4>4. ~UNCHANGED vars /\ ~DestroyBegin /\ ~DestroyElement /\ ~DestroyEnd
        BY <2>2, Zenon DEF DestroyBegin, DestroyElement, DestroyEnd, vars
      <4>5. ~PopCall /\ ~PopMove /\ ~PopThrow /\ ~PopDestroy /\ ~PopRelease
        BY <2>2, Zenon DEF PopCall, PopMove, PopThrow, PopDestroy, PopRelease
      <4> QED BY <1>2, <4>2, <4>3, <4>4, <4>5, Zenon DEF Next, ConsumerStep
    <3>2. m_head = tail["consumer"] /\ life = "alive"
      BY <1>2, <2>0, <2>2, <3>1, Zenon DEF PopCheck, TypeOK, Threads, IndInv, Lifetime
    <3>3. tail["consumer"] = m_tail /\ Sub(head["consumer"], m_tail) <= Sub(m_head, m_tail)
      BY <1>2, <2>2, <3>2, Zenon DEF ConsumerSaw
    <3>4. Sub(m_head, m_tail) = 0
      BY ZenonT(40), <1>2, <3>2, <3>3, Differences, CounterArithmetic
    <3>5. Sub(head["consumer"], m_tail) = 0
      BY <1>2, <3>3, <3>4, Differences
    <3>6. head["consumer"] = m_tail
      BY ZenonT(40), <1>2, <3>5, Differences, CounterArithmetic
    <3> QED BY <3>3, <3>6, Zenon DEF emptyAnswer
  <2> QED BY <2>1, <2>2, Zenon DEF WordKept
<1> QED BY <1>1, <1>2, Saw, PTL DEF Spec, ObserversKeptWord

--------------------------------------------------------------------------------
(* Refinement. *)

Contents == Values \cup {None, Raw, MovedFrom}
Size == IF life = "alive" THEN Sub(m_head, m_tail) ELSE 0
Item(i) == IF i = 1 /\ pc["consumer"] \in {"destroy", "release"}
           THEN out
           ELSE m_storage[SlotAfter(m_tail, i - 1)]

\* Sequences that agree everywhere are equal.
LEMMA SeqEqual ==
    ASSUME NEW S, NEW s \in Seq(S), NEW t \in Seq(S),
           Len(s) = Len(t), \A i \in 1 .. Len(s) : s[i] = t[i]
    PROVE  s = t
  OBVIOUS

\* Items is the sequence of the Size elements in the ring, oldest first.
ItemsSeq ==
    /\ Size \in 0 .. Capacity
    /\ Items \in Seq(Contents)
    /\ Len(Items) = Size
    /\ \A i \in 1 .. Size : Items[i] = Item(i)
    /\ Items = <<>> <=> Size = 0

\* Under the invariant the elements in the ring form a sequence of values.
LEMMA ItemsIsSeq == IndInv => ItemsSeq
<1> SUFFICES ASSUME IndInv PROVE ItemsSeq
  OBVIOUS
<1>1. Size \in 0 .. Capacity
  BY EndsOfWindow DEF Size, Front
<1>2. m_tail \in Counter /\ slot_ptr(m_tail) \in Slots
  <2>1. m_tail \in Counter
    BY Zenon DEF IndInv, TypeOK
  <2> QED BY <2>1, SlotOfInc, Zenon
<1>3. \A i \in 1 .. Size : SlotAfter(m_tail, i - 1) \in Slots
  BY <1>1, <1>2 DEF SlotAfter, Slots
<1>4. \A i \in 1 .. Size : Item(i) \in Contents
  <2>1. m_storage \in [Slots -> Values \cup {Raw, MovedFrom}] /\ out \in Values \cup {None}
    BY Zenon DEF IndInv, TypeOK
  <2>2. \A i \in 1 .. Size : m_storage[SlotAfter(m_tail, i - 1)] \in Contents
    BY <1>3, <2>1, Zenon DEF Contents
  <2> QED BY <2>1, <2>2, Zenon DEF Item, Contents
<1>5. Items = [i \in 1 .. Size |-> Item(i)]
  BY Zenon DEF Items, Size, Item
<1>6. Items \in [1 .. Size -> Contents]
  BY <1>4, <1>5, Zenon
<1>7. Items \in Seq(Contents)
  BY <1>1, <1>6
<1>8. Len(Items) = Size
  BY <1>1, <1>6, <1>7
<1>9. Items = <<>> <=> Size = 0
  BY <1>7, <1>8
<1> QED BY <1>1, <1>5, <1>7, <1>8, <1>9, Zenon DEF ItemsSeq

\* The same in the next state.
LEMMA ItemsIsSeqNext == IndInv' => ItemsSeq'
  BY ItemsIsSeq, PTL

\* Two states with the same number of elements and the same elements have the same Items.
LEMMA SameItems ==
    ASSUME IndInv, IndInv', Size' = Size, \A i \in 1 .. Size : Item(i)' = Item(i)
    PROVE  Items' = Items
<1>1. /\ Items' = [i \in 1 .. Size' |-> Item(i)'] /\ Items = [i \in 1 .. Size |-> Item(i)]
  BY Zenon DEF Items, Size, Item
<1> QED BY <1>1, Zenon

\* The slots of the elements: the first is the slot of m_tail, none is the slot of m_head
\* (unless the ring is full) and none but the first is the slot of m_tail.
LEMMA SlotsOfItems ==
    ASSUME IndInv, life = "alive", NEW i \in 1 .. Size
    PROVE  /\ i = 1 => SlotAfter(m_tail, i - 1) = slot_ptr(m_tail)
           /\ i # 1 => SlotAfter(m_tail, i - 1) # slot_ptr(m_tail)
           /\ Size < Capacity => SlotAfter(m_tail, i - 1) # slot_ptr(m_head)
           /\ SlotAfter(m_tail, i - 1) \in Slots
<1>1. Front = m_tail /\ slot_ptr(m_tail) \in Slots /\ Size \in 0 .. Capacity /\ Size = Sub(m_head, m_tail)
  BY EndsOfWindow, Zenon DEF Front, Size
<1>2. slot_ptr(m_head) = IF slot_ptr(m_tail) + Size < Capacity
                         THEN slot_ptr(m_tail) + Size ELSE slot_ptr(m_tail) + Size - Capacity
  BY <1>1, Zenon DEF IndInv, Aligned
<1> QED BY <1>1, <1>2 DEF SlotAfter, Slots

\* The initial state is the empty abstract queue.
LEMMA InitRefines == Init => FIFO!Init
<1> SUFFICES ASSUME Init PROVE FIFO!Init
  OBVIOUS
<1>1. Items = <<>>
  BY InitInv, ItemsIsSeq, CounterArithmetic DEF ItemsSeq, Init, Size, IndInv, TypeOK
<1> QED BY <1>1 DEF Init, FIFO!Init, Threads

\* Steps of the threads between call and effect leave the elements as they are.
LEMMA ItemsKept ==
    ASSUME IndInv, IndInv',
           \/ \E v \in Values : EmplaceCall(v)
           \/ EmplaceCheck \/ EmplaceThrow \/ PopCall \/ PopCheck \/ PopThrow
           \/ \E t \in Threads, op \in Observers : ObserveFirst(t, op) \/ ObserveSecond(t, op)
    PROVE  Items' = Items
<1>1. UNCHANGED <<m_head, m_tail, m_storage, out, life>>
  BY DEF EmplaceCall, EmplaceCheck, EmplaceThrow, PopCall, PopCheck, PopThrow, ObserveFirst, ObserveSecond
<1>2. pc'["consumer"] \in {"destroy", "release"} <=> pc["consumer"] \in {"destroy", "release"}
  BY DEF EmplaceCall, EmplaceCheck, EmplaceThrow, PopCall, PopCheck, PopThrow, ObserveFirst,
         ObserveSecond, Goto, Return, IndInv, TypeOK, Threads, Observers
<1>3. Size' = Size
  BY <1>1, Zenon DEF Size, Sub
<1>4. \A i \in 1 .. Size : Item(i)' = Item(i)
  BY <1>1, <1>2, Zenon DEF Item, SlotAfter, slot_ptr
<1> QED BY <1>3, <1>4, SameItems, Zenon

\* Constructing in the slot of m_head touches no element in the queue.
LEMMA ItemsConstruct ==
    ASSUME IndInv, IndInv', EmplaceConstruct
    PROVE  Items' = Items
<1>1. UNCHANGED <<m_head, m_tail, out, life>> /\ life = "alive" /\ head["producer"] = m_head
  BY Zenon DEF EmplaceConstruct, Goto, IndInv, Lifetime, OwnCounters, Emplacing
<1>2. pc'["consumer"] = pc["consumer"]
  BY Zenon DEF EmplaceConstruct, Goto, IndInv, TypeOK, Threads
<1>3. Size' = Size /\ Size < Capacity
  BY <1>1, Zenon DEF Size, Sub, IndInv, Window, Front, EmplaceConstruct, Goto
<1>4. ASSUME NEW i \in 1 .. Size PROVE Item(i)' = Item(i)
  <2>1. SlotAfter(m_tail, i - 1)' = SlotAfter(m_tail, i - 1)
    BY <1>1, Zenon DEF SlotAfter, slot_ptr
  <2>2. SlotAfter(m_tail, i - 1) # slot_ptr(m_head) /\ SlotAfter(m_tail, i - 1) \in Slots
    BY <1>1, <1>3, SlotsOfItems, Zenon
  <2>3. m_storage'[SlotAfter(m_tail, i - 1)] = m_storage[SlotAfter(m_tail, i - 1)]
    BY <1>1, <2>2, Zenon DEF EmplaceConstruct, IndInv, TypeOK
  <2> QED BY <1>1, <1>2, <2>1, <2>3, Zenon DEF Item
<1> QED BY <1>3, <1>4, SameItems, Zenon

\* The element being popped stays the first until m_tail is stored.
LEMMA ItemsMove ==
    ASSUME IndInv, IndInv', PopMove \/ PopDestroy
    PROVE  Items' = Items
<1>1. UNCHANGED <<m_head, m_tail, life>> /\ life = "alive" /\ tail["consumer"] = m_tail
  BY Zenon DEF PopMove, PopDestroy, Goto, IndInv, Lifetime, OwnCounters, Popping
<1>2. Size' = Size
  BY <1>1, Zenon DEF Size, Sub
<1>3. ASSUME NEW i \in 1 .. Size PROVE Item(i)' = Item(i)
  <2>1. SlotAfter(m_tail, i - 1)' = SlotAfter(m_tail, i - 1)
    BY <1>1, Zenon DEF SlotAfter, slot_ptr
  <2>2. /\ i = 1 => SlotAfter(m_tail, i - 1) = slot_ptr(m_tail)
        /\ i # 1 => SlotAfter(m_tail, i - 1) # slot_ptr(m_tail)
        /\ SlotAfter(m_tail, i - 1) \in Slots
    BY <1>1, SlotsOfItems, Zenon
  <2>3. CASE i = 1
    BY <1>1, <2>1, <2>2, <2>3, ZenonT(40) DEF Item, PopMove, PopDestroy, Goto, IndInv, TypeOK, Threads
  <2>4. CASE i # 1
    <3>1. m_storage'[SlotAfter(m_tail, i - 1)] = m_storage[SlotAfter(m_tail, i - 1)]
      BY <1>1, <2>2, <2>4 DEF PopMove, PopDestroy, IndInv, TypeOK
    <3> QED BY <2>1, <2>4, <3>1, ZenonT(40) DEF Item
  <2> QED BY <2>3, <2>4, Zenon
<1> QED BY <1>2, <1>3, SameItems, Zenon

\* The store of m_head appends the argument of emplace.
LEMMA ItemsPublish ==
    ASSUME IndInv, IndInv', EmplacePublish
    PROVE  Len(Items) < Capacity /\ Items' = Append(Items, arg)
<1>1. UNCHANGED <<m_tail, m_storage, out, life>> /\ life = "alive" /\ head["producer"] = m_head
  BY Zenon DEF EmplacePublish, Return, Goto, IndInv, Lifetime, OwnCounters, Emplacing
<1>2. pc'["consumer"] = pc["consumer"]
  BY Zenon DEF EmplacePublish, Return, Goto, IndInv, TypeOK, Threads
<1>3. Size < Capacity /\ Size' = Size + 1 /\ Size \in 0 .. Capacity
  <2>1. Size < Capacity /\ Size \in 0 .. Capacity
    BY <1>1, ItemsIsSeq, ZenonT(40) DEF ItemsSeq, Size, IndInv, Window, Front, EmplacePublish, Return, Goto
  <2>2. Sub(Inc(m_head), m_tail) = Sub(m_head, m_tail) + 1
    BY <1>1, <2>1, CounterArithmetic DEF Size, IndInv, TypeOK
  <2> QED BY <1>1, <2>1, <2>2, Zenon DEF Size, EmplacePublish, Sub
<1>4. SlotAfter(m_tail, Size) = slot_ptr(m_head) /\ slot_ptr(m_head) \in Slots
  BY <1>1, EndsOfWindow, Zenon DEF IndInv, Aligned, Front, Size, SlotAfter
<1>5. m_storage[slot_ptr(m_head)] = arg /\ arg \in Contents
  BY <1>1, <1>4, ZenonT(40) DEF IndInv, Storage, Filling, EmplacePublish, Return, Goto, TypeOK, Contents
<1>6. \A i \in 1 .. Size : Item(i)' = Item(i)
  BY <1>1, <1>2, Zenon DEF Item, SlotAfter, slot_ptr
<1>7. ASSUME NEW n \in Int, n = Size + 1 PROVE Item(n)' = arg
  <2>1. Size = 0 => pc["consumer"] \notin {"destroy", "release"}
    BY ZenonT(40), <1>1, CounterArithmetic DEF Size, IndInv, Window, TypeOK
  <2>2. SlotAfter(m_tail, n - 1)' = SlotAfter(m_tail, n - 1)
    BY <1>1, Zenon DEF SlotAfter, slot_ptr
  <2>3. m_storage'[SlotAfter(m_tail, n - 1)'] = arg
    BY <1>1, <1>3, <1>4, <1>5, <1>7, <2>2
  <2> QED BY <1>1, <1>2, <1>3, <1>7, <2>1, <2>3 DEF Item
<1>8. Items \in Seq(Contents) /\ Len(Items) = Size /\ \A i \in 1 .. Size : Items[i] = Item(i)
  BY ItemsIsSeq, Zenon DEF ItemsSeq
<1>9. /\ Items' \in Seq(Contents) /\ Len(Items') = Size + 1
      /\ \A i \in 1 .. Size + 1 : Items'[i] = Item(i)'
  BY <1>3, ItemsIsSeqNext, Zenon DEF ItemsSeq
<1>10. \A i \in 1 .. Size + 1 : Items'[i] = Append(Items, arg)[i]
  BY <1>3, <1>6, <1>7, <1>8, <1>9
<1>11. Append(Items, arg) \in Seq(Contents) /\ Len(Append(Items, arg)) = Size + 1
  BY <1>3, <1>5, <1>8
<1> QED BY <1>3, <1>8, <1>9, <1>10, <1>11, SeqEqual, Zenon

\* The store of m_tail takes the first element, which is the one moved to out.
LEMMA ItemsRelease ==
    ASSUME IndInv, IndInv', PopRelease
    PROVE  Items # <<>> /\ out = Head(Items) /\ Items' = Tail(Items)
<1>1. /\ UNCHANGED <<m_head, m_storage, life>> /\ life = "alive" /\ tail["consumer"] = m_tail
      /\ m_tail \in Counter /\ m_head \in Counter /\ m_tail' = Inc(m_tail) /\ m_head # m_tail
  BY Zenon DEF PopRelease, Return, Goto, IndInv, Lifetime, OwnCounters, Popping, TypeOK, Window
<1>2. pc["consumer"] = "release" /\ pc'["consumer"] = "idle"
  BY Zenon DEF PopRelease, Return, Goto, IndInv, TypeOK, Threads
<1>3. Size \in 1 .. Capacity /\ Size' = Size - 1
  <2>1. Size \in 1 .. Capacity
    BY <1>1, ItemsIsSeq, CounterArithmetic DEF ItemsSeq, Size
  <2>2. Sub(m_head, Inc(m_tail)) = Sub(m_head, m_tail) - 1
    BY ZenonT(40), <1>1, CounterArithmetic
  <2>3. Size = Sub(m_head, m_tail)
    BY <1>1, Zenon DEF Size
  <2>4. Size' = Sub(m_head, Inc(m_tail))
    BY <1>1, Zenon DEF Size, Sub
  <2> QED BY <2>1, <2>2, <2>3, <2>4, Zenon
<1>4. ASSUME NEW i \in 1 .. Size - 1 PROVE Item(i)' = Item(i + 1)
  <2>1. slot_ptr(m_tail) \in Slots
        /\ slot_ptr(m_tail') = IF slot_ptr(m_tail) = Capacity - 1 THEN 0 ELSE slot_ptr(m_tail) + 1
    BY <1>1, SlotOfInc, Zenon
  <2>2. SlotAfter(m_tail', i - 1) = SlotAfter(m_tail, i)
    BY <1>3, <2>1 DEF SlotAfter, Slots
  <2>3. Item(i)' = m_storage'[SlotAfter(m_tail', i - 1)]
    BY <1>2, Zenon DEF Item, SlotAfter, slot_ptr
  <2>4. Item(i + 1) = m_storage[SlotAfter(m_tail, i)]
    BY DEF Item
  <2> QED BY <1>1, <2>2, <2>3, <2>4, Zenon
<1>5. Item(1) = out
  BY <1>2, Zenon DEF Item
<1>6. Items \in Seq(Contents) /\ Len(Items) = Size /\ \A i \in 1 .. Size : Items[i] = Item(i)
  BY ItemsIsSeq, Zenon DEF ItemsSeq
<1>7. /\ Items' \in Seq(Contents) /\ Len(Items') = Size - 1
      /\ \A i \in 1 .. Size - 1 : Items'[i] = Item(i)'
  BY <1>3, ItemsIsSeqNext, Zenon DEF ItemsSeq
<1>8. Items # <<>>
  BY <1>3, <1>6
<1>9. /\ Tail(Items) \in Seq(Contents) /\ Len(Tail(Items)) = Size - 1
      /\ \A i \in 1 .. Size - 1 : Tail(Items)[i] = Items[i + 1]
  BY <1>3, <1>6, <1>8
<1>10. \A i \in 1 .. Size - 1 : Items'[i] = Tail(Items)[i]
  BY <1>3, <1>4, <1>6, <1>7, <1>9
<1>11. Items' = Tail(Items)
  BY <1>7, <1>9, <1>10, SeqEqual, Zenon
<1>12. out = Head(Items)
  BY <1>3, <1>5, <1>6, <1>8
<1> QED BY <1>8, <1>11, <1>12, Zenon

\* The test of pop: when the counters are equal there is no element.
LEMMA EmptyRing ==
    ASSUME IndInv, life = "alive", m_head = m_tail
    PROVE  Items = <<>>
<1>1. m_head \in Counter /\ m_tail \in Counter
  BY Zenon DEF IndInv, TypeOK
<1>2. Sub(m_head, m_tail) = 0
  BY <1>1, CounterArithmetic, Zenon
<1>3. Size = 0
  BY <1>2, Zenon DEF Size
<1> QED BY <1>3, ItemsIsSeq, Zenon DEF ItemsSeq

--------------------------------------------------------------------------------
\* One case per action: which abstract step it is, or a stutter.
LEMMA NextRefines == IndInv /\ IndInv' /\ [Next]_vars => [FIFO!Next]_(FIFO!vars)
<1> SUFFICES ASSUME IndInv, IndInv', [Next]_vars PROVE [FIFO!Next]_(FIFO!vars)
  OBVIOUS
<1> USE DEF Goto, Return
<1>0. TypeOK /\ TypeOK' /\ None \notin Values
  BY Zenon DEF IndInv
<1>1. ASSUME NEW v \in Values, EmplaceCall(v) PROVE FIFO!PushCall(v)
  <2>1. Items' = Items
    BY <1>1, ItemsKept, Zenon
  <2> QED BY <1>0, <1>1, <2>1, Zenon DEF EmplaceCall, FIFO!PushCall, TypeOK, Threads
<1>2. CASE EmplaceCheck
  <2>1. Items' = Items /\ Len(Items) = Sub(m_head, m_tail) /\ head["producer"] = m_head
    <3>1. Items' = Items
      BY <1>2, ItemsKept, Zenon
    <3>2. life = "alive" /\ head["producer"] = m_head
      BY <1>2, Zenon DEF EmplaceCheck, IndInv, Lifetime, OwnCounters, Emplacing
    <3>3. Len(Items) = Sub(m_head, m_tail)
      BY <3>2, ItemsIsSeq, Zenon DEF ItemsSeq, Size
    <3> QED BY <3>1, <3>2, <3>3, Zenon
  <2>2. CASE IsFull(head["producer"], m_tail)
    <3>1. FIFO!PushRefuse
      BY <1>0, <1>2, <2>1, <2>2, Zenon DEF EmplaceCheck, FIFO!PushRefuse, FIFO!PushEnd, IsFull, TypeOK, Threads
    <3> QED BY <3>1, Zenon DEF FIFO!Next
  <2>3. CASE ~IsFull(head["producer"], m_tail)
    BY <1>0, <1>2, <2>1, <2>3, Zenon DEF EmplaceCheck, FIFO!vars, TypeOK, Threads
  <2> QED BY <2>2, <2>3, Zenon
<1>3. CASE EmplaceConstruct
  <2>1. Items' = Items
    BY <1>3, ItemsConstruct, Zenon
  <2> QED BY <1>0, <1>3, <2>1, Zenon DEF EmplaceConstruct, FIFO!vars, TypeOK, Threads
<1>4. CASE EmplaceThrow
  <2>1. Items' = Items
    BY <1>4, ItemsKept, Zenon
  <2>2. FIFO!PushThrow
    BY <1>0, <1>4, <2>1, Zenon DEF EmplaceThrow, FIFO!PushThrow, FIFO!PushEnd, TypeOK, Threads
  <2> QED BY <2>2, Zenon DEF FIFO!Next
<1>5. CASE EmplacePublish
  <2>1. Len(Items) < Capacity /\ Items' = Append(Items, arg)
    BY <1>5, ItemsPublish, Zenon
  <2>2. FIFO!PushTake
    BY <1>0, <1>5, <2>1, Zenon DEF EmplacePublish, FIFO!PushTake, FIFO!PushEnd, TypeOK, Threads
  <2> QED BY <2>2, Zenon DEF FIFO!Next
<1>6. CASE PopCall
  <2>1. Items' = Items
    BY <1>6, ItemsKept, Zenon
  <2>2. FIFO!PopCall
    BY <1>0, <1>6, <2>1, Zenon DEF PopCall, FIFO!PopCall, TypeOK, Threads
  <2> QED BY <2>2, Zenon DEF FIFO!Next
<1>7. CASE PopCheck
  <2>1. /\ Items' = Items /\ tail["consumer"] = m_tail
        /\ m_head = m_tail => Items = <<>>
    <3>1. life = "alive" /\ tail["consumer"] = m_tail
      BY <1>7, Zenon DEF PopCheck, IndInv, Lifetime, OwnCounters, Popping
    <3>2. m_head = m_tail => Items = <<>>
      BY <3>1, EmptyRing, Zenon
    <3>3. Items' = Items
      BY <1>7, ItemsKept, Zenon
    <3> QED BY <3>1, <3>2, <3>3, Zenon
  <2>2. CASE m_head = tail["consumer"]
    <3>1. FIFO!PopRefuse
      BY <1>0, <1>7, <2>1, <2>2 DEF PopCheck, FIFO!PopRefuse, FIFO!PopEnd, TypeOK, Threads
    <3> QED BY <3>1, Zenon DEF FIFO!Next
  <2>3. CASE m_head # tail["consumer"]
    BY <1>0, <1>7, <2>1, <2>3 DEF PopCheck, FIFO!vars, TypeOK, Threads
  <2> QED BY <2>2, <2>3, Zenon
<1>8. CASE PopMove \/ PopDestroy
  <2>1. Items' = Items
    BY <1>8, ItemsMove, Zenon
  <2> QED BY <1>0, <1>8, <2>1 DEF PopMove, PopDestroy, FIFO!vars, TypeOK, Threads
<1>9. CASE PopThrow
  <2>1. Items' = Items
    BY <1>9, ItemsKept, Zenon
  <2>2. FIFO!PopThrow
    BY <1>0, <1>9, <2>1 DEF PopThrow, FIFO!PopThrow, FIFO!PopEnd, TypeOK, Threads
  <2> QED BY <2>2, Zenon DEF FIFO!Next
<1>10. CASE PopRelease
  <2>1. Items # <<>> /\ out = Head(Items) /\ Items' = Tail(Items)
    BY <1>10, ItemsRelease, ZenonT(40)
  <2>2. FIFO!PopTake
    BY <1>0, <1>10, <2>1 DEF PopRelease, FIFO!PopTake, FIFO!PopEnd, TypeOK, Threads
  <2> QED BY <2>2, Zenon DEF FIFO!Next
<1>11. ASSUME NEW t \in Threads, NEW op \in Observers, ObserveFirst(t, op) \/ ObserveSecond(t, op)
       PROVE  UNCHANGED FIFO!vars
  <2>1. Items' = Items
    BY <1>11, ItemsKept, Zenon
  <2> QED BY <1>0, <1>11, <2>1 DEF ObserveFirst, ObserveSecond, FIFO!vars, TypeOK, Threads, Observers
<1>12. CASE DestroyBegin
  <2>1. Items' = <<>>
    BY <1>12, ItemsIsSeqNext, Zenon DEF DestroyBegin, ItemsSeq, Size
  <2>2. FIFO!Destroy
    BY <1>0, <1>12, <2>1, Zenon DEF DestroyBegin, FIFO!Destroy, TypeOK, Threads
  <2> QED BY <2>2, Zenon DEF FIFO!Next
<1>13. CASE DestroyElement \/ DestroyEnd
  <2>1. Items = <<>> /\ Items' = <<>>
    BY <1>13, ItemsIsSeq, ItemsIsSeqNext, Zenon DEF DestroyElement, DestroyEnd, ItemsSeq, Size
  <2> QED BY <1>0, <1>13, <2>1, Zenon DEF DestroyElement, DestroyEnd, FIFO!vars
<1>14. CASE UNCHANGED vars
  <2>1. Items' = Items
    BY <1>14, Zenon DEF vars, Items, Sub, SlotAfter, slot_ptr
  <2> QED BY <1>14, <2>1, Zenon DEF vars, FIFO!vars
<1> QED
  BY <1>1, <1>2, <1>3, <1>4, <1>5, <1>6, <1>7, <1>8, <1>9, <1>10, <1>11, <1>12, <1>13, <1>14, Zenon
  DEF Next, ProducerStep, ConsumerStep, FIFO!Next

\* SPSCQueue is a linearizable FIFO queue of kCapacity elements: nothing is lost, duplicated or
\* reordered, push is refused only when the queue is full and pop only when it is empty.
THEOREM Refinement == Spec => ImplementsFIFO
  BY InitRefines, NextRefines, Invariance, PTL DEF Spec, ImplementsFIFO, FIFO!Spec
================================================================================
