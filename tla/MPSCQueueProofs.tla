---------------------------- MODULE MPSCQueueProofs ----------------------------
(******************************************************************************)
(* Safety of MPSCQueue for any number of producers and elements and any ring: *)
(* exclusive slots, the order of each producer's elements, and refusals that  *)
(* are excused.                                                               *)
(******************************************************************************)
EXTENDS MPSCQueue, TLAPS

USE SizeAssumption, WordAssumption, PerProducerAssumption, RawAssumption, SMTT(40)

\* The tickets that were claimed and whose elements were not popped yet.
Tickets == m_head .. m_tail - 1

\* The tickets that the next claims would get.
Ahead == m_tail .. m_head + SIZE - 1

Held(i) == \E p \in Producers : Holds(p) /\ tail[p] = i

\* The element of ticket i, in its slot or in the hands of the consumer.
Item(i) == IF i = m_head /\ cpc \in {"destroy", "clear", "release"} THEN out ELSE data[SlotOf(i)]

(* At most SIZE tickets are out; what the threads loaded is not newer than    *)
(* the counters; a ticket has one holder, and the consumer does not pass it.  *)
Counters ==
    /\ m_head <= m_tail /\ m_tail <= m_head + SIZE
    /\ \A p \in Producers :
          /\ tail[p] <= m_tail /\ view[p] <= m_head
          /\ pc[p] # "idle" => sent[p] < PerProducer
          /\ pc[p] \in {"claim", "construct", "publish"} =>
                view[p] <= tail[p] /\ tail[p] < view[p] + SIZE
          /\ Holds(p) => m_head <= tail[p] /\ tail[p] < m_tail
    /\ \A p, q \in Producers : Holds(p) /\ Holds(q) /\ tail[p] = tail[q] => p = q
    /\ cpc # "idle" => m_head < m_tail /\ ~Held(m_head) /\ cview = m_head + 1

\* A slot's flag is raised from the publication of its element until PopClear.
Flags ==
    /\ \A i \in Tickets : ready[SlotOf(i)] <=> ~Held(i) /\ ~(i = m_head /\ cpc = "release")
    /\ \A i \in Ahead : ~ready[SlotOf(i)]

\* A slot holds an element from its construction until PopDestroy.
Cells ==
    /\ \A i \in Ahead : data[SlotOf(i)] = Raw
    /\ \A p \in Producers :
          /\ pc[p] = "construct" => data[SlotOf(tail[p])] = Raw
          /\ pc[p] = "publish" => data[SlotOf(tail[p])] = <<p, sent[p] + 1>>
    /\ \A i \in Tickets : ~Held(i) => Item(i) \in Elements
    /\ cpc \in {"clear", "release"} => data[SlotOf(m_head)] = Raw

(* The elements of a producer in the ring are the ones it sent and that were  *)
(* not received, each once and in the order of their tickets.                 *)
InOrder ==
    /\ \A i \in Tickets, p \in Producers, k \in 1 .. PerProducer : Item(i) = <<p, k>> =>
          /\ received[p] < k
          /\ k <= sent[p] \/ (pc[p] = "publish" /\ i = tail[p])
          /\ Holds(p) => i <= tail[p]
    /\ \A i, j \in Tickets, p \in Producers, k, n \in 1 .. PerProducer :
          Item(i) = <<p, k>> /\ Item(j) = <<p, n>> /\ i < j => k < n
    /\ \A p \in Producers : received[p] <= sent[p]
    /\ \A p \in Producers, k \in 1 .. PerProducer :
          received[p] < k /\ k <= sent[p] => \E i \in Tickets : Item(i) = <<p, k>>

\* The inductive invariant.
IndInv == TypeOK /\ Counters /\ Flags /\ Cells /\ InOrder
--------------------------------------------------------------------------------
(* Slots. *)

\* Two tickets that are less than SIZE apart have different slots.
LEMMA SlotFacts ==
    /\ \A i \in Nat : SlotOf(i) \in Slots /\ SlotOf(i + SIZE) = SlotOf(i)
    /\ \A i, j \in Nat : i - j < SIZE /\ j - i < SIZE /\ SlotOf(i) = SlotOf(j) => i = j
<1>1. ASSUME NEW i \in Nat, NEW j \in Nat, SlotOf(i) = SlotOf(j)
      PROVE  \E k \in Int : i - j = k * SIZE
  <2> DEFINE a == i \div SIZE
             b == j \div SIZE
  <2>1. /\ a \in Int /\ i = a * SIZE + SlotOf(i) /\ SlotOf(i) \in Int
        /\ b \in Int /\ j = b * SIZE + SlotOf(j)
    BY DEF SlotOf
  <2> HIDE DEF a, b
  <2>2. i - j = (a - b) * SIZE
    BY <1>1, <2>1
  <2>3. a - b \in Int
    BY <2>1
  <2> QED BY <2>2, <2>3, Zenon
<1>2. ASSUME NEW k \in Int, NEW d \in Int, d = k * SIZE, d < SIZE, d > -SIZE
      PROVE  d = 0
  <2>1. k < 1
    <3> SUFFICES ASSUME k >= 1 PROVE FALSE
      OBVIOUS
    <3>1. k * SIZE >= SIZE
      OBVIOUS
    <3> QED BY <1>2, <3>1
  <2>2. k > -1
    <3> SUFFICES ASSUME k <= -1 PROVE FALSE
      OBVIOUS
    <3>1. k * SIZE <= -SIZE
      OBVIOUS
    <3> QED BY <1>2, <3>1
  <2>3. k = 0
    BY <2>1, <2>2
  <2> QED BY <1>2, <2>3
<1>3. ASSUME NEW i \in Nat, NEW j \in Nat, i - j < SIZE, j - i < SIZE, SlotOf(i) = SlotOf(j)
      PROVE  i = j
  <2>1. PICK k \in Int : i - j = k * SIZE
    BY <1>1, <1>3, Zenon
  <2>2. i - j = 0
    BY <1>2, <1>3, <2>1
  <2> QED BY <2>2
<1>4. ASSUME NEW i \in Nat
      PROVE  SlotOf(i) \in Slots /\ SlotOf(i + SIZE) = SlotOf(i)
  <2> DEFINE k == i \div SIZE
             r == i % SIZE
             n == (i + SIZE) \div SIZE
             s == (i + SIZE) % SIZE
  <2>1. /\ k \in Int /\ r \in Slots /\ i = k * SIZE + r
        /\ n \in Int /\ s \in Slots /\ i + SIZE = n * SIZE + s
    BY DEF Slots
  <2>2. SlotOf(i) = r /\ SlotOf(i + SIZE) = s
    BY Zenon DEF SlotOf
  <2> HIDE DEF k, r, n, s
  <2>3. s - r = (k + 1 - n) * SIZE
    BY <2>1 DEF Slots
  <2>4. s - r = 0
    BY <1>2, <2>1, <2>3 DEF Slots
  <2> QED BY <2>1, <2>2, <2>4 DEF Slots
<1> QED BY <1>3, <1>4, Zenon

--------------------------------------------------------------------------------
(* The initial states. *)

\* The queue is constructed empty.
LEMMA InitInv == Init => IndInv
<1> SUFFICES ASSUME Init PROVE IndInv
  OBVIOUS
<1>1. TypeOK
  BY DEF Init, TypeOK, PushPCs, PopPCs
<1>2. \A p \in Producers : ~Holds(p)
  BY Zenon DEF Init, Holds
<1>3. Tickets = {}
  BY DEF Init, Tickets
<1>4. Counters
  BY <1>2 DEF Init, Counters
<1>5. Flags /\ Cells
  BY <1>2, <1>3, SlotFacts DEF Init, Flags, Cells, Ahead
<1>6. InOrder
  BY <1>3 DEF Init, InOrder
<1> QED BY <1>1, <1>4, <1>5, <1>6, Zenon DEF IndInv
--------------------------------------------------------------------------------
(* What a popping consumer finds. *)

\* The ticket of m_head has the next element of its producer.
LEMMA HeadItem ==
    ASSUME IndInv, cpc # "idle"
    PROVE  /\ m_head \in Tickets /\ ~Held(m_head)
           /\ Item(m_head) \in Elements
           /\ \A p \in Producers, k \in 1 .. PerProducer :
                 Item(m_head) = <<p, k>> => k = received[p] + 1 /\ k <= sent[p]
<1>1. m_head \in Tickets /\ ~Held(m_head)
  BY DEF IndInv, TypeOK, Counters, Tickets
<1>2. Item(m_head) \in Elements
  BY <1>1, Zenon DEF IndInv, Cells
<1>3. ASSUME NEW p \in Producers, NEW k \in 1 .. PerProducer, Item(m_head) = <<p, k>>
      PROVE  k = received[p] + 1 /\ k <= sent[p]
  <2>1. received[p] \in Nat /\ received[p] < k /\ k <= sent[p]
    BY <1>1, <1>3, Zenon DEF IndInv, TypeOK, InOrder, Held, Holds
  <2>2. ASSUME received[p] + 1 < k
        PROVE  FALSE
    <3>1. PICK i \in Tickets : Item(i) = <<p, received[p] + 1>>
      BY <2>1, <2>2 DEF IndInv, TypeOK, InOrder
    <3>2. i # m_head
      BY <1>3, <2>1, <2>2, <3>1
    <3>3. m_head < i
      BY <3>2 DEF Tickets, IndInv, TypeOK
    <3>4. received[p] + 1 \in 1 .. PerProducer
      BY <2>1, <2>2
    <3>5. k < received[p] + 1
      BY <1>1, <1>3, <3>1, <3>3, <3>4 DEF IndInv, InOrder
    <3> QED BY <2>1, <2>2, <3>5
  <2> QED BY <2>1, <2>2
<1> QED BY <1>1, <1>2, <1>3, Zenon

--------------------------------------------------------------------------------
(* One lemma per step of try_push. *)

\* A step of a producer that has no ticket, before or after, changes no slot.
LEMMA UnheldStep ==
    ASSUME IndInv, NEW p \in Producers, ~Holds(p), pc'[p] \notin {"construct", "publish"},
           \A q \in Producers \ {p} : pc'[q] = pc[q] /\ tail'[q] = tail[q],
           UNCHANGED <<m_head, m_tail, data, ready, sent, popVars>>
    PROVE  /\ \A q \in Producers : Holds(q)' <=> Holds(q)
           /\ Flags' /\ Cells' /\ InOrder'
<1>1. \A q \in Producers : (Holds(q)' <=> Holds(q)) /\ (Holds(q) => q # p)
  BY Zenon DEF Holds
<1>2. \A i : Held(i)' <=> Held(i)
  BY <1>1, Zenon DEF Held
<1>3. Tickets' = Tickets /\ Ahead' = Ahead /\ \A i : Item(i)' = Item(i)
  BY Zenon DEF Tickets, Ahead, Item, popVars
<1>4. Flags'
  BY <1>2, <1>3, Zenon DEF IndInv, Flags, popVars
<1>5. Cells'
  BY <1>1, <1>2, <1>3 DEF IndInv, Cells, Holds, popVars
<1>6. InOrder'
  BY <1>1, <1>3 DEF IndInv, InOrder, Holds, popVars
<1> QED BY <1>1, <1>4, <1>5, <1>6, Zenon

\* The load of m_tail.
LEMMA PushCallStep ==
    ASSUME IndInv, NEW p \in Producers, PushCall(p)
    PROVE  IndInv'
<1>1. TypeOK'
  BY DEF IndInv, TypeOK, PushCall, Goto, popVars, PushPCs
<1>2. /\ \A q \in Producers : Holds(q)' <=> Holds(q)
      /\ Flags' /\ Cells' /\ InOrder'
  BY UnheldStep, Zenon DEF IndInv, TypeOK, PushCall, Goto, Holds
<1>3. Counters'
  BY <1>2 DEF IndInv, TypeOK, Counters, Held, Holds, PushCall, Goto, popVars
<1> QED BY <1>1, <1>2, <1>3, Zenon DEF IndInv

\* The load of m_head: a ticket may be claimed only where the ring has room for it.
LEMMA PushCheckStep ==
    ASSUME IndInv, NEW p \in Producers, PushCheck(p)
    PROVE  IndInv'
<1>1. TypeOK'
  BY Zenon DEF IndInv, TypeOK, PushCheck, Goto, popVars, PushPCs
<1>2. /\ \A q \in Producers : Holds(q)' <=> Holds(q)
      /\ Flags' /\ Cells' /\ InOrder'
  BY UnheldStep, Zenon DEF IndInv, TypeOK, PushCheck, Goto, Holds
<1>3. tail[p] \in Nat /\ tail[p] <= m_tail /\ m_head <= Word - SIZE
  BY DEF IndInv, TypeOK, Counters
<1>4. pc'[p] = "claim" => m_head <= tail[p] /\ tail[p] < m_head + SIZE
  BY <1>3 DEF IndInv, TypeOK, PushCheck, Goto, Sub
<1>5. Counters'
  BY <1>2, <1>4 DEF IndInv, TypeOK, Counters, Held, Holds, PushCheck, Goto, popVars
<1> QED BY <1>1, <1>2, <1>5, Zenon DEF IndInv

\* The compare-and-swap fails.
LEMMA PushClaimFailStep ==
    ASSUME IndInv, NEW p \in Producers, PushClaimFail(p)
    PROVE  IndInv'
<1>1. TypeOK'
  BY DEF IndInv, TypeOK, PushClaimFail, Goto, popVars, PushPCs
<1>2. /\ \A q \in Producers : Holds(q)' <=> Holds(q)
      /\ Flags' /\ Cells' /\ InOrder'
  BY UnheldStep, Zenon DEF IndInv, TypeOK, PushClaimFail, Goto, Holds
<1>3. Counters'
  BY <1>2 DEF IndInv, TypeOK, Counters, Held, Holds, PushClaimFail, Goto, popVars
<1> QED BY <1>1, <1>2, <1>3, Zenon DEF IndInv
\* The compare-and-swap succeeds: the first ticket ahead gets its holder.
LEMMA PushClaimStep ==
    ASSUME IndInv, NEW p \in Producers, PushClaim(p)
    PROVE  IndInv'
<1> USE DEF PushClaim, Goto, popVars
<1>1. TypeOK'
  BY DEF IndInv, TypeOK, PushPCs
<1>2. /\ tail[p] = m_tail /\ m_tail' = m_tail + 1 /\ m_tail < m_head + SIZE
      /\ ~Holds(p) /\ Holds(p)'
      /\ \A q \in Producers \ {p} : (Holds(q)' <=> Holds(q)) /\ pc'[q] = pc[q]
  BY DEF IndInv, TypeOK, Counters, Holds
<1>3. /\ Tickets' = Tickets \cup {m_tail} /\ m_tail \notin Tickets
      /\ Ahead' = Ahead \ {m_tail} /\ m_tail \in Ahead
      /\ m_tail # m_head \/ cpc = "idle"
  BY <1>2 DEF IndInv, TypeOK, Counters, Tickets, Ahead
<1>4. \A i : Held(i)' <=> Held(i) \/ i = m_tail
  BY <1>2, Zenon DEF Held
<1>5. \A i : Item(i)' = Item(i)
  BY Zenon DEF Item
<1>6. Item(m_tail) = Raw
  BY <1>3, Zenon DEF IndInv, Cells, Item
<1>7. Counters'
  BY <1>2, <1>3, <1>4 DEF IndInv, TypeOK, Counters, Holds, Tickets
<1>8. Flags'
  BY <1>3, <1>4, Zenon DEF IndInv, Flags
<1>9. Cells'
  BY <1>2, <1>3, <1>4, <1>5 DEF IndInv, TypeOK, Cells
<1>10. InOrder'
  <2>1. \A q \in Producers, k \in 1 .. PerProducer : Item(m_tail) # <<q, k>>
    BY <1>6
  <2>2. \A i \in Tickets : i <= tail[p]
    BY <1>2 DEF Tickets, IndInv, TypeOK
  <2> QED BY <1>2, <1>3, <1>5, <2>1, <2>2 DEF IndInv, TypeOK, InOrder
<1> QED BY <1>1, <1>7, <1>8, <1>9, <1>10, Zenon DEF IndInv

\* The slot of a ticket that is held is no other ticket's.
LEMMA HeldSlot ==
    ASSUME IndInv, NEW p \in Producers, Holds(p)
    PROVE  /\ tail[p] \in Tickets /\ Held(tail[p]) /\ tail[p] \in Nat
           /\ tail[p] # m_head \/ cpc = "idle"
           /\ SlotOf(tail[p]) \in Slots
           /\ \A i \in Tickets \cup Ahead : SlotOf(i) = SlotOf(tail[p]) => i = tail[p]
           /\ \A q \in Producers : Holds(q) /\ SlotOf(tail[q]) = SlotOf(tail[p]) => q = p
<1>1. /\ tail[p] \in Tickets /\ Held(tail[p]) /\ tail[p] \in Nat
      /\ tail[p] # m_head \/ cpc = "idle"
  BY DEF IndInv, TypeOK, Counters, Tickets, Held
<1>2. \A i \in Tickets \cup Ahead : i \in Nat /\ i - tail[p] < SIZE /\ tail[p] - i < SIZE
  BY <1>1 DEF IndInv, TypeOK, Counters, Tickets, Ahead
<1>3. \A i \in Tickets \cup Ahead : SlotOf(i) = SlotOf(tail[p]) => i = tail[p]
  BY <1>1, <1>2, SlotFacts, Zenon
<1>4. \A q \in Producers : Holds(q) => tail[q] \in Tickets
  BY DEF IndInv, TypeOK, Counters, Tickets
<1>5. \A q \in Producers : Holds(q) /\ SlotOf(tail[q]) = SlotOf(tail[p]) => q = p
  BY <1>3, <1>4, Zenon DEF IndInv, Counters
<1> QED BY <1>1, <1>3, <1>5, SlotFacts, Zenon

\* The element is constructed in the slot of its ticket.
LEMMA PushConstructStep ==
    ASSUME IndInv, NEW p \in Producers, PushConstruct(p)
    PROVE  IndInv'
<1> USE DEF PushConstruct, Goto, popVars
<1>0. Holds(p) /\ sent[p] + 1 \in 1 .. PerProducer
  BY DEF IndInv, TypeOK, Counters, Holds
<1>1. TypeOK'
  <2>1. <<p, sent[p] + 1>> \in Elements
    BY <1>0, Zenon DEF Elements
  <2>2. data' \in [Slots -> Elements \cup {Raw, MovedFrom}]
    <3>1. data \in [Slots -> Elements \cup {Raw, MovedFrom}]
      BY Zenon DEF IndInv, TypeOK
    <3>2. \A e \in Elements : [data EXCEPT ![SlotOf(tail[p])] = e] \in
                                  [Slots -> Elements \cup {Raw, MovedFrom}]
      BY <3>1, Zenon
    <3> QED BY <2>1, <3>2, Zenon
  <2>3. pc' \in [Producers -> PushPCs]
    BY Zenon DEF IndInv, TypeOK, PushPCs
  <2> QED BY <2>2, <2>3, Zenon DEF IndInv, TypeOK
<1>2. \A q \in Producers : (Holds(q)' <=> Holds(q)) /\ (q # p => pc'[q] = pc[q])
  BY Zenon DEF IndInv, TypeOK, Holds
<1>3. Tickets' = Tickets /\ Ahead' = Ahead /\ \A i : Held(i)' <=> Held(i)
  BY <1>2, Zenon DEF Tickets, Ahead, Held
<1>4. /\ Item(tail[p])' = <<p, sent[p] + 1>>
      /\ \A i \in Tickets \cup Ahead : i # tail[p] =>
            Item(i)' = Item(i) /\ data'[SlotOf(i)] = data[SlotOf(i)]
  BY <1>0, HeldSlot DEF Item, IndInv, TypeOK
<1>5. m_head \in Tickets \/ cpc = "idle"
  BY DEF IndInv, TypeOK, Counters, Tickets
<1>6. tail[p] \notin Ahead /\ tail[p] \in Tickets /\ (tail[p] # m_head \/ cpc = "idle")
  BY <1>0, HeldSlot DEF Ahead, Tickets, IndInv, TypeOK
<1>7. Counters'
  BY <1>2, <1>3, Zenon DEF IndInv, TypeOK, Counters
<1>8. Flags'
  BY <1>3, Zenon DEF IndInv, Flags
<1>9. Cells'
  <2>1. \A q \in Producers \ {p} : Holds(q) => data'[SlotOf(tail[q])] = data[SlotOf(tail[q])]
    BY <1>0, HeldSlot, Zenon DEF IndInv, TypeOK
  <2>2. data'[SlotOf(tail[p])] = <<p, sent[p] + 1>>
    BY <1>0, HeldSlot, Zenon DEF IndInv, TypeOK
  <2> QED BY <1>0, <1>2, <1>3, <1>4, <1>5, <1>6, <2>1, <2>2, HeldSlot DEF IndInv, TypeOK, Cells, Holds
<1>10. InOrder'
  <2>1. Item(tail[p]) = Raw
    BY <1>0, <1>6, Zenon DEF IndInv, Cells, Item
  <2>2. received[p] <= sent[p] /\ received[p] \in Nat /\ sent[p] \in Nat
    BY DEF IndInv, TypeOK, InOrder
  <2>3. ASSUME NEW i \in Tickets, NEW q \in Producers, NEW k \in 1 .. PerProducer,
               Item(i)' = <<q, k>>
        PROVE  \/ i = tail[p] /\ q = p /\ k = sent[p] + 1
               \/ i # tail[p] /\ Item(i) = <<q, k>>
    <3>1. CASE i = tail[p]
      BY <1>4, <2>3, <3>1
    <3>2. CASE i # tail[p]
      BY <1>4, <2>3, <3>2, Zenon
    <3> QED BY <3>1, <3>2, Zenon
  <2>5. ASSUME NEW i \in Tickets, NEW q \in Producers, NEW k \in 1 .. PerProducer,
               Item(i) = <<q, k>>
        PROVE  i # tail[p] /\ Item(i)' = <<q, k>>
    BY <1>4, <2>1, <2>5
  <2>4. ASSUME NEW i \in Tickets, NEW k \in 1 .. PerProducer, Item(i) = <<p, k>>
        PROVE  i < tail[p] /\ k <= sent[p]
    <3>1. i # tail[p] /\ i \in Int /\ tail[p] \in Int
      BY <2>4, <2>5 DEF Tickets, IndInv, TypeOK
    <3> QED BY <1>0, <2>4, <3>1 DEF IndInv, InOrder
  <2>6. \A i \in Tickets, q \in Producers, k \in 1 .. PerProducer : Item(i)' = <<q, k>> =>
            /\ received[q] < k
            /\ k <= sent[q] \/ (pc'[q] = "publish" /\ i = tail[q])
            /\ Holds(q)' => i <= tail[q]
    BY <1>2, <1>6, <2>2, <2>3 DEF IndInv, TypeOK, InOrder, Tickets
  <2>7. \A i, j \in Tickets, q \in Producers, k, n \in 1 .. PerProducer :
            Item(i)' = <<q, k>> /\ Item(j)' = <<q, n>> /\ i < j => k < n
    BY <1>6, <2>2, <2>3, <2>4 DEF IndInv, InOrder, Tickets
  <2> QED BY <1>3, <2>5, <2>6, <2>7 DEF IndInv, InOrder
<1> QED BY <1>1, <1>7, <1>8, <1>9, <1>10, Zenon DEF IndInv
\* The flag is raised: the consumer may take the element.
LEMMA PushPublishStep ==
    ASSUME IndInv, NEW p \in Producers, PushPublish(p)
    PROVE  IndInv'
<1> USE DEF PushPublish, Goto, popVars
<1>0. Holds(p) /\ sent[p] + 1 \in 1 .. PerProducer /\ sent[p] \in Nat
  BY DEF IndInv, TypeOK, Counters, Holds
<1>1. TypeOK'
  <2>1. ready' \in [Slots -> BOOLEAN]
    <3>1. ready \in [Slots -> BOOLEAN]
      BY Zenon DEF IndInv, TypeOK
    <3> QED BY <3>1, Zenon
  <2>2. pc' \in [Producers -> PushPCs]
    BY Zenon DEF IndInv, TypeOK, PushPCs
  <2>3. sent' \in [Producers -> 0 .. PerProducer]
    BY <1>0 DEF IndInv, TypeOK
  <2> QED BY <2>1, <2>2, <2>3, Zenon DEF IndInv, TypeOK
<1>2. /\ ~Holds(p)' /\ sent'[p] = sent[p] + 1
      /\ \A q \in Producers \ {p} :
            (Holds(q)' <=> Holds(q)) /\ pc'[q] = pc[q] /\ sent'[q] = sent[q]
  BY Zenon DEF IndInv, TypeOK, Holds
<1>3. /\ Tickets' = Tickets /\ Ahead' = Ahead /\ \A i : Item(i)' = Item(i)
      /\ \A i : Held(i)' <=> Held(i) /\ i # tail[p]
  <2>1. Tickets' = Tickets /\ Ahead' = Ahead /\ \A i : Item(i)' = Item(i)
    BY Zenon DEF Tickets, Ahead, Item
  <2>2. \A i : Held(i)' <=> Held(i) /\ i # tail[p]
    BY <1>0, <1>2, Zenon DEF Held, IndInv, Counters
  <2> QED BY <2>1, <2>2, Zenon
<1>4. tail[p] \notin Ahead /\ tail[p] \in Tickets /\ (tail[p] # m_head \/ cpc = "idle")
  BY <1>0, HeldSlot DEF Ahead, Tickets, IndInv, TypeOK
<1>5. Item(tail[p]) = <<p, sent[p] + 1>>
  BY <1>4, Zenon DEF IndInv, Cells, Item
<1>6. Counters'
  BY <1>2, <1>3, Zenon DEF IndInv, TypeOK, Counters
<1>7. Flags'
  <2>0. ready \in [Slots -> BOOLEAN] /\ SlotOf(tail[p]) \in Slots
    BY <1>0, HeldSlot, Zenon DEF IndInv, TypeOK
  <2>1. \A i \in Tickets \cup Ahead : i # tail[p] => SlotOf(i) # SlotOf(tail[p])
    BY <1>0, HeldSlot, Zenon
  <2>2. \A i \in Tickets \cup Ahead : SlotOf(i) \in Slots
    BY SlotFacts DEF IndInv, TypeOK, Tickets, Ahead
  <2>3. /\ ready'[SlotOf(tail[p])]
        /\ \A i \in Tickets \cup Ahead : i # tail[p] => (ready'[SlotOf(i)] <=> ready[SlotOf(i)])
    BY <2>0, <2>1, <2>2, Zenon
  <2>4. \A i \in Ahead : ~ready'[SlotOf(i)]
    BY <1>4, <2>3, Zenon DEF IndInv, Flags
  <2>5. \A i \in Tickets : ready'[SlotOf(i)] <=> ~Held(i)' /\ ~(i = m_head /\ cpc = "release")
    BY <1>3, <1>4, <2>3, Zenon DEF IndInv, Flags
  <2> QED BY <1>3, <2>4, <2>5, Zenon DEF Flags
<1>8. Cells'
  <2>1. <<p, sent[p] + 1>> \in Elements
    BY <1>0, Zenon DEF Elements
  <2> QED BY <1>2, <1>3, <1>5, <2>1, Zenon DEF IndInv, TypeOK, Cells
<1>9. InOrder'
  <2>1. ASSUME NEW i \in Tickets, NEW q \in Producers, NEW k \in 1 .. PerProducer,
               Item(i) = <<q, k>>
        PROVE  /\ received[q] < k
               /\ k <= sent'[q] \/ (pc'[q] = "publish" /\ i = tail[q])
               /\ Holds(q)' => i <= tail[q]
    <3>1. CASE q = p
      <4>1. i = tail[p] => k = sent[p] + 1
        BY <1>5, <2>1, <3>1
      <4>2. received[p] < k /\ (k <= sent[p] \/ i = tail[p])
        BY <2>1, <3>1, Zenon DEF IndInv, InOrder
      <4> QED BY <1>0, <1>2, <3>1, <4>1, <4>2
    <3>2. CASE q # p
      BY <1>2, <2>1, <3>2, ZenonT(40) DEF IndInv, InOrder
    <3> QED BY <3>1, <3>2, Zenon
  <2>2. ASSUME NEW q \in Producers, NEW k \in 1 .. PerProducer, received[q] < k, k <= sent'[q]
        PROVE  \E i \in Tickets : Item(i) = <<q, k>>
    <3>1. CASE q = p /\ k = sent[p] + 1
      BY <1>4, <1>5, <3>1, Zenon
    <3>2. CASE ~(q = p /\ k = sent[p] + 1)
      <4>1. k <= sent[q]
        BY <1>0, <1>2, <2>2, <3>2
      <4> QED BY <2>2, <4>1, Zenon DEF IndInv, InOrder
    <3> QED BY <3>1, <3>2, Zenon
  <2>3. \A q \in Producers : received[q] <= sent'[q]
    BY <1>0, <1>2 DEF IndInv, TypeOK, InOrder
  <2> QED BY <1>3, <2>1, <2>2, <2>3 DEF IndInv, InOrder
<1> QED BY <1>1, <1>6, <1>7, <1>8, <1>9, Zenon DEF IndInv

--------------------------------------------------------------------------------
(* One lemma per step of try_pop. *)

\* A step of the consumer that leaves the flags, the counters and the items as they are.
LEMMA PopInner ==
    ASSUME IndInv, UNCHANGED <<m_head, m_tail, ready, received, pushVars>>, TypeOK',
           m_head \in Tickets, ~Held(m_head), cpc' # "idle", cview' = m_head + 1,
           cpc # "release", cpc' # "release",
           \A i \in Tickets : Item(i)' = Item(i),
           \A i \in Tickets \cup Ahead : i # m_head => data'[SlotOf(i)] = data[SlotOf(i)],
           cpc' = "clear" => data'[SlotOf(m_head)] = Raw
    PROVE  IndInv'
<1>1. Tickets' = Tickets /\ Ahead' = Ahead
  BY Zenon DEF Tickets, Ahead
<1>2. (\A p \in Producers : Holds(p)' <=> Holds(p)) /\ \A i : Held(i)' <=> Held(i)
  BY Zenon DEF Held, Holds, pushVars
<1>3. m_head \notin Ahead /\ m_head < m_tail
  BY DEF Tickets, Ahead, IndInv, TypeOK
<1>0. Counters /\ Cells
  BY Zenon DEF IndInv
<1>4. Counters'
  BY <1>0, <1>2, <1>3, Zenon DEF Counters, pushVars
<1>5. Flags'
  BY <1>1, <1>2, Zenon DEF IndInv, Flags
<1>6. Cells'
  <2>1. \A p \in Producers : Holds(p) => tail[p] \in Tickets /\ tail[p] # m_head
    BY HeldSlot, Zenon DEF Held
  <2>2. \A i \in Ahead' : data'[SlotOf(i)] = Raw
    BY <1>0, <1>1, <1>3, Zenon DEF Cells
  <2>3. \A p \in Producers :
           /\ pc'[p] = "construct" => data'[SlotOf(tail'[p])] = Raw
           /\ pc'[p] = "publish" => data'[SlotOf(tail'[p])] = <<p, sent'[p] + 1>>
    BY <1>0, <2>1, Zenon DEF Cells, Holds, pushVars
  <2>4. \A i \in Tickets' : ~Held(i)' => Item(i)' \in Elements
    BY <1>0, <1>1, <1>2, Zenon DEF Cells
  <2> QED BY <2>2, <2>3, <2>4, Zenon DEF Cells
<1>7. InOrder'
  BY <1>1, <1>2 DEF IndInv, InOrder, pushVars
<1> QED BY <1>4, <1>5, <1>6, <1>7, Zenon DEF IndInv

\* The flag of m_head's slot is raised: its ticket has been published.
LEMMA PopCheckStep ==
    ASSUME IndInv, PopCheck
    PROVE  IndInv'
<1> USE DEF PopCheck, CGoto
<1>1. TypeOK'
  BY DEF IndInv, TypeOK, pushVars, PopPCs
<1>2. m_head \in Tickets
  <2>1. m_head \notin Ahead
    BY Zenon DEF IndInv, Flags
  <2> QED BY <2>1 DEF IndInv, TypeOK, Counters, Tickets, Ahead
<1>3. ~Held(m_head)
  BY <1>2, Zenon DEF IndInv, Flags
<1>4. \A i : Item(i)' = Item(i)
  BY Zenon DEF Item
<1> QED BY <1>1, <1>2, <1>3, <1>4, PopInner, Zenon

\* The slots of the other tickets are not m_head's.
LEMMA HeadSlot ==
    ASSUME IndInv, cpc # "idle"
    PROVE  /\ SlotOf(m_head) \in Slots
           /\ \A i \in Tickets \cup Ahead : i # m_head => SlotOf(i) # SlotOf(m_head)
<1>1. \A i \in Tickets \cup Ahead : i \in Nat /\ i - m_head < SIZE /\ m_head - i < SIZE
  BY HeadItem DEF IndInv, TypeOK, Counters, Tickets, Ahead
<1> QED BY <1>1, SlotFacts, Zenon DEF IndInv, TypeOK
\* The element is moved out of its slot.
LEMMA PopMoveStep ==
    ASSUME IndInv, PopMove
    PROVE  IndInv'
<1> USE DEF PopMove, CGoto
<1>0. /\ m_head \in Tickets /\ ~Held(m_head) /\ Item(m_head) \in Elements
      /\ Item(m_head) = data[SlotOf(m_head)] /\ cview = m_head + 1
  BY HeadItem, Zenon DEF IndInv, Counters, Item
<1>1. TypeOK'
  <2>1. data \in [Slots -> Elements \cup {Raw, MovedFrom}]
    BY Zenon DEF IndInv, TypeOK
  <2>2. data' \in [Slots -> Elements \cup {Raw, MovedFrom}]
    BY <2>1, Zenon
  <2> QED BY <1>0, <2>2, Zenon DEF IndInv, TypeOK, pushVars, PopPCs
<1>2. \A i \in Tickets \cup Ahead : i # m_head => data'[SlotOf(i)] = data[SlotOf(i)]
  BY HeadSlot DEF IndInv, TypeOK
<1>3. \A i \in Tickets : Item(i)' = Item(i)
  BY <1>0, <1>2, Zenon DEF Item
<1> QED BY <1>0, <1>1, <1>2, <1>3, PopInner, Zenon

\* What is left in the slot is destroyed.
LEMMA PopDestroyStep ==
    ASSUME IndInv, PopDestroy
    PROVE  IndInv'
<1> USE DEF PopDestroy, CGoto
<1>0. m_head \in Tickets /\ ~Held(m_head) /\ cview = m_head + 1
  BY HeadItem, Zenon DEF IndInv, Counters
<1>1. TypeOK'
  <2>1. data \in [Slots -> Elements \cup {Raw, MovedFrom}]
    BY Zenon DEF IndInv, TypeOK
  <2>2. data' \in [Slots -> Elements \cup {Raw, MovedFrom}]
    BY <2>1, Zenon
  <2> QED BY <2>2, Zenon DEF IndInv, TypeOK, pushVars, PopPCs
<1>2. /\ \A i \in Tickets \cup Ahead : i # m_head => data'[SlotOf(i)] = data[SlotOf(i)]
      /\ data'[SlotOf(m_head)] = Raw
  BY HeadSlot DEF IndInv, TypeOK
<1>3. \A i \in Tickets : Item(i)' = Item(i)
  BY <1>0, <1>2, Zenon DEF Item
<1> QED BY <1>0, <1>1, <1>2, <1>3, PopInner, Zenon

\* The flag is lowered while the slot is still the consumer's.
LEMMA PopClearStep ==
    ASSUME IndInv, PopClear
    PROVE  IndInv'
<1> USE DEF PopClear, CGoto, pushVars
<1>0. m_head \in Tickets /\ ~Held(m_head) /\ cview = m_head + 1
  BY HeadItem, Zenon DEF IndInv, Counters
<1>1. TypeOK'
  <2>1. ready \in [Slots -> BOOLEAN]
    BY Zenon DEF IndInv, TypeOK
  <2>2. ready' \in [Slots -> BOOLEAN]
    BY <2>1, Zenon
  <2> QED BY <2>2, Zenon DEF IndInv, TypeOK, PopPCs
<1>2. /\ Tickets' = Tickets /\ Ahead' = Ahead /\ \A i : Item(i)' = Item(i)
      /\ \A p \in Producers : Holds(p)' <=> Holds(p)
      /\ \A i : Held(i)' <=> Held(i)
  BY Zenon DEF Tickets, Ahead, Item, Held, Holds
<1>3. Counters'
  BY <1>2, Zenon DEF IndInv, Counters
<1>4. Flags'
  <2>1. ready \in [Slots -> BOOLEAN] /\ SlotOf(m_head) \in Slots
    BY HeadSlot, Zenon DEF IndInv, TypeOK
  <2>2. \A i \in Tickets \cup Ahead :
            SlotOf(i) \in Slots /\ (i # m_head => SlotOf(i) # SlotOf(m_head))
    BY HeadSlot, SlotFacts DEF IndInv, TypeOK, Tickets, Ahead
  <2>3. /\ ~ready'[SlotOf(m_head)]
        /\ \A i \in Tickets \cup Ahead : i # m_head => (ready'[SlotOf(i)] <=> ready[SlotOf(i)])
    BY <2>1, <2>2, Zenon
  <2>4. m_head \notin Ahead
    BY <1>0 DEF Tickets, Ahead, IndInv, TypeOK
  <2>5. \A i \in Ahead : ~ready'[SlotOf(i)]
    BY <2>3, <2>4, Zenon DEF IndInv, Flags
  <2>6. \A i \in Tickets : ready'[SlotOf(i)] <=> ~Held(i) /\ i # m_head
    BY <2>3, Zenon DEF IndInv, Flags
  <2> QED BY <1>2, <2>5, <2>6, Zenon DEF Flags
<1>5. Cells'
  BY <1>2, Zenon DEF IndInv, Cells
<1>6. InOrder'
  BY <1>2 DEF IndInv, InOrder
<1> QED BY <1>1, <1>3, <1>4, <1>5, <1>6, Zenon DEF IndInv

\* m_head passes the ticket: its slot is free for the ticket SIZE later.
LEMMA PopReleaseStep ==
    ASSUME IndInv, PopRelease
    PROVE  IndInv'
<1> USE DEF PopRelease, CGoto, pushVars
<1>0. m_head \in Tickets /\ ~Held(m_head) /\ Item(m_head) = out /\ m_head \in Nat
  BY HeadItem, Zenon DEF Item, IndInv, TypeOK
<1>1. PICK p \in Producers, n \in 1 .. PerProducer : out = <<p, n>>
  BY <1>0, HeadItem DEF Elements
<1>2. n = received[p] + 1 /\ n <= sent[p] /\ received[p] \in Nat
  BY <1>0, <1>1, HeadItem, Zenon DEF IndInv, TypeOK
<1>3. received' = [received EXCEPT ![p] = n]
  BY <1>1, <1>2, Zenon
<1>4. TypeOK'
  BY <1>2, <1>3 DEF IndInv, TypeOK, PopPCs
<1>5. /\ Tickets' = Tickets \ {m_head} /\ Ahead' = Ahead \cup {m_head + SIZE}
      /\ m_head < m_tail /\ m_head' = m_head + 1
  BY <1>0 DEF Tickets, Ahead, IndInv, TypeOK, Counters
<1>6. /\ \A i \in Tickets' : Item(i)' = Item(i)
      /\ \A q \in Producers : Holds(q)' <=> Holds(q)
      /\ \A i : Held(i)' <=> Held(i)
  <2>1. \A i \in Tickets' : Item(i)' = Item(i)
    BY <1>5, Zenon DEF Item
  <2> QED BY <2>1, Zenon DEF Held, Holds
<1>7. Counters'
  <2>1. \A q \in Producers : Holds(q) => m_head + 1 <= tail[q]
    BY <1>0 DEF Held, IndInv, TypeOK, Counters
  <2> QED BY <1>5, <1>6, <2>1 DEF IndInv, TypeOK, Counters
<1>8. SlotOf(m_head + SIZE) = SlotOf(m_head) /\ m_head \in Tickets
  BY <1>0, SlotFacts, Zenon
<1>9. Flags'
  <2>1. ~ready[SlotOf(m_head)]
    BY <1>0, Zenon DEF IndInv, Flags
  <2>2. \A i \in Tickets' : i \in Tickets /\ i # m_head
    BY <1>5, Zenon
  <2>3. \A i \in Tickets' : ready[SlotOf(i)] <=> ~Held(i)
    BY <2>2, Zenon DEF IndInv, Flags
  <2>4. \A i \in Ahead' : ~ready[SlotOf(i)]
    BY <1>5, <1>8, <2>1, Zenon DEF IndInv, Flags
  <2> QED BY <1>6, <2>3, <2>4, Zenon DEF Flags
<1>10. Cells'
  <2>1. data[SlotOf(m_head)] = Raw
    BY Zenon DEF IndInv, Cells
  <2> QED BY <1>5, <1>6, <1>8, <2>1, Zenon DEF IndInv, Cells
<1>11. InOrder'
  <2>1. ASSUME NEW i \in Tickets', NEW q \in Producers, NEW k \in 1 .. PerProducer,
               Item(i) = <<q, k>>
        PROVE  /\ received'[q] < k
               /\ k <= sent[q] \/ (pc[q] = "publish" /\ i = tail[q])
               /\ Holds(q) => i <= tail[q]
    <3>1. i \in Tickets /\ m_head < i
      BY <1>0, <1>5 DEF Tickets
    <3>2. q = p => n < k
      BY <1>0, <1>1, <2>1, <3>1, Zenon DEF IndInv, InOrder
    <3>3. received'[q] < k
      BY <1>3, <2>1, <3>1, <3>2, Zenon DEF IndInv, TypeOK, InOrder
    <3> QED BY <2>1, <3>1, <3>3, Zenon DEF IndInv, InOrder
  <2>2. ASSUME NEW q \in Producers, NEW k \in 1 .. PerProducer, received'[q] < k, k <= sent[q]
        PROVE  \E i \in Tickets' : Item(i) = <<q, k>>
    <3>1. received[q] < k /\ ~(q = p /\ k = n)
      BY <1>2, <1>3, <2>2 DEF IndInv, TypeOK
    <3>2. PICK i \in Tickets : Item(i) = <<q, k>>
      BY <2>2, <3>1, Zenon DEF IndInv, InOrder
    <3>3. i # m_head
      BY <1>0, <1>1, <3>1, <3>2
    <3> QED BY <1>5, <3>2, <3>3, Zenon
  <2>3. \A q \in Producers : received'[q] <= sent[q]
    BY <1>2, <1>3, Zenon DEF IndInv, TypeOK, InOrder
  <2>4. \A i, j \in Tickets', q \in Producers, k, l \in 1 .. PerProducer :
            Item(i) = <<q, k>> /\ Item(j) = <<q, l>> /\ i < j => k < l
    BY <1>5, Zenon DEF IndInv, InOrder
  <2> QED BY <1>6, <2>1, <2>2, <2>3, <2>4 DEF InOrder
<1> QED BY <1>4, <1>7, <1>9, <1>10, <1>11, Zenon DEF IndInv

--------------------------------------------------------------------------------
(* The theorems. *)

\* Every step of the producers and of the consumer preserves the invariant.
LEMMA Invariance == Spec => []IndInv
<1>1. ASSUME IndInv, [Next]_vars
      PROVE  IndInv'
  <2>1. CASE UNCHANGED vars
    <3> USE <2>1 DEF vars, pushVars, popVars
    <3>1. /\ Tickets' = Tickets /\ Ahead' = Ahead /\ \A i : Item(i)' = Item(i)
          /\ \A p \in Producers : Holds(p)' <=> Holds(p)
          /\ \A i : Held(i)' <=> Held(i)
      BY Zenon DEF Tickets, Ahead, Item, Held, Holds
    <3>2. TypeOK'
      BY <1>1, Zenon DEF IndInv, TypeOK
    <3>3. Counters'
      BY <1>1, <3>1, Zenon DEF IndInv, Counters
    <3>4. Flags'
      BY <1>1, <3>1, Zenon DEF IndInv, Flags
    <3>5. Cells'
      BY <1>1, <3>1, Zenon DEF IndInv, Cells
    <3>6. InOrder'
      BY <1>1, <3>1 DEF IndInv, InOrder
    <3> QED BY <3>2, <3>3, <3>4, <3>5, <3>6, Zenon DEF IndInv
  <2>2. CASE PopStep
    BY <1>1, <2>2, PopCheckStep, PopMoveStep, PopDestroyStep, PopClearStep, PopReleaseStep, Zenon
       DEF PopStep
  <2>3. ASSUME NEW p \in Producers, PushStep(p)
        PROVE  IndInv'
    BY <1>1, <2>3, PushCallStep, PushCheckStep, PushClaimStep, PushClaimFailStep,
       PushConstructStep, PushPublishStep, Zenon DEF PushStep
  <2> QED BY <1>1, <2>1, <2>2, <2>3, Zenon DEF Next
<1> QED BY InitInv, <1>1, PTL DEF Spec

(* A slot has one user at a time, for any number of producers, any ring and   *)
(* any number of elements: the ticket protocol of MPSCQueue.hh, with its      *)
(* acquire and release accesses, is free of data races.                       *)
THEOREM SlotsAreExclusive == Spec => []SlotsExclusive
<1>1. IndInv => SlotsExclusive
  <2> SUFFICES ASSUME IndInv PROVE SlotsExclusive
    OBVIOUS
  <2>1. ASSUME NEW p \in Producers, Holds(p)
        PROVE  /\ m_head <= tail[p] /\ tail[p] < m_head + SIZE
               /\ tail[p] - view[p] < SIZE
               /\ ~ready[SlotOf(tail[p])]
               /\ pc[p] = "construct" => data[SlotOf(tail[p])] = Raw
               /\ \A q \in Producers \ {p} : Holds(q) => SlotOf(tail[q]) # SlotOf(tail[p])
    <3>1. m_head <= tail[p] /\ tail[p] < m_head + SIZE /\ tail[p] - view[p] < SIZE
      BY <2>1 DEF IndInv, TypeOK, Counters, Holds
    <3>2. tail[p] \in Tickets /\ Held(tail[p])
      BY <2>1, HeldSlot, Zenon
    <3>3. ~ready[SlotOf(tail[p])]
      BY <3>2, Zenon DEF IndInv, Flags
    <3>4. pc[p] = "construct" => data[SlotOf(tail[p])] = Raw
      BY Zenon DEF IndInv, Cells
    <3>5. \A q \in Producers \ {p} : Holds(q) => SlotOf(tail[q]) # SlotOf(tail[p])
      BY <2>1, HeldSlot, Zenon
    <3> QED BY <3>1, <3>3, <3>4, <3>5, Zenon
  <2>2. cpc = "move" => cview > m_head /\ data[SlotOf(m_head)] \in Elements
    BY HeadItem DEF IndInv, TypeOK, Counters, Item
  <2> QED BY <2>1, <2>2, Zenon DEF IndInv, SlotsExclusive
<1> QED BY <1>1, Invariance, PTL

(* try_pop returns the elements of every producer once each, in the order in  *)
(* which it pushed them, however the producers' claims and publications and   *)
(* the consumer's steps interleave.                                           *)
THEOREM OrderIsKept == Spec => []OrderKept
<1>1. IndInv => OrderKept
  <2> SUFFICES ASSUME IndInv PROVE OrderKept
    OBVIOUS
  <2>1. ASSUME cpc \in {"destroy", "clear", "release"}
        PROVE  out[2] = received[out[1]] + 1
    <3>1. Item(m_head) = out /\ out \in Elements
      BY <2>1, HeadItem, Zenon DEF Item
    <3>2. PICK p \in Producers, n \in 1 .. PerProducer : out = <<p, n>>
      BY <3>1 DEF Elements
    <3>3. n = received[p] + 1
      BY <2>1, <3>1, <3>2, HeadItem, Zenon
    <3> QED BY <3>2, <3>3, Zenon
  <2> QED BY <2>1, Zenon DEF IndInv, InOrder, OrderKept
<1> QED BY <1>1, Invariance, PTL

(* try_push refuses an element only if the ring is full or another producer   *)
(* has claimed a ticket since: the wrapped difference of line 119 refuses     *)
(* nobody else.                                                               *)
THEOREM RefusalsAreExcused == Spec => RefusalExcused
<1>1. ASSUME IndInv, [Next]_vars, NEW p \in Producers, pc[p] = "check", pc'[p] = "idle"
      PROVE  m_tail - m_head = SIZE \/ m_tail > tail[p]
  <2>1. PushCheck(p)
    <3>1. pc' # pc
      BY <1>1, Zenon
    <3>2. ~PopStep /\ ~UNCHANGED vars
      BY <3>1, Zenon DEF PopStep, PopCheck, PopMove, PopDestroy, PopClear, PopRelease, pushVars, vars
    <3>3. PICK q \in Producers : PushStep(q)
      BY <1>1, <3>2, Zenon DEF Next
    <3>4. q = p
      BY <1>1, <3>3, Zenon DEF PushStep, PushCall, PushCheck, PushClaim, PushClaimFail, PushConstruct,
                        PushPublish, Goto, IndInv, TypeOK
    <3>5. pc'[p] = "idle" /\ pc[p] = "check" /\ pc \in [Producers -> PushPCs]
      BY <1>1, Zenon DEF IndInv, TypeOK
    <3> QED BY <3>3, <3>4, <3>5, Zenon DEF PushStep, PushCall, PushClaim, PushClaimFail, PushConstruct,
                                    PushPublish, Goto
  <2>2. Sub(tail[p], m_head) >= SIZE
    BY <1>1, <2>1, Zenon DEF PushCheck, Goto, IndInv, TypeOK
  <2> QED BY <1>1, <2>2 DEF IndInv, TypeOK, Counters, Sub
<1>2. IndInv /\ [Next]_vars =>
        [\A p \in Producers :
           pc[p] = "check" /\ pc'[p] = "idle" => m_tail - m_head = SIZE \/ m_tail > tail[p]]_vars
  BY <1>1, Zenon
<1> QED BY <1>2, Invariance, PTL DEF Spec, RefusalExcused
================================================================================
