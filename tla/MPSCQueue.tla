------------------------------- MODULE MPSCQueue -------------------------------
(******************************************************************************)
(* fiah::MPSCQueue (src/include/fiah/structs/MPSCQueue.hh): a ring into which *)
(* any number of producers push and from which one consumer pops.  A producer *)
(* claims a ticket by a compare-and-swap on m_tail, constructs its element in *)
(* the ticket's slot and raises the slot's ready flag; the consumer waits for *)
(* the flag of the slot of m_head.                                            *)
(*                                                                            *)
(* The client is that of benchmarks/MPSCQueue_bench.cc: every producer pushes *)
(* its elements 1 .. PerProducer in turn, repeating a refused try_push.       *)
(*                                                                            *)
(* The counters are std::uint64_t.  Only m_tail - head can leave their range  *)
(* before Word - SIZE tickets have been issued, which bounds the model.       *)
(*                                                                            *)
(* view[p] and cview are what the acquire loads have ordered before the next  *)
(* access of p and of the consumer: the value of m_head that p acquired, and  *)
(* the number of tickets whose construction the consumer acquired.            *)
(******************************************************************************)
EXTENDS Integers, FiniteSets

CONSTANTS Producers, PerProducer, SIZE, Word, Raw, MovedFrom, None

ASSUME SizeAssumption == SIZE \in Nat \ {0}
ASSUME WordAssumption == Word \in Nat /\ Word > 2 * SIZE
ASSUME PerProducerAssumption == PerProducer \in Nat
ASSUME RawAssumption == {Raw, MovedFrom} \cap (Producers \X (1 .. PerProducer)) = {}

VARIABLES
    m_head, m_tail,
    data, ready,       \* the two members of each Slot of m_array
    pc, tail, view,    \* the producers' next steps and registers
    sent,              \* the number of elements each producer has pushed
    cpc, out, cview,   \* the consumer's
    received           \* the number of each producer's elements that try_pop returned

pushVars == <<pc, tail, view, sent>>
popVars == <<cpc, out, cview, received>>
vars == <<m_head, m_tail, data, ready, pushVars, popVars>>

Slots == 0 .. SIZE - 1
SlotOf(ticket) == ticket % SIZE
Elements == Producers \X (1 .. PerProducer)

\* a - b in std::uint64_t.
Sub(a, b) == IF a >= b THEN a - b ELSE a - b + Word

Init ==
    /\ m_head = 0 /\ m_tail = 0
    /\ data = [s \in Slots |-> Raw]
    /\ ready = [s \in Slots |-> FALSE]
    /\ pc = [p \in Producers |-> "idle"]
    /\ tail = [p \in Producers |-> 0]
    /\ view = [p \in Producers |-> 0]
    /\ sent = [p \in Producers |-> 0]
    /\ cpc = "idle"
    /\ out = None
    /\ cview = 0
    /\ received = [p \in Producers |-> 0]

Goto(p, from, to) == pc[p] = from /\ pc' = [pc EXCEPT ![p] = to]
CGoto(from, to) == cpc = from /\ cpc' = to

--------------------------------------------------------------------------------
(* try_push. *)

PushCall(p) ==
    /\ sent[p] < PerProducer
    /\ Goto(p, "idle", "check")
    /\ tail' = [tail EXCEPT ![p] = m_tail]
    /\ UNCHANGED <<m_head, m_tail, data, ready, view, sent, popVars>>

\* Mutants: the ring is taken to be full one element early; head is loaded relaxed.
PushCheckEarly(p) ==
    /\ view' = [view EXCEPT ![p] = m_head]
    /\ \/ Sub(tail[p], m_head) >= SIZE - 1 /\ Goto(p, "check", "idle")
       \/ Sub(tail[p], m_head) < SIZE - 1 /\ Goto(p, "check", "claim")
    /\ UNCHANGED <<m_head, m_tail, data, ready, tail, sent, popVars>>

PushCheckRelaxed(p) ==
    /\ \/ Sub(tail[p], m_head) >= SIZE /\ Goto(p, "check", "idle")
       \/ Sub(tail[p], m_head) < SIZE /\ Goto(p, "check", "claim")
    /\ UNCHANGED <<m_head, m_tail, data, ready, view, tail, sent, popVars>>

\* The load of m_head and the full check, which a tail that others overtook also fails.
PushCheck(p) ==
    /\ view' = [view EXCEPT ![p] = m_head]
    /\ \/ Sub(tail[p], m_head) >= SIZE /\ Goto(p, "check", "idle")
       \/ Sub(tail[p], m_head) < SIZE /\ Goto(p, "check", "claim")
    /\ UNCHANGED <<m_head, m_tail, data, ready, tail, sent, popVars>>

\* Mutant: a load and a store instead of the compare-and-swap.
PushClaimTorn(p) ==
    /\ Goto(p, "claim", "construct")
    /\ m_tail' = tail[p] + 1
    /\ UNCHANGED <<m_head, data, ready, tail, view, sent, popVars>>

\* compare_exchange_weak succeeds,
PushClaim(p) ==
    /\ m_tail = tail[p]
    /\ m_tail < Word - SIZE
    /\ Goto(p, "claim", "construct")
    /\ m_tail' = m_tail + 1
    /\ UNCHANGED <<m_head, data, ready, tail, view, sent, popVars>>

\* or fails, as it may even when m_tail = tail[p], and loads m_tail for the next round.
PushClaimFail(p) ==
    /\ Goto(p, "claim", "check")
    /\ tail' = [tail EXCEPT ![p] = m_tail]
    /\ UNCHANGED <<m_head, m_tail, data, ready, view, sent, popVars>>

PushConstruct(p) ==
    /\ Goto(p, "construct", "publish")
    /\ data' = [data EXCEPT ![SlotOf(tail[p])] = <<p, sent[p] + 1>>]
    /\ UNCHANGED <<m_head, m_tail, ready, tail, view, sent, popVars>>

\* Mutant: the element is lost.
PushPublishLost(p) ==
    /\ Goto(p, "publish", "idle")
    /\ sent' = [sent EXCEPT ![p] = @ + 1]
    /\ UNCHANGED <<ready, m_head, m_tail, data, tail, view, popVars>>

PushPublish(p) ==
    /\ Goto(p, "publish", "idle")
    /\ ready' = [ready EXCEPT ![SlotOf(tail[p])] = TRUE]
    /\ sent' = [sent EXCEPT ![p] = @ + 1]
    /\ UNCHANGED <<m_head, m_tail, data, tail, view, popVars>>

--------------------------------------------------------------------------------
(* try_pop. *)

\* The load of the flag of m_head's slot; try_pop returns false where it is not raised.
PopCheck ==
    /\ ready[SlotOf(m_head)]
    /\ CGoto("idle", "move")
    /\ cview' = m_head + 1
    /\ UNCHANGED <<m_head, m_tail, data, ready, out, received, pushVars>>

PopMove ==
    /\ CGoto("move", "destroy")
    /\ out' = data[SlotOf(m_head)]
    /\ data' = [data EXCEPT ![SlotOf(m_head)] = MovedFrom]
    /\ UNCHANGED <<m_head, m_tail, ready, cview, received, pushVars>>

PopDestroy ==
    /\ CGoto("destroy", "clear")
    /\ data' = [data EXCEPT ![SlotOf(m_head)] = Raw]
    /\ UNCHANGED <<m_head, m_tail, ready, out, cview, received, pushVars>>

PopClear ==
    /\ CGoto("clear", "release")
    /\ ready' = [ready EXCEPT ![SlotOf(m_head)] = FALSE]
    /\ UNCHANGED <<m_head, m_tail, data, out, cview, received, pushVars>>

PopRelease ==
    /\ CGoto("release", "idle")
    /\ m_head' = m_head + 1
    /\ received' = [received EXCEPT ![out[1]] = @ + 1]
    /\ UNCHANGED <<m_tail, data, ready, out, cview, pushVars>>

--------------------------------------------------------------------------------
PushStep(p) ==
    \/ PushCall(p) \/ PushCheck(p) \/ PushClaim(p) \/ PushClaimFail(p)
    \/ PushConstruct(p) \/ PushPublish(p)

PopStep == PopCheck \/ PopMove \/ PopDestroy \/ PopClear \/ PopRelease

Next == PopStep \/ \E p \in Producers : PushStep(p)

Spec == Init /\ [][Next]_vars

(* Every thread keeps running, and a compare_exchange_weak that is tried      *)
(* again and again on a value that is current does not fail spuriously for    *)
(* ever.                                                                      *)
Fairness ==
    /\ WF_vars(PopStep)
    /\ \A p \in Producers : WF_vars(PushStep(p)) /\ SF_vars(PushClaim(p))

FairSpec == Spec /\ Fairness

--------------------------------------------------------------------------------
PushPCs == {"idle", "check", "claim", "construct", "publish"}
PopPCs == {"idle", "move", "destroy", "clear", "release"}

\* Every variable has a value of its type; the element a pop hands out is never raw bytes.
TypeOK ==
    /\ m_head \in Nat /\ m_tail \in 0 .. Word - SIZE
    /\ data \in [Slots -> Elements \cup {Raw, MovedFrom}]
    /\ ready \in [Slots -> BOOLEAN]
    /\ pc \in [Producers -> PushPCs]
    /\ tail \in [Producers -> Nat] /\ view \in [Producers -> Nat]
    /\ sent \in [Producers -> 0 .. PerProducer]
    /\ cpc \in PopPCs
    /\ out \in Elements \cup {None}
    /\ cview \in Nat
    /\ received \in [Producers -> Nat]

Holds(p) == pc[p] \in {"construct", "publish"}

(* Types, and exclusive and race-free access: two producers that hold tickets *)
(* hold different slots; the slot of a ticket is raw, not ready and not the   *)
(* consumer's; the acquire load of m_head (line 118) has ordered the pop that *)
(* emptied the slot before its construction, and the acquire load of the flag *)
(* (line 150) the construction before the move.                               *)
SlotsExclusive ==
    /\ TypeOK
    /\ \A p \in Producers : Holds(p) =>
          /\ m_head <= tail[p] /\ tail[p] < m_head + SIZE
          /\ tail[p] - view[p] < SIZE
          /\ ~ready[SlotOf(tail[p])]
          /\ pc[p] = "construct" => data[SlotOf(tail[p])] = Raw
          /\ \A q \in Producers \ {p} : Holds(q) => SlotOf(tail[q]) # SlotOf(tail[p])
    /\ cpc = "move" => cview > m_head /\ data[SlotOf(m_head)] \in Elements

(* Exactly once and in order: what try_pop moves out is the next element of   *)
(* its producer that was not received yet, and no more is received than sent. *)
OrderKept ==
    /\ cpc \in {"destroy", "clear", "release"} => out[2] = received[out[1]] + 1
    /\ \A p \in Producers : received[p] <= sent[p]

(* try_push returns false only if the ring holds SIZE tickets, or if another  *)
(* producer has claimed a ticket since this one loaded m_tail.                *)
RefusalExcused ==
    [][\A p \in Producers :
          pc[p] = "check" /\ pc'[p] = "idle" => m_tail - m_head = SIZE \/ m_tail > tail[p]]_vars

(* Every element pushed by the retrying producers is popped: neither a slow   *)
(* producer nor a refusal blocks the queue for ever.                          *)
AllReceived == <>[](\A p \in Producers : received[p] = PerProducer)
================================================================================
