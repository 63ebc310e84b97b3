------------------------------- MODULE Orderbook -------------------------------
(******************************************************************************)
(* The limit order book (src/include/fiah/structs/Orderbook.hh).  bids_ is    *)
(* sorted by ascending and asks_ by descending level, so that the best order  *)
(* of either side is the last of its vector; of two orders at one level the   *)
(* older is closer to the end.  trades is what the last AddOrder returned.    *)
(******************************************************************************)
EXTENDS Integers, Sequences, FiniteSets, SequencesExt, FiniteSetsExt

CONSTANTS
    Ids, Levels,
    Quantities \* those of incoming orders; AddOrder does not require them to be positive

ASSUME LevelsAssumption == Levels \subseteq Int
ASSUME QuantitiesAssumption == Quantities \subseteq Int

VARIABLES bids_, asks_, trades

bookVars == <<bids_, asks_, trades>>

Order == [id : Ids, level : Levels, is_buy : BOOLEAN, qty : Quantities]

BookInit == bids_ = <<>> /\ asks_ = <<>> /\ trades = <<>>

can_match(buy, sell) == buy.level >= sell.level

is_dupe(order) == \E o \in ToSet(bids_) \cup ToSet(asks_) : o.id = order.id

\* Mutant: upper_bound, which puts the newcomer ahead of its level.
insertedAhead(orders, order) ==
    LET before(a, b) == IF order.is_buy THEN a <= b ELSE a >= b
        less == {i \in DOMAIN orders : before(orders[i].level, order.level)}
    IN  InsertAt(orders, Cardinality(less) + 1, order)

\* Mutant: asks sorted as bids are.
insertedAscending(orders, order) ==
    LET less == {i \in DOMAIN orders : orders[i].level < order.level}
    IN  InsertAt(orders, Cardinality(less) + 1, order)

(* The side of the order with the order inserted at the lower_bound of its    *)
(* level: behind the orders that sort before it, since the side is sorted.    *)
inserted(orders, order) ==
    LET before(a, b) == IF order.is_buy THEN a < b ELSE a > b
        less == {i \in DOMAIN orders : before(orders[i].level, order.level)}
    IN  InsertAt(orders, Cardinality(less) + 1, order)

Trade(incoming, best, size) ==
    [OrderIdA |-> IF incoming.is_buy THEN incoming.id ELSE best.id,
     OrderIdB |-> IF incoming.is_buy THEN best.id ELSE incoming.id,
     AggressorOrderId |-> incoming.id,
     AggressorIsBuy |-> incoming.is_buy,
     Level |-> IF incoming.is_buy THEN best.level ELSE incoming.level,
     Size |-> size]

\* Mutant: orders match whatever their levels.
matchOnceAnyLevel(incoming, m) ==
    LET best == Last(m.opposite)
        size == Min({best.qty, m.remaining})
    IN  IF m.opposite # <<>> /\ m.remaining > 0
        THEN [opposite |-> IF best.qty = size
                           THEN Front(m.opposite)
                           ELSE Front(m.opposite) \o <<[best EXCEPT !.qty = @ - size]>>,
              remaining |-> m.remaining - size,
              trades |-> Append(m.trades, Trade(incoming, best, size))]
        ELSE m

\* One round of the loop of lines 154 to 189, or none where the loop ends.
matchOnce(incoming, m) ==
    LET best == Last(m.opposite)
        size == Min({best.qty, m.remaining})
        match == IF incoming.is_buy THEN can_match(incoming, best) ELSE can_match(best, incoming)
    IN  IF m.opposite # <<>> /\ m.remaining > 0 /\ match
        THEN [opposite |-> IF best.qty = size
                           THEN Front(m.opposite)
                           ELSE Front(m.opposite) \o <<[best EXCEPT !.qty = @ - size]>>,
              remaining |-> m.remaining - size,
              trades |-> Append(m.trades, Trade(incoming, best, size))]
        ELSE m

\* The whole loop: every round but the last removes an order of the opposite side.
matched(incoming, opposite) ==
    LET loop[n \in 0 .. Len(opposite)] ==
            IF n = 0
            THEN [opposite |-> opposite, remaining |-> incoming.qty, trades |-> <<>>]
            ELSE matchOnce(incoming, loop[n - 1])
    IN  loop[Len(opposite)]

AddOrder(incoming) ==
    IF is_dupe(incoming)
    THEN trades' = <<>> /\ UNCHANGED <<bids_, asks_>>
    ELSE LET same == IF incoming.is_buy THEN bids_ ELSE asks_
             m == matched(incoming, IF incoming.is_buy THEN asks_ ELSE bids_)
             rest == IF m.remaining > 0
                     THEN inserted(same, [incoming EXCEPT !.qty = m.remaining])
                     ELSE same
         IN  /\ trades' = m.trades
             /\ bids_' = IF incoming.is_buy THEN rest ELSE m.opposite
             /\ asks_' = IF incoming.is_buy THEN m.opposite ELSE rest

\* The vector without the first order of that id, if it has one.
erased(orders, id) ==
    LET i == SelectInSeq(orders, LAMBDA o : o.id = id)
    IN  IF i = 0 THEN orders ELSE RemoveAt(orders, i)

CancelOrder(id) ==
    /\ bids_' = erased(bids_, id)
    /\ asks_' = IF bids_' # bids_ THEN asks_ ELSE erased(asks_, id)
    /\ UNCHANGED trades

BookNext ==
    \/ \E o \in Order : AddOrder(o)
    \/ \E id \in Ids : CancelOrder(id)

BookSpec == BookInit /\ [][BookNext]_bookVars

--------------------------------------------------------------------------------
\* The type invariant.
BookTypeOK ==
    /\ ToSet(bids_) \subseteq [id : Ids, level : Levels, is_buy : {TRUE}, qty : Nat \ {0}]
    /\ ToSet(asks_) \subseteq [id : Ids, level : Levels, is_buy : {FALSE}, qty : Nat \ {0}]

(* The book is in order, whatever was added, partly filled or cancelled       *)
(* before.  Both vectors are sorted with the best order last, which is what   *)
(* back() of AddOrder and the lower_bound of insert_order rely on; every      *)
(* resting order is on its side and has something left to trade; no id rests  *)
(* twice, so that CancelOrder cancels the order it names; and the book is not *)
(* crossed: no resting bid could trade with a resting ask.                    *)
BookInOrder ==
    LET both == bids_ \o asks_
    IN  /\ BookTypeOK
        /\ \A i, j \in DOMAIN bids_ : i < j => bids_[i].level <= bids_[j].level
        /\ \A i, j \in DOMAIN asks_ : i < j => asks_[i].level >= asks_[j].level
        /\ \A i, j \in DOMAIN both : both[i].id = both[j].id => i = j
        /\ \A b \in ToSet(bids_), a \in ToSet(asks_) : ~can_match(b, a)

Volume(orders) == FoldSeq(LAMBDA o, n : o.qty + n, 0, orders)
Traded == FoldSeq(LAMBDA t, n : t.Size + n, 0, trades)

\* The order that a step adds to the book or matches, if it is such a step.
Added ==
    IF bookVars' = bookVars THEN {} ELSE {o \in Order : ~is_dupe(o) /\ AddOrder(o)}

\* The resting orders that o may trade with, in the order of their priority.
Acceptable(o) ==
    LET opposite == Reverse(IF o.is_buy THEN asks_ ELSE bids_)
    IN  SelectSeq(opposite, LAMBDA r : IF o.is_buy THEN r.level <= o.level ELSE r.level >= o.level)

\* What the i-th of them gives.
Fill(o, resting, i) ==
    LET before == Volume(SubSeq(resting, 1, i - 1))
    IN  Max({0, Min({resting[i].qty, o.qty - before})})

(* Who trades with whom, stated without the loop: the opposite orders whose   *)
(* level is acceptable, best level first and oldest first within a level,     *)
(* each give what the incoming order still needs after the ones before it.    *)
(* And no quantity appears or vanishes: an order that is not a duplicate adds *)
(* its quantity to its side, and what was traded leaves both sides.           *)
MatchesReference ==
    [][\A o \in Added :
          LET resting == Acceptable(o)
              filled == {i \in DOMAIN resting : Fill(o, resting, i) > 0}
              fresh == Max({o.qty, 0})
          IN  /\ Len(trades') = Cardinality(filled)
              /\ \A i \in filled :
                    trades'[i] = Trade(o, resting[i], Fill(o, resting, i))
              /\ Volume(bids_)' = Volume(bids_) + (IF o.is_buy THEN fresh ELSE 0) - Traded'
              /\ Volume(asks_)' = Volume(asks_) + (IF o.is_buy THEN 0 ELSE fresh) - Traded']_bookVars

Position(orders, id) == SelectInSeq(orders, LAMBDA o : o.id = id)

(* Time priority: of two orders of one side and level that rest before and    *)
(* after a step, the one closer to back() stays closer, and an order that     *)
(* begins to rest gets behind all those already at its level.                 *)
TimePriority ==
    [][\A id, jd \in Ids :
          /\ Position(bids_, jd) > 0 /\ Position(bids_, id) < Position(bids_, jd)
             /\ Position(bids_', id) > 0 /\ Position(bids_', jd) > 0
             /\ bids_'[Position(bids_', id)].level = bids_'[Position(bids_', jd)].level
             => Position(bids_', id) < Position(bids_', jd)
          /\ Position(asks_, jd) > 0 /\ Position(asks_, id) < Position(asks_, jd)
             /\ Position(asks_', id) > 0 /\ Position(asks_', jd) > 0
             /\ asks_'[Position(asks_', id)].level = asks_'[Position(asks_', jd)].level
             => Position(asks_', id) < Position(asks_', jd)]_bookVars

\* The comment of line 90: "Aggressor's OrderId" of every trade is OrderIdB.
AggressorIsB == \A t \in ToSet(trades) : t.OrderIdB = t.AggressorOrderId
================================================================================
