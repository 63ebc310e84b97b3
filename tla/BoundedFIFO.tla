------------------------------ MODULE BoundedFIFO ------------------------------
(******************************************************************************)
(* What fiah::SPSCQueue promises its one producer and its one consumer: a     *)
(* first-in first-out queue of at most Capacity elements, whose push, pop and *)
(* destruction each take effect in one indivisible step between the call and  *)
(* the return.  push may only be refused when the queue holds Capacity        *)
(* elements, pop only when it holds none, and an operation left by an         *)
(* exception of the element type changes nothing.                             *)
(******************************************************************************)
EXTENDS Integers, Sequences

CONSTANTS Capacity, Values, None

VARIABLES
    items,   \* the elements in the queue, oldest first
    pushing, \* the argument of the push in progress, or None
    popping, \* whether a pop is in progress
    pushRet, \* how the last push ended
    popRet,  \* how the last pop ended
    got,     \* the element handed out by the last successful pop
    open     \* whether the queue has not been destroyed

vars == <<items, pushing, popping, pushRet, popRet, got, open>>

Init ==
    /\ items = <<>>
    /\ pushing = None
    /\ popping = FALSE
    /\ pushRet = "none"
    /\ popRet = "none"
    /\ got = None
    /\ open = TRUE

PushCall(v) ==
    /\ open
    /\ pushing = None
    /\ pushing' = v
    /\ UNCHANGED <<items, popping, pushRet, popRet, got, open>>

PushEnd(ret) ==
    /\ pushing # None
    /\ pushing' = None
    /\ pushRet' = ret
    /\ UNCHANGED <<popping, popRet, got, open>>

PushTake ==
    /\ PushEnd("ok")
    /\ Len(items) < Capacity
    /\ items' = Append(items, pushing)

PushRefuse ==
    /\ PushEnd("refused")
    /\ Len(items) = Capacity
    /\ UNCHANGED items

PushThrow == PushEnd("threw") /\ UNCHANGED items

PopCall ==
    /\ open
    /\ ~popping
    /\ popping' = TRUE
    /\ UNCHANGED <<items, pushing, pushRet, popRet, got, open>>

PopEnd(ret) ==
    /\ popping
    /\ popping' = FALSE
    /\ popRet' = ret
    /\ UNCHANGED <<pushing, pushRet, open>>

PopTake ==
    /\ PopEnd("ok")
    /\ items # <<>>
    /\ got' = Head(items)
    /\ items' = Tail(items)

PopRefuse ==
    /\ PopEnd("refused")
    /\ items = <<>>
    /\ UNCHANGED <<items, got>>

PopThrow == PopEnd("threw") /\ UNCHANGED <<items, got>>

Destroy ==
    /\ open
    /\ pushing = None
    /\ ~popping
    /\ open' = FALSE
    /\ items' = <<>>
    /\ UNCHANGED <<pushing, popping, pushRet, popRet, got>>

Next ==
    \/ \E v \in Values : PushCall(v)
    \/ PushTake \/ PushRefuse \/ PushThrow
    \/ PopCall \/ PopTake \/ PopRefuse \/ PopThrow
    \/ Destroy

Spec == Init /\ [][Next]_vars
================================================================================
