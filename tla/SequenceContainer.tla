--------------------------- MODULE SequenceContainer ---------------------------
(******************************************************************************)
(* What fiah::Vector (src/include/fiah/structs/Vector.hh) promises a client:  *)
(* each vector is a sequence of elements; capacity and memory do not show.    *)
(******************************************************************************)
EXTENDS Naturals, Sequences

CONSTANTS
    Vectors, Values,
    Default,     \* the value-initialised element
    Absent,      \* a vector that is not constructed
    MaxSize      \* the bound on the length of a vector

VARIABLE contents

Alive(v) == contents[v] # Absent

Set(v, s) == contents' = [contents EXCEPT ![v] = s]

Init == contents = [v \in Vectors |-> Absent]

Construct(v) == ~Alive(v) /\ Set(v, <<>>)

PushBack(v, e) == Alive(v) /\ Len(contents[v]) < MaxSize /\ Set(v, Append(contents[v], e))

PopBack(v) ==
    /\ Alive(v) /\ contents[v] # <<>>
    /\ Set(v, SubSeq(contents[v], 1, Len(contents[v]) - 1))

Resize(v, n) ==
    /\ Alive(v)
    /\ Set(v, [i \in 1 .. n |-> IF i <= Len(contents[v]) THEN contents[v][i] ELSE Default])

Clear(v) == Alive(v) /\ Set(v, <<>>)

\* The copy constructor and the copy assignment.
Copy(v, w) == Alive(w) /\ Set(v, contents[w])

\* The move constructor and the move assignment; a vector moved to itself is empty.
Move(v, w) ==
    /\ Alive(w)
    /\ contents' = [contents EXCEPT ![v] = contents[w], ![w] = <<>>]

Destroy(v) == Alive(v) /\ Set(v, Absent)

Next ==
    \E v \in Vectors :
        \/ Construct(v) \/ PopBack(v) \/ Clear(v) \/ Destroy(v)
        \/ \E e \in Values \cup {Default} : PushBack(v, e)
        \/ \E n \in 0 .. MaxSize : Resize(v, n)
        \/ \E w \in Vectors : Copy(v, w) \/ Move(v, w)

Spec == Init /\ [][Next]_contents
================================================================================
