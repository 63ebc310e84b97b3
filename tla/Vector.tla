-------------------------------- MODULE Vector ---------------------------------
(******************************************************************************)
(* fiah::Vector<T> (src/include/fiah/structs/Vector.hh), used by one thread.  *)
(*                                                                            *)
(* A vector is its block of memory (cells, so that m_cap - m_begin is the     *)
(* length), the number of elements in it (m_end - m_begin) and whether        *)
(* m_begin is set.  No two vectors share a block, so a pointer that leaves    *)
(* its own block is all that an address could add: such a step, like the      *)
(* failure of an assert or the assignment to a cell without an element, ends  *)
(* the behaviour with the variable fault naming it.                           *)
(*                                                                            *)
(* T is trivially copyable, as in SPSCLogger's Vector<QueueT*>, or not.  If   *)
(* it is, assigning to raw memory makes an element, and an element needs no   *)
(* destructor.  Memory is never exhausted; MaxCapacity bounds the capacities  *)
(* that the calls ask for.                                                    *)
(******************************************************************************)
EXTENDS Integers, Sequences, FiniteSets

CONSTANTS Vectors, Values, Default, Raw, Absent, MaxCapacity

\* A vector is a block and the number of elements in it.
VectorRecords == [null : BOOLEAN, cells : Seq(Values \cup {Default, Raw}), size : Nat]

ASSUME VectorAssumption ==
    /\ MaxCapacity \in Nat
    /\ Raw \notin Values \cup {Default}
    /\ Absent \notin VectorRecords /\ Absent \notin Seq(Values \cup {Default})

VARIABLES
    vec,      \* the vectors; Absent where none is constructed
    trivial,  \* whether T is trivially copyable
    heap,     \* the number of blocks that are allocated
    fault     \* "none", or what ended the behaviour

vars == <<vec, trivial, heap, fault>>

ExpansionMult == 2

NullVector == [null |-> TRUE, cells |-> <<>>, size |-> 0]

capacity(x) == Len(x.cells)

\* The fresh block of _allocate_from_nullptr, without an element.
allocate(n) == [null |-> FALSE, cells |-> [i \in 1 .. n |-> Raw], size |-> 0]

\* _grow_capacity: the elements move to a larger block, and the old one is freed.
grow_capacity(x, n) ==
    [null |-> x.null, cells |-> [i \in 1 .. n |-> IF i <= x.size THEN x.cells[i] ELSE Raw], size |-> x.size]

\* x with its first n cells given by f and the others without an element.
Filled(x, n, f(_)) ==
    [null |-> x.null, cells |-> [i \in DOMAIN x.cells |-> IF i <= n THEN f(i) ELSE Raw], size |-> n]

Init ==
    /\ vec = [v \in Vectors |-> Absent]
    /\ trivial \in BOOLEAN
    /\ heap = 0
    /\ fault = "none"

Live(v) == fault = "none" /\ vec[v] # Absent

\* v becomes x, and n blocks are allocated.
Becomes(v, x, n) ==
    /\ capacity(x) <= MaxCapacity
    /\ vec' = [vec EXCEPT ![v] = x]
    /\ heap' = n
    /\ UNCHANGED <<trivial, fault>>

Fails(kind) == fault' = kind /\ UNCHANGED <<vec, trivial, heap>>

--------------------------------------------------------------------------------
Construct(v) ==
    /\ fault = "none" /\ vec[v] = Absent
    /\ Becomes(v, NullVector, heap)

\* The constructor from ReserveInitial<N>; its clients give a positive N.
ConstructReserved(v, n) ==
    /\ fault = "none" /\ vec[v] = Absent /\ n > 0
    /\ Becomes(v, allocate(n), heap + 1)

CopyConstruct(v, w) ==
    /\ Live(w) /\ vec[v] = Absent
    /\ LET x == vec[w] IN
       IF capacity(x) = 0
       THEN Fails("zero allocation")
       ELSE Becomes(v, Filled(allocate(capacity(x)), x.size, LAMBDA i : x.cells[i]), heap + 1)

\* Mutant: the last element that fits overwrites the one before it.
emplacedOver(x, e) ==
    LET y == IF x.null THEN allocate(1)
             ELSE IF x.size = capacity(x) THEN grow_capacity(x, capacity(x) * ExpansionMult)
             ELSE x
    IN  Filled(y, y.size + 1, LAMBDA i : IF i < y.size THEN y.cells[i] ELSE e)

\* The vector with one more element that emplace_back leaves.
emplaced(x, e) ==
    LET y == IF x.null THEN allocate(1)
             ELSE IF x.size = capacity(x) THEN grow_capacity(x, capacity(x) * ExpansionMult)
             ELSE x
    IN  Filled(y, y.size + 1, LAMBDA i : IF i <= y.size THEN y.cells[i] ELSE e)

\* emplace_back and push_back of a value from elsewhere.
PushBack(v, e) ==
    /\ Live(v)
    /\ Becomes(v, emplaced(vec[v], e), heap + IF vec[v].null THEN 1 ELSE 0)

(* push_back(v[i]): the argument is a reference to an element, and growing    *)
(* the vector frees the block it is in.                                       *)
PushBackOwn(v, i) ==
    /\ Live(v) /\ i <= vec[v].size
    /\ IF vec[v].size = capacity(vec[v])
       THEN Fails("dangling argument")
       ELSE Becomes(v, emplaced(vec[v], vec[v].cells[i]), heap)

\* pop_back asserts that there is an element: its callers' obligation.
PopBack(v) ==
    /\ Live(v) /\ vec[v].size > 0
    /\ Becomes(v, Filled(vec[v], vec[v].size - 1, LAMBDA i : vec[v].cells[i]), heap)

\* clear, by _destroy_all.
Clear(v) ==
    /\ Live(v)
    /\ Becomes(v, Filled(vec[v], 0, LAMBDA i : Raw), heap)

Reserve(v, n) ==
    /\ Live(v)
    /\ LET x == vec[v] IN
       \/ x.null /\ n = 0 /\ Fails("zero allocation")
       \/ x.null /\ n > 0 /\ Becomes(v, allocate(n), heap + 1)
       \/ ~x.null /\ capacity(x) >= n /\ Becomes(v, x, heap)
       \/ ~x.null /\ capacity(x) < n /\ Becomes(v, grow_capacity(x, n), heap)

\* x with n elements, the new ones value-initialised.
resized(x, n) == Filled(x, n, LAMBDA i : IF i <= x.size THEN x.cells[i] ELSE Default)

(* new_end is computed before _grow_capacity replaces the block: the loop of  *)
(* lines 203-204 then compares m_end with a pointer into the freed block, and *)
(* passes the end of the new one.                                             *)
Resize(v, n) ==
    /\ Live(v)
    /\ LET x == vec[v] IN
       \/ x.null /\ n = 0 /\ Fails("zero allocation")
       \/ x.null /\ n > 0 /\ Becomes(v, resized(allocate(n), n), heap + 1)
       \/ ~x.null /\ capacity(x) >= n /\ Becomes(v, resized(x, n), heap)
       \/ ~x.null /\ capacity(x) < n /\ Fails("dangling new_end")

(* The copy assignment: reserve, then copy_n onto the first cells.  Cells     *)
(* without an element are assigned to, and surplus elements are forgotten:    *)
(* that is harmless only where T is trivially copyable.                       *)
CopyAssign(v, w) ==
    /\ Live(v) /\ Live(w)
    /\ LET x == vec[v]
           n == vec[w].size
           Copied(y) == Filled(y, n, LAMBDA i : vec[w].cells[i])
       IN
       \/ x.null /\ n = 0 /\ Fails("zero allocation")
       \/ ~trivial /\ x.size < n /\ Fails("assignment to raw memory")
       \/ ~trivial /\ x.size > n /\ Fails("element not destroyed")
       \/ /\ trivial \/ x.size = n
          /\ \/ x.null /\ n > 0 /\ Becomes(v, Copied(allocate(n)), heap + 1)
             \/ ~x.null /\ capacity(x) >= n /\ Becomes(v, Copied(x), heap)
             \/ ~x.null /\ capacity(x) < n /\ Becomes(v, Copied(grow_capacity(x, n)), heap)

MoveConstruct(v, w) ==
    /\ Live(w) /\ vec[v] = Absent
    /\ vec' = [vec EXCEPT ![v] = vec[w], ![w] = NullVector]
    /\ UNCHANGED <<trivial, heap, fault>>

\* Mutant: the block of v is not freed.
MoveAssignLeak(v, w) ==
    /\ Live(v) /\ Live(w)
    /\ vec' = [vec EXCEPT ![v] = vec[w], ![w] = NullVector]
    /\ UNCHANGED <<trivial, heap, fault>>

\* The move assignment, by _destroy_and_free; a vector moved to itself is emptied.
MoveAssign(v, w) ==
    /\ Live(v) /\ Live(w)
    /\ vec' = [vec EXCEPT ![v] = vec[w], ![w] = NullVector]
    /\ heap' = heap - IF vec[v].null THEN 0 ELSE 1
    /\ UNCHANGED <<trivial, fault>>

Destroy(v) ==
    /\ Live(v)
    /\ vec' = [vec EXCEPT ![v] = Absent]
    /\ heap' = heap - IF vec[v].null THEN 0 ELSE 1
    /\ UNCHANGED <<trivial, fault>>

--------------------------------------------------------------------------------
Next ==
    \E v \in Vectors :
        \/ Construct(v) \/ PopBack(v) \/ Clear(v) \/ Destroy(v)
        \/ \E n \in 0 .. MaxCapacity : ConstructReserved(v, n) \/ Reserve(v, n) \/ Resize(v, n)
        \/ \E e \in Values : PushBack(v, e)
        \/ \E i \in 1 .. MaxCapacity : PushBackOwn(v, i)
        \/ \E w \in Vectors :
              CopyConstruct(v, w) \/ CopyAssign(v, w) \/ MoveConstruct(v, w) \/ MoveAssign(v, w)

Spec == Init /\ [][Next]_vars

--------------------------------------------------------------------------------
(* Every variable has a value of its type: m_end lies between m_begin and     *)
(* m_cap, and the cells that hold an element are those before m_end.          *)
TypeOK ==
    /\ \A v \in Vectors : vec[v] # Absent =>
          /\ vec[v].cells \in Seq(Values \cup {Default, Raw})
          /\ vec[v].size \in 0 .. capacity(vec[v])
          /\ \A i \in DOMAIN vec[v].cells : vec[v].cells[i] = Raw <=> i > vec[v].size
    /\ heap \in Nat

(* Ownership: every allocated block is that of exactly one vector, whatever   *)
(* copies, moves and growth came before, and a vector with a block has room   *)
(* for an element, without which emplace_back would double a capacity of 0.   *)
(* The elements in the block are those of TypeOK.                             *)
BlocksOwned ==
    LET Owners == {v \in Vectors : vec[v] # Absent /\ ~vec[v].null}
    IN  TypeOK /\ heap = Cardinality(Owners) /\ \A v \in Owners : capacity(vec[v]) > 0

\* The elements that a client sees through begin, end, at and operator[].
Contents == [v \in Vectors |-> IF vec[v] = Absent THEN Absent
                               ELSE SubSeq(vec[v].cells, 1, vec[v].size)]

Promise == INSTANCE SequenceContainer WITH contents <- Contents, MaxSize <- MaxCapacity

(* Up to a fault, every operation of Vector does to the elements what one of  *)
(* the operations of a sequence does: the promise has no names of operations. *)
ImplementsSequence == Promise!Spec

(* The elements that resize constructs are the num_default cells between the  *)
(* old and the new m_end (line 202), inside the block.                        *)
ResizeInBlock == fault # "dangling new_end"
================================================================================
