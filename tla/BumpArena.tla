------------------------------- MODULE BumpArena -------------------------------
(******************************************************************************)
(* fiah::BumpArena and fiah::BumpAllocator<T> (src/include/fiah/memory/       *)
(* BumpArena.hh, BumpAllocator.hh), used by one thread.  Addresses and sz_t   *)
(* have SizeLimit values, address 0 is nullptr.  T is its sizeof and its      *)
(* alignof.  An allocator is whether it has an arena: copies and rebound      *)
(* copies share it.                                                           *)
(******************************************************************************)
EXTENDS Integers, FiniteSetsExt

CONSTANTS
    SizeLimit,  \* 2^64 in the program
    Buffers,    \* the buffers <<buff, size>> an arena may be given; <<0, size>> is nullptr
    Types,      \* the types <<sizeof(T), alignof(T)>>
    Requests    \* the n of allocate(n)

Sizes == 0 .. SizeLimit - 1

ASSUME SizeAssumption == SizeLimit \in Nat \ {0}
ASSUME BuffersAssumption ==
    \A b \in Buffers : b[1] \in Sizes /\ b[2] \in Sizes /\ b[1] + b[2] \in Sizes
ASSUME TypesAssumption ==
    \A T \in Types : /\ T[1] \in Sizes \ {0} /\ T[2] \in Sizes \ {0}
                     /\ SizeLimit % T[2] = 0 /\ T[1] % T[2] = 0
ASSUME RequestsAssumption == Requests \subseteq Sizes

VARIABLES
    m_begin, m_curr, m_end,
    blocks,    \* the blocks given out since the last reset: their T, n and address
    trapped    \* alloc_fail was called

arenaVars == <<m_begin, m_curr, m_end, blocks, trapped>>

ArenaInit ==
    /\ \E b \in Buffers : m_begin = b[1] /\ m_curr = b[1] /\ m_end = b[1] + b[2]
    /\ blocks = {}
    /\ trapped = FALSE

\* Arithmetic of sz_t.
Wrap(x) == x % SizeLimit

\* Mutant: the last byte is kept back.
remainingLess == m_end - m_curr - 1

remaining == m_end - m_curr
full == m_curr = m_end

\* p rounded up to a multiple of alignment, as std::align does it.
RoundUp(p, alignment) ==
    LET x == Wrap(p - 1 + alignment) IN x - (x % alignment)

\* std::align(alignment, size, p, space): the aligned address, or 0.
align(alignment, size, p, space) ==
    LET diff == Wrap(RoundUp(p, alignment) - p)
    IN  IF space < size \/ diff > space - size THEN 0 ELSE RoundUp(p, alignment)

\* Mutant: n * sizeof(T) may wrap.
TooManyNever(n, T) == FALSE

\* n > numeric_limits<sz_t>::max() / sizeof(T).
TooMany(n, T) == n > (SizeLimit - 1) \div T[1]

\* BumpArena::allocate(size, alignment): the address it returns.
arena_allocate(size, alignment) == align(alignment, size, m_curr, remaining)

\* The m_curr that it leaves.
Bump(ptr, size) == m_curr' = IF ptr = 0 THEN m_curr ELSE ptr + size

\* The block that the client has now; one of no elements has no bytes to speak of.
Block(ptr, T, n) == IF ptr = 0 \/ n = 0 THEN {} ELSE {[T |-> T, n |-> n, ptr |-> ptr]}

--------------------------------------------------------------------------------
\* BumpArena::allocate for one T, whose client is told by nullptr that there is no room.
ArenaAllocate(T) ==
    LET ptr == arena_allocate(T[1], T[2])
    IN  /\ ~trapped
        /\ Bump(ptr, T[1])
        /\ blocks' = blocks \cup Block(ptr, T, 1)
        /\ UNCHANGED <<m_begin, m_end, trapped>>

\* BumpAllocator<T>::allocate(n), which traps if it has no arena or no room.
Allocate(hasArena, T, n) ==
    LET size == Wrap(n * T[1])
        ptr == IF hasArena /\ ~TooMany(n, T) THEN arena_allocate(size, T[2]) ELSE 0
    IN  /\ ~trapped
        /\ Bump(ptr, size)
        /\ blocks' = blocks \cup Block(ptr, T, n)
        /\ trapped' = (ptr = 0)
        /\ UNCHANGED <<m_begin, m_end>>

\* The client gives a block back, which the allocator ignores.
Deallocate(b) ==
    /\ ~trapped
    /\ b \in blocks
    /\ blocks' = blocks \ {b}
    /\ UNCHANGED <<m_begin, m_curr, m_end, trapped>>

\* reset(); the client has given up its blocks.
ArenaReset ==
    /\ ~trapped
    /\ m_curr' = m_begin
    /\ blocks' = {}
    /\ UNCHANGED <<m_begin, m_end, trapped>>

ArenaNext ==
    \/ \E T \in Types : ArenaAllocate(T) \/ \E n \in Requests, a \in BOOLEAN : Allocate(a, T, n)
    \/ \E b \in blocks : Deallocate(b)
    \/ ArenaReset

ArenaSpec == ArenaInit /\ [][ArenaNext]_arenaVars

--------------------------------------------------------------------------------
Bytes(b) == b.ptr .. b.ptr + b.n * b.T[1] - 1

ArenaTypeOK ==
    /\ m_begin \in Sizes /\ m_curr \in m_begin .. m_end /\ m_end \in Sizes
    /\ m_begin = 0 => m_curr = 0
    /\ blocks \subseteq [T : Types, n : Sizes, ptr : Sizes]
    /\ trapped \in BOOLEAN

(* The blocks that the clients hold are sound: each is aligned for its type,  *)
(* has room for all its n elements (n * sizeof(T) did not wrap) inside the    *)
(* part of the buffer that is in use, none is nullptr, and no two share a     *)
(* byte, whatever was given back or reset before.                             *)
BlocksSound ==
    /\ ArenaTypeOK
    /\ \A b \in blocks :
          /\ b.ptr # 0 /\ b.ptr % b.T[2] = 0
          /\ m_begin <= b.ptr /\ b.ptr + b.n * b.T[1] <= m_curr
    /\ \A a, b \in blocks : a # b => Bytes(a) \cap Bytes(b) = {}

\* The addresses at which size bytes with the alignment fit in the rest of the buffer.
Fits(size, alignment) ==
    {p \in m_curr .. m_end : m_begin # 0 /\ p % alignment = 0 /\ p + size <= m_end}

(* No room is wasted and none is invented: after any sequence of calls the    *)
(* next request is refused if and only if it fits nowhere in the rest of the  *)
(* buffer, and is otherwise served at the lowest address at which it fits; a  *)
(* full() arena serves empty requests only, an arena without a buffer none.   *)
ServedExactly ==
    \A T \in Types, n \in Requests :
        LET size == n * T[1]
            fits == Fits(size, T[2])
        IN  size < SizeLimit =>
              /\ arena_allocate(size, T[2]) = IF fits = {} THEN 0 ELSE Min(fits)
              /\ full /\ n > 0 => fits = {}
================================================================================
