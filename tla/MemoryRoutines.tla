---------------------------- MODULE MemoryRoutines ------------------------------
(******************************************************************************)
(* Memcpy, Memmove and Strcpy (src/include/fiah/memory/Memcpy.cc, Memmove.cc, *)
(* Strcpy.cc) as functions of the memory they are called on, which is a       *)
(* function from addresses to bytes, and one call of one of them.  Address 0  *)
(* is nullptr, byte 0 the end of a string.                                    *)
(******************************************************************************)
EXTENDS Integers

CONSTANTS
    Addresses,  \* bound: the memory is 1 .. Addresses
    Unroll      \* the bytes of one round of Memcpy: 8 in the program

ASSUME UnrollAssumption == Unroll \in Nat \ {0} /\ Addresses \in Nat

\* n bytes, from the first to the last.
forward(bytes, dst, src, n) ==
    LET copied[k \in 0 .. n] ==
            IF k = 0 THEN bytes
            ELSE [copied[k - 1] EXCEPT ![dst + k - 1] = copied[k - 1][src + k - 1]]
    IN  copied[n]

\* n bytes, from the last to the first.
backward(bytes, dst, src, n) ==
    LET copied[k \in 0 .. n] ==
            IF k = 0 THEN bytes
            ELSE [copied[k - 1] EXCEPT ![dst + n - k] = copied[k - 1][src + n - k]]
    IN  copied[n]

Memcpy(bytes, dst, src, n) ==
    LET rounds == n \div Unroll
        unrolled[k \in 0 .. rounds] ==
            IF k = 0 THEN bytes
            ELSE forward(unrolled[k - 1], dst + (k - 1) * Unroll, src + (k - 1) * Unroll, Unroll)
    IN  forward(unrolled[rounds], dst + rounds * Unroll, src + rounds * Unroll, n % Unroll)

\* Mutant: always from the first byte to the last.
MemmoveForward(bytes, dst, src, n) ==
    IF dst = 0 \/ src = 0 \/ n = 0 THEN bytes ELSE forward(bytes, dst, src, n)

Memmove(bytes, dst, src, n) ==
    CASE dst = 0 \/ src = 0 \/ n = 0 -> bytes
      [] dst < src -> forward(bytes, dst, src, n)
      [] src < dst -> backward(bytes, dst, src, n)
      [] OTHER -> bytes

\* Copies up to and including the first 0; one byte a round, until the byte it copied is 0.
Strcpy(bytes, dst, src) ==
    LET loop[k \in 0 .. Addresses] ==
            IF k = 0 THEN [bytes |-> bytes, done |-> FALSE]
            ELSE IF loop[k - 1].done THEN loop[k - 1]
            ELSE LET byte == loop[k - 1].bytes[src + k - 1]
                 IN  [bytes |-> [loop[k - 1].bytes EXCEPT ![dst + k - 1] = byte], done |-> byte = 0]
    IN  loop[Addresses].bytes

--------------------------------------------------------------------------------
VARIABLES
    mem,  \* the memory
    last  \* the range <<dst, src, n>> of the last call, and the memory before it

memVars == <<mem, last>>

\* Different bytes, so that a copy tells where each came from; one of them ends the strings.
MemInit ==
    /\ \E z \in 1 .. Addresses : mem = [a \in 1 .. Addresses |-> IF a = z THEN 0 ELSE a]
    /\ last = <<>>

Apart(dst, src, n) == dst + n <= src \/ src + n <= dst

\* A call on n bytes at dst and at src; Memcpy and Strcpy only where they do not overlap.
Call(dst, src, n) ==
    /\ last = <<>>
    /\ dst + n <= Addresses + 1 /\ src + n <= Addresses + 1
    /\ last' = <<dst, src, n, mem>>
    /\ \/ mem' = Memmove(mem, dst, src, n)
       \/ Apart(dst, src, n) /\ mem' = Memcpy(mem, dst, src, n)
       \/ /\ Apart(dst, src, n) /\ n > 0
          /\ {a \in src .. src + n - 1 : mem[a] = 0} = {src + n - 1}
          /\ mem' = Strcpy(mem, dst, src)

MemNext == \E dst, src, n \in 0 .. Addresses : dst > 0 /\ src > 0 /\ Call(dst, src, n)

MemSpec == MemInit /\ [][MemNext]_memVars

--------------------------------------------------------------------------------
(* The routines copy: the n bytes at dst become what the n bytes at src were, *)
(* and no other byte changes.  Memmove does so wherever the two ranges lie,   *)
(* overlapping either way or the same; Memcpy whether n is below, at or       *)
(* beyond a multiple of the bytes of a round; Strcpy up to the end of the     *)
(* string.                                                                    *)
CopiesExact ==
    last # <<>> =>
        LET dst == last[1]
            src == last[2]
            n == last[3]
            old == last[4]
        IN  mem = [a \in 1 .. Addresses |->
                      IF a \in dst .. dst + n - 1 THEN old[src + a - dst] ELSE old[a]]
================================================================================
