----------------------------- MODULE VectorProofs ------------------------------
(******************************************************************************)
(* Vectors of any values and any sizes: every block has one owner, and the    *)
(* vectors are the sequences that SequenceContainer specifies.                *)
(******************************************************************************)
EXTENDS Vector, FiniteSetTheorems, TLAPS

USE VectorAssumption, SMTT(40)

Cells == Values \cup {Default, Raw}
Elements == Values \cup {Default}

\* A vector with its elements before m_end, and with room if it has a block.
Sound(x) ==
    /\ x \in VectorRecords
    /\ x.size <= Len(x.cells)
    /\ \A i \in 1 .. Len(x.cells) : x.cells[i] = Raw <=> i > x.size
    /\ x.null <=> Len(x.cells) = 0

Owning == {v \in Vectors : vec[v] # Absent /\ ~vec[v].null}

IndInv ==
    /\ vec \in [Vectors -> VectorRecords \cup {Absent}]
    /\ \A v \in Vectors : vec[v] # Absent => Sound(vec[v])
    /\ heap \in Nat
    /\ IsFiniteSet(Owning) /\ heap = Cardinality(Owning)

\* The elements of x.
Elems(x) == [i \in 1 .. x.size |-> x.cells[i]]

--------------------------------------------------------------------------------
\* A function on 1 .. n is a sequence.
LEMMA SeqOf ==
    ASSUME NEW S, NEW n \in Nat, NEW f \in [1 .. n -> S]
    PROVE  f \in Seq(S) /\ Len(f) = n
  OBVIOUS

\* A sequence is a function on 1 .. n.
LEMMA SeqIs ==
    ASSUME NEW S, NEW s \in Seq(S)
    PROVE  s \in [1 .. Len(s) -> S]
  OBVIOUS

\* Append, cell by cell.
LEMMA AppendIs ==
    ASSUME NEW S, NEW s \in Seq(S), NEW e \in S
    PROVE  /\ Append(s, e) \in [1 .. Len(s) + 1 -> S]
           /\ \A i \in 1 .. Len(s) + 1 : Append(s, e)[i] = IF i <= Len(s) THEN s[i] ELSE e
<1>1. Append(s, e) \in Seq(S) /\ Len(Append(s, e)) = Len(s) + 1
  OBVIOUS
<1>2. Append(s, e) \in [1 .. Len(s) + 1 -> S]
  BY <1>1, SeqIs, Zenon
<1>3. \A i \in 1 .. Len(s) : Append(s, e)[i] = s[i]
  OBVIOUS
<1>4. Append(s, e)[Len(s) + 1] = e
  OBVIOUS
<1>5. Len(s) \in Nat
  OBVIOUS
<1> QED BY <1>2, <1>3, <1>4, <1>5

\* The elements are the part of the block before m_end.
LEMMA ElemsAre ==
    ASSUME NEW x, Sound(x)
    PROVE  /\ SubSeq(x.cells, 1, x.size) = Elems(x)
           /\ Elems(x) \in [1 .. x.size -> Elements]
           /\ Elems(x) \in Seq(Elements) /\ Len(Elems(x)) = x.size
<1>1. /\ x.cells \in Seq(Cells) /\ x.size \in Nat /\ x.size <= Len(x.cells)
      /\ \A i \in 1 .. x.size : x.cells[i] \in Elements
  BY DEF Sound, VectorRecords, Cells, Elements
<1>2. SubSeq(x.cells, 1, x.size) = Elems(x)
  BY <1>1 DEF Elems
<1>3. Elems(x) \in [1 .. x.size -> Elements]
  BY <1>1, Zenon DEF Elems
<1>4. Elems(x) \in Seq(Elements) /\ Len(Elems(x)) = x.size
  BY <1>1, <1>3, SeqOf, Zenon
<1> QED BY <1>2, <1>3, <1>4, Zenon

\* A block of n cells of which the first k hold an element makes a sound vector.
LEMMA MakeSound ==
    ASSUME NEW n \in Nat, NEW k \in 0 .. n, NEW g \in [1 .. n -> Cells], NEW b \in BOOLEAN,
           \A i \in 1 .. n : g[i] = Raw <=> i > k, b <=> n = 0
    PROVE  Sound([null |-> b, cells |-> g, size |-> k])
<1>1. g \in Seq(Cells) /\ Len(g) = n
  BY SeqOf, Zenon
<1>2. [null |-> b, cells |-> g, size |-> k] \in VectorRecords
  BY <1>1 DEF VectorRecords, Cells
<1> QED BY <1>1, <1>2 DEF Sound

\* The first k cells of y are given elements, and the others lose theirs.
LEMMA FilledIs ==
    ASSUME NEW y \in VectorRecords, y.null <=> Len(y.cells) = 0,
           NEW k \in 0 .. Len(y.cells), NEW g \in [1 .. k -> Elements],
           NEW c \in [1 .. Len(y.cells) -> Cells],
           \A i \in 1 .. Len(y.cells) : c[i] = IF i <= k THEN g[i] ELSE Raw,
           NEW z, z = [null |-> y.null, cells |-> c, size |-> k]
    PROVE  Sound(z) /\ (z.null <=> y.null) /\ z.size = k /\ Len(z.cells) = Len(y.cells) /\ Elems(z) = g
<1>0. Len(y.cells) \in Nat /\ y.null \in BOOLEAN
  BY DEF VectorRecords
<1>2. \A i \in 1 .. Len(y.cells) : c[i] = Raw <=> i > k
  BY DEF Elements
<1>3. Sound([null |-> y.null, cells |-> c, size |-> k])
  BY <1>0, <1>2, MakeSound, Zenon
<1>4. Len(c) = Len(y.cells)
  BY <1>0, SeqOf, Zenon
<1>5. z.null = y.null /\ z.cells = c /\ z.size = k
  OBVIOUS
<1>6. Elems(z) = g
  BY <1>0, <1>5 DEF Elems
<1>7. Sound(z)
  BY <1>3, Zenon
<1> QED BY <1>4, <1>5, <1>6, <1>7, Zenon

\* A fresh block.
LEMMA Allocated ==
    ASSUME NEW n \in Nat \ {0}
    PROVE  /\ Sound(allocate(n)) /\ ~allocate(n).null /\ Len(allocate(n).cells) = n
           /\ allocate(n).size = 0 /\ Elems(allocate(n)) = <<>>
<1> DEFINE g == [i \in 1 .. n |-> Raw]
<1>1. g \in [1 .. n -> Cells] /\ \A i \in 1 .. n : g[i] = Raw <=> i > 0
  BY DEF Cells
<1>2. Sound([null |-> FALSE, cells |-> g, size |-> 0])
  <2> HIDE DEF g
  <2>1. n \in Nat /\ 0 \in 0 .. n /\ FALSE \in BOOLEAN /\ (FALSE <=> n = 0)
    OBVIOUS
  <2> QED BY <1>1, <2>1, MakeSound, Zenon
<1>3. allocate(n) = [null |-> FALSE, cells |-> g, size |-> 0]
  BY Zenon DEF allocate
<1>4. Len(g) = n
  BY SeqOf
<1> HIDE DEF g
<1> QED BY <1>2, <1>3, <1>4 DEF Elems

\* The elements in a larger block.
LEMMA Grown ==
    ASSUME NEW x, Sound(x), ~x.null, NEW n \in Nat, n > Len(x.cells), NEW y, y = grow_capacity(x, n)
    PROVE  Sound(y) /\ ~y.null /\ Len(y.cells) = n /\ y.size = x.size /\ Elems(y) = Elems(x)
<1> DEFINE g == [i \in 1 .. n |-> IF i <= x.size THEN x.cells[i] ELSE Raw]
<1>0. /\ x \in VectorRecords /\ x.size \in Nat /\ Len(x.cells) \in Nat /\ x.size <= Len(x.cells)
      /\ \A i \in 1 .. x.size : x.cells[i] \in Elements
  BY DEF Sound, VectorRecords, Elements
<1>1. g \in [1 .. n -> Cells] /\ \A i \in 1 .. n : g[i] = Raw <=> i > x.size
  BY <1>0 DEF Cells, Elements
<1>2. y = [null |-> FALSE, cells |-> g, size |-> x.size]
  <2>1. x.null = FALSE
    BY <1>0, Zenon DEF VectorRecords
  <2> QED BY <2>1, Zenon DEF grow_capacity
<1>3. Len(g) = n
  BY <1>1, SeqOf, Zenon
<1>4. Sound([null |-> FALSE, cells |-> g, size |-> x.size])
  <2> HIDE DEF g
  <2>1. x.size \in 0 .. n /\ FALSE \in BOOLEAN /\ (FALSE <=> n = 0)
    BY <1>0
  <2> QED BY <1>1, <2>1, MakeSound, Zenon
<1>5. Elems(y) = Elems(x)
  BY <1>0, <1>2 DEF Elems
<1> HIDE DEF g
<1> QED BY <1>2, <1>3, <1>4, <1>5

\* emplace_back appends.
LEMMA Emplaced ==
    ASSUME NEW x, Sound(x), NEW e \in Elements, NEW z, z = emplaced(x, e)
    PROVE  Sound(z) /\ ~z.null /\ x.size < Len(z.cells) /\ Elems(z) = Append(Elems(x), e)
<1> DEFINE y == IF x.null THEN allocate(1)
                ELSE IF x.size = capacity(x) THEN grow_capacity(x, capacity(x) * ExpansionMult)
                ELSE x
<1>0. x \in VectorRecords /\ x.size \in Nat /\ Len(x.cells) \in Nat /\ x.size <= Len(x.cells)
  BY DEF Sound, VectorRecords
<1>1. Sound(y) /\ ~y.null /\ y.size = x.size /\ x.size < Len(y.cells) /\ Elems(y) = Elems(x)
  <2>1. CASE x.null
    <3>1. y = allocate(1) /\ Len(x.cells) = 0
      BY <2>1, Zenon DEF Sound
    <3>2. Elems(x) = <<>> /\ x.size = 0
      BY <1>0, <3>1 DEF Elems
    <3> HIDE DEF y
    <3> QED BY <3>1, <3>2, Allocated
  <2>2. CASE ~x.null /\ x.size = capacity(x)
    <3>1. y = grow_capacity(x, Len(x.cells) * 2) /\ Len(x.cells) > 0
      BY <1>0, <2>2 DEF capacity, ExpansionMult, Sound
    <3>2. Len(x.cells) * 2 \in Nat /\ Len(x.cells) * 2 > Len(x.cells)
      BY <1>0, <3>1
    <3> HIDE DEF y
    <3> QED BY <1>0, <2>2, <3>1, <3>2, Grown DEF capacity
  <2>3. CASE ~x.null /\ x.size # capacity(x)
    BY <1>0, <2>3 DEF capacity
  <2> QED BY <2>1, <2>2, <2>3, Zenon
<1>2. z = Filled(y, y.size + 1, LAMBDA i : IF i <= y.size THEN y.cells[i] ELSE e)
  BY Zenon DEF emplaced
<1> HIDE DEF y
<1> DEFINE k == x.size + 1
           g == Append(Elems(x), e)
           c == [i \in DOMAIN y.cells |-> IF i <= k THEN (IF i <= y.size THEN y.cells[i] ELSE e) ELSE Raw]
<1>3. z = [null |-> y.null, cells |-> c, size |-> k]
  BY <1>1, <1>2, Zenon DEF Filled
<1>4. /\ y \in VectorRecords /\ Len(y.cells) \in Nat /\ DOMAIN y.cells = 1 .. Len(y.cells)
      /\ (y.null <=> Len(y.cells) = 0) /\ k \in 0 .. Len(y.cells)
  BY <1>0, <1>1 DEF Sound, VectorRecords
<1>5. g \in [1 .. k -> Elements] /\ \A i \in 1 .. k : g[i] = IF i <= y.size THEN y.cells[i] ELSE e
  <2>1. Elems(x) \in Seq(Elements) /\ Len(Elems(x)) = x.size
    BY ElemsAre, Zenon
  <2>2. \A i \in 1 .. x.size : Elems(x)[i] = y.cells[i]
    BY <1>1, Zenon DEF Elems
  <2>3. g \in [1 .. k -> Elements] /\ \A i \in 1 .. k : g[i] = IF i <= x.size THEN Elems(x)[i] ELSE e
    BY <2>1, AppendIs
  <2> HIDE DEF g
  <2> QED BY <1>0, <1>1, <2>2, <2>3
<1>6. c \in [1 .. Len(y.cells) -> Cells] /\ \A i \in 1 .. Len(y.cells) : c[i] = IF i <= k THEN g[i] ELSE Raw
  <2> HIDE DEF g
  <2>1. \A i \in 1 .. Len(y.cells) : c[i] = IF i <= k THEN g[i] ELSE Raw
    BY <1>0, <1>4, <1>5
  <2>2. \A i \in 1 .. Len(y.cells) : c[i] \in Cells
    BY <1>0, <1>4, <1>5, <2>1 DEF Cells, Elements
  <2>3. c = [i \in 1 .. Len(y.cells) |-> c[i]]
    BY <1>4, Zenon
  <2>4. c \in [1 .. Len(y.cells) -> Cells]
    BY <2>2, <2>3, Zenon
  <2> QED BY <2>1, <2>4, Zenon
<1> HIDE DEF k, g, c
<1>7. Sound(z) /\ (z.null <=> y.null) /\ Len(z.cells) = Len(y.cells) /\ Elems(z) = g
  BY <1>3, <1>4, <1>5, <1>6, FilledIs
<1> QED BY <1>1, <1>7, Zenon DEF g

\* The first k elements of x, in the block of y,
Prefix(y, k, x) ==
    [null |-> y.null, cells |-> [i \in DOMAIN y.cells |-> IF i <= k THEN x.cells[i] ELSE Raw], size |-> k]

\* are a vector.
LEMMA Taken ==
    ASSUME NEW y, Sound(y), NEW x, Sound(x), NEW k \in 0 .. x.size, k <= Len(y.cells),
           NEW z, z = Prefix(y, k, x)
    PROVE  /\ Sound(z) /\ (z.null <=> y.null) /\ Len(z.cells) = Len(y.cells)
           /\ Elems(z) = [i \in 1 .. k |-> x.cells[i]]
<1> DEFINE g == [i \in 1 .. k |-> x.cells[i]]
           c == [i \in DOMAIN y.cells |-> IF i <= k THEN x.cells[i] ELSE Raw]
<1>1. /\ y \in VectorRecords /\ Len(y.cells) \in Nat /\ DOMAIN y.cells = 1 .. Len(y.cells)
      /\ (y.null <=> Len(y.cells) = 0) /\ k \in 0 .. Len(y.cells)
      /\ x.size \in Nat /\ \A i \in 1 .. x.size : x.cells[i] \in Elements
  BY DEF Sound, VectorRecords, Elements
<1>2. g \in [1 .. k -> Elements]
  BY <1>1
<1>3. c \in [1 .. Len(y.cells) -> Cells]
  BY <1>1 DEF Cells, Elements
<1>4. \A i \in 1 .. Len(y.cells) : c[i] = IF i <= k THEN g[i] ELSE Raw
  BY <1>1
<1>5. z = [null |-> y.null, cells |-> c, size |-> k]
  BY Zenon DEF Prefix
<1> HIDE DEF g, c
<1>6. Sound(z) /\ (z.null <=> y.null) /\ Len(z.cells) = Len(y.cells) /\ Elems(z) = g
  BY <1>1, <1>2, <1>3, <1>4, <1>5, FilledIs
<1> QED BY <1>6, Zenon DEF g

\* clear leaves no element.
LEMMA Cleared ==
    ASSUME NEW x, Sound(x), NEW z, z = Filled(x, 0, LAMBDA i : Raw)
    PROVE  Sound(z) /\ (z.null <=> x.null) /\ Len(z.cells) = Len(x.cells) /\ Elems(z) = <<>>
<1>1. Len(x.cells) \in Nat /\ DOMAIN x.cells = 1 .. Len(x.cells) /\ 0 \in 0 .. x.size /\ 0 <= Len(x.cells)
  BY DEF Sound, VectorRecords
<1>2. \A i \in DOMAIN x.cells : ~(i <= 0)
  BY <1>1
<1>3. z = Prefix(x, 0, x)
  BY <1>2, Zenon DEF Filled, Prefix
<1>4. Sound(z) /\ (z.null <=> x.null) /\ Len(z.cells) = Len(x.cells) /\ Elems(z) = [i \in 1 .. 0 |-> x.cells[i]]
  BY <1>1, <1>3, Taken, Zenon
<1> QED BY <1>4

\* resize within the block cuts the elements off or adds value-initialised ones.
LEMMA Resized ==
    ASSUME NEW x, Sound(x), NEW n \in 0 .. Len(x.cells), NEW z, z = resized(x, n)
    PROVE  /\ Sound(z) /\ (z.null <=> x.null) /\ Len(z.cells) = Len(x.cells)
           /\ Elems(z) = [i \in 1 .. n |-> IF i <= Len(Elems(x)) THEN Elems(x)[i] ELSE Default]
<1> DEFINE g == [i \in 1 .. n |-> IF i <= Len(Elems(x)) THEN Elems(x)[i] ELSE Default]
           c == [i \in DOMAIN x.cells |-> IF i <= n THEN (IF i <= x.size THEN x.cells[i] ELSE Default) ELSE Raw]
<1>1. /\ x \in VectorRecords /\ Len(x.cells) \in Nat /\ DOMAIN x.cells = 1 .. Len(x.cells)
      /\ (x.null <=> Len(x.cells) = 0) /\ x.size \in Nat
      /\ \A i \in 1 .. x.size : x.cells[i] \in Elements
  BY DEF Sound, VectorRecords, Elements
<1>2. Len(Elems(x)) = x.size /\ \A i \in 1 .. x.size : Elems(x)[i] = x.cells[i]
  BY <1>1, ElemsAre, Zenon DEF Elems
<1>3. g \in [1 .. n -> Elements] /\ \A i \in 1 .. n : g[i] = IF i <= x.size THEN x.cells[i] ELSE Default
  BY <1>1, <1>2 DEF Elements
<1>4. c \in [1 .. Len(x.cells) -> Cells]
  BY <1>1 DEF Cells, Elements
<1>5. z = [null |-> x.null, cells |-> c, size |-> n]
  BY Zenon DEF resized, Filled
<1> HIDE DEF g
<1>6. \A i \in 1 .. Len(x.cells) : c[i] = IF i <= n THEN g[i] ELSE Raw
  BY <1>1, <1>3
<1> HIDE DEF c
<1>7. Sound(z) /\ (z.null <=> x.null) /\ Len(z.cells) = Len(x.cells) /\ Elems(z) = g
  BY <1>1, <1>3, <1>4, <1>5, <1>6, FilledIs
<1> QED BY <1>7, Zenon DEF g

\* A vector without a block.
LEMMA NullIs == Sound(NullVector) /\ NullVector.null /\ Elems(NullVector) = <<>>
<1>1. NullVector \in VectorRecords
  BY DEF NullVector, VectorRecords
<1> QED BY <1>1 DEF NullVector, Sound, Elems

--------------------------------------------------------------------------------
(* The kinds of step. *)

\* What is in the vectors,
LEMMA ContentsAre ==
    ASSUME IndInv
    PROVE  /\ Contents = [v \in Vectors |-> Contents[v]]
           /\ \A v \in Vectors : Contents[v] = IF vec[v] = Absent THEN Absent ELSE Elems(vec[v])
           /\ \A v \in Vectors : vec[v] # Absent => Contents[v] # Absent
<1>1. \A v \in Vectors : Contents[v] = IF vec[v] = Absent THEN Absent ELSE Elems(vec[v])
  <2> SUFFICES ASSUME NEW v \in Vectors
               PROVE  Contents[v] = IF vec[v] = Absent THEN Absent ELSE Elems(vec[v])
    OBVIOUS
  <2>1. vec[v] # Absent => SubSeq(vec[v].cells, 1, vec[v].size) = Elems(vec[v])
    BY ElemsAre, Zenon DEF IndInv
  <2> QED BY <2>1, Zenon DEF Contents
<1>2. \A v \in Vectors : vec[v] # Absent => Elems(vec[v]) # Absent
  BY ElemsAre, Zenon DEF IndInv, Elements
<1>3. Contents = [v \in Vectors |-> Contents[v]]
  BY Zenon DEF Contents
<1> QED BY <1>1, <1>2, <1>3, Zenon

\* and after a step.
LEMMA NewContents ==
    ASSUME \A v \in Vectors : vec'[v] # Absent => Sound(vec'[v])
    PROVE  /\ Contents' = [v \in Vectors |-> Contents'[v]]
           /\ \A v \in Vectors : Contents'[v] = IF vec'[v] = Absent THEN Absent ELSE Elems(vec'[v])
<1>1. \A v \in Vectors : Contents'[v] = IF vec'[v] = Absent THEN Absent ELSE Elems(vec'[v])
  <2> SUFFICES ASSUME NEW v \in Vectors
               PROVE  Contents'[v] = IF vec'[v] = Absent THEN Absent ELSE Elems(vec'[v])
    OBVIOUS
  <2>1. vec'[v] # Absent => SubSeq(vec'[v].cells, 1, vec'[v].size) = Elems(vec'[v])
    BY ElemsAre, Zenon
  <2> QED BY <2>1, Zenon DEF Contents
<1>2. Contents' = [v \in Vectors |-> Contents'[v]]
  BY Zenon DEF Contents
<1> QED BY <1>1, <1>2, Zenon

\* A vector gets or gives up a block.
LEMMA Counts ==
    ASSUME IndInv, NEW v \in Vectors
    PROVE  /\ IsFiniteSet(Owning \cup {v}) /\ IsFiniteSet(Owning \ {v})
           /\ v \notin Owning => Cardinality(Owning \cup {v}) = heap + 1
           /\ v \in Owning => Cardinality(Owning \ {v}) = heap - 1 /\ heap > 0
<1>0. IsFiniteSet(Owning) /\ Cardinality(Owning) = heap /\ heap \in Nat
  BY Zenon DEF IndInv
<1>1. /\ IsFiniteSet(Owning \cup {v})
      /\ Cardinality(Owning \cup {v}) = IF v \in Owning THEN Cardinality(Owning) ELSE Cardinality(Owning) + 1
  BY <1>0, FS_AddElement, Zenon
<1>2. /\ IsFiniteSet(Owning \ {v})
      /\ Cardinality(Owning \ {v}) = IF v \in Owning THEN Cardinality(Owning) - 1 ELSE Cardinality(Owning)
  BY <1>0, FS_RemoveElement, Zenon
<1>3. Cardinality(Owning \ {v}) \in Nat
  BY <1>2, FS_CardinalityType, Zenon
<1> HIDE DEF Owning
<1> QED BY <1>0, <1>1, <1>2, <1>3

\* Whether v has a block.
HasBlock(v) == vec[v] # Absent /\ ~vec[v].null

\* A vector is made or changed, in its block or a fresh one.
LEMMA BecomesStep ==
    ASSUME IndInv, NEW v \in Vectors, NEW x, Sound(x), NEW n, Becomes(v, x, n),
           HasBlock(v) => ~x.null,
           n = heap + IF HasBlock(v) \/ x.null THEN 0 ELSE 1
    PROVE  IndInv' /\ Contents' = [Contents EXCEPT ![v] = Elems(x)]
<1>0. /\ vec' = [vec EXCEPT ![v] = x] /\ heap' = n /\ x \in VectorRecords /\ x # Absent
      /\ vec \in [Vectors -> VectorRecords \cup {Absent}] /\ heap \in Nat
      /\ vec'[v] = x /\ \A w \in Vectors : w # v => vec'[w] = vec[w]
  BY Zenon DEF Becomes, Sound, IndInv
<1>1. vec' \in [Vectors -> VectorRecords \cup {Absent}] /\ \A w \in Vectors : vec'[w] # Absent => Sound(vec'[w])
  BY <1>0, Zenon DEF IndInv
<1>2. heap' \in Nat /\ IsFiniteSet(Owning') /\ heap' = Cardinality(Owning')
  <2>1. CASE HasBlock(v) \/ x.null
    <3>1. Owning' = Owning
      BY <1>0, <2>1, Zenon DEF Owning, HasBlock
    <3>2. heap' = heap
      BY <1>0, <2>1
    <3> QED BY <3>1, <3>2, Zenon DEF IndInv
  <2>2. CASE ~(HasBlock(v) \/ x.null)
    <3>1. Owning' = Owning \cup {v} /\ v \notin Owning
      BY <1>0, <2>2, Zenon DEF Owning, HasBlock
    <3>2. heap' = heap + 1
      BY <1>0, <2>2, Zenon
    <3>3. IsFiniteSet(Owning') /\ Cardinality(Owning') = heap + 1
      BY <3>1, Counts, Zenon
    <3> HIDE DEF Owning
    <3> QED BY <1>0, <3>2, <3>3
  <2> QED BY <2>1, <2>2, Zenon
<1>3. IndInv'
  BY <1>1, <1>2, Zenon DEF IndInv
<1>4. Contents' = [Contents EXCEPT ![v] = Elems(x)]
  <2>1. Contents'[v] = Elems(x) /\ \A w \in Vectors : w # v => Contents'[w] = Contents[w]
    BY <1>0, <1>1, NewContents, ContentsAre, Zenon
  <2>2. Contents = [w \in Vectors |-> Contents[w]] /\ Contents' = [w \in Vectors |-> Contents'[w]]
    BY <1>1, NewContents, ContentsAre, Zenon
  <2> QED BY <2>1, <2>2, Zenon
<1> QED BY <1>3, <1>4, Zenon

\* A fault stops the behaviour and changes no vector.
LEMMA FailsStep ==
    ASSUME IndInv, NEW kind, Fails(kind)
    PROVE  IndInv' /\ Contents' = Contents
<1>1. vec' = vec /\ heap' = heap
  BY Zenon DEF Fails
<1>2. Owning' = Owning
  BY <1>1, Zenon DEF Owning
<1>3. IsFiniteSet(Owning') /\ heap' = Cardinality(Owning')
  BY <1>1, <1>2, Zenon DEF IndInv
<1> HIDE DEF Owning
<1> QED BY <1>1, <1>3, Zenon DEF IndInv, Contents

\* The move constructor and the move assignment.
LEMMA MoveStep ==
    ASSUME IndInv, NEW v \in Vectors, NEW w \in Vectors, vec[w] # Absent,
           vec' = [vec EXCEPT ![v] = vec[w], ![w] = NullVector],
           heap' = heap - IF HasBlock(v) THEN 1 ELSE 0
    PROVE  IndInv' /\ Contents' = [Contents EXCEPT ![v] = Contents[w], ![w] = <<>>]
<1>0. /\ vec \in [Vectors -> VectorRecords \cup {Absent}] /\ heap \in Nat
      /\ Sound(vec[w]) /\ NullVector \in VectorRecords /\ NullVector # Absent
  BY NullIs, Zenon DEF IndInv, Sound
<1>1. /\ vec'[w] = NullVector /\ (v # w => vec'[v] = vec[w])
      /\ \A u \in Vectors : u # v /\ u # w => vec'[u] = vec[u]
  BY <1>0, Zenon
<1>2. vec' \in [Vectors -> VectorRecords \cup {Absent}] /\ \A u \in Vectors : vec'[u] # Absent => Sound(vec'[u])
  BY <1>0, <1>1, NullIs, Zenon DEF IndInv
<1>3. heap' \in Nat /\ IsFiniteSet(Owning') /\ heap' = Cardinality(Owning')
  <2>1. w \notin Owning' /\ \A u \in Vectors : u # v /\ u # w => (u \in Owning' <=> u \in Owning)
    <3>1. w \notin Owning'
      BY <1>1, NullIs, Zenon DEF Owning
    <3>2. \A u \in Vectors : u # v /\ u # w => (u \in Owning' <=> u \in Owning)
      BY <1>1, Zenon DEF Owning
    <3> QED BY <3>1, <3>2, Zenon
  <2>2. v # w => (v \in Owning' <=> w \in Owning)
    BY <1>1, Zenon DEF Owning
  <2>3. (HasBlock(v) <=> v \in Owning) /\ \A u \in Owning \cup Owning' : u \in Vectors
    BY Zenon DEF HasBlock, Owning
  <2> HIDE DEF Owning
  <2>4. CASE v = w \/ w \notin Owning
    <3>1. Owning' = Owning \ {v}
      BY <2>1, <2>2, <2>3, <2>4, Zenon
    <3>2. IsFiniteSet(Owning') /\ Cardinality(Owning') = Cardinality(Owning \ {v})
      BY <3>1, Counts, Zenon
    <3>3. v \notin Owning => Cardinality(Owning \ {v}) = heap
      <4>1. v \notin Owning => Owning \ {v} = Owning
        OBVIOUS
      <4> QED BY <4>1, Zenon DEF IndInv
    <3>4. v \in Owning => Cardinality(Owning \ {v}) = heap - 1 /\ heap > 0
      BY Counts, Zenon
    <3> QED BY <1>0, <2>3, <3>2, <3>3, <3>4
  <2>5. CASE v # w /\ w \in Owning /\ v \in Owning
    <3>1. Owning' = Owning \ {w}
      BY <2>1, <2>2, <2>3, <2>5, Zenon
    <3>2. IsFiniteSet(Owning') /\ Cardinality(Owning') = Cardinality(Owning \ {w})
      BY <3>1, Counts, Zenon
    <3>3. Cardinality(Owning \ {w}) = heap - 1 /\ heap > 0
      BY <2>5, Counts, Zenon
    <3> QED BY <1>0, <2>3, <2>5, <3>2, <3>3
  <2>6. CASE v # w /\ w \in Owning /\ v \notin Owning
    <3>1. Owning' = (Owning \ {w}) \cup {v} /\ v \notin Owning \ {w}
      BY <2>1, <2>2, <2>3, <2>6, Zenon
    <3>2. IsFiniteSet(Owning \ {w}) /\ Cardinality(Owning \ {w}) = heap - 1
      BY <2>6, Counts, Zenon
    <3>3. IsFiniteSet((Owning \ {w}) \cup {v}) /\ Cardinality((Owning \ {w}) \cup {v}) = Cardinality(Owning \ {w}) + 1
      BY <3>1, <3>2, FS_AddElement, Zenon
    <3>4. IsFiniteSet(Owning') /\ Cardinality(Owning') = Cardinality(Owning \ {w}) + 1
      BY <3>1, <3>3, Zenon
    <3> QED BY <1>0, <2>3, <2>6, <3>2, <3>4
  <2> QED BY <2>4, <2>5, <2>6, Zenon
<1>4. Contents' = [Contents EXCEPT ![v] = Contents[w], ![w] = <<>>]
  <2>1. /\ Contents'[w] = <<>> /\ (v # w => Contents'[v] = Contents[w])
        /\ \A u \in Vectors : u # v /\ u # w => Contents'[u] = Contents[u]
    BY <1>0, <1>1, <1>2, NewContents, ContentsAre, NullIs
  <2>2. Contents = [u \in Vectors |-> Contents[u]] /\ Contents' = [u \in Vectors |-> Contents'[u]]
    BY <1>2, NewContents, ContentsAre, Zenon
  <2> HIDE DEF Contents
  <2>3. CASE v = w
    <3>1. \A u \in Vectors : [Contents EXCEPT ![w] = Contents[w], ![w] = <<>>][u] = Contents'[u]
      BY <2>1, <2>2, <2>3, Zenon
    <3>2. [Contents EXCEPT ![w] = Contents[w], ![w] = <<>>]
              = [u \in Vectors |-> [Contents EXCEPT ![w] = Contents[w], ![w] = <<>>][u]]
      BY <2>2, Zenon
    <3>3. Contents' = [Contents EXCEPT ![w] = Contents[w], ![w] = <<>>]
      BY <2>2, <3>1, <3>2, Zenon
    <3> QED BY <2>3, <3>3, Zenon
  <2>4. CASE v # w
    BY <2>1, <2>2, <2>4, Zenon
  <2> QED BY <2>3, <2>4, Zenon
<1> QED BY <1>2, <1>3, <1>4, Zenon DEF IndInv

\* The destructor.
LEMMA DestroyStep ==
    ASSUME IndInv, NEW v \in Vectors, Destroy(v)
    PROVE  IndInv' /\ Contents' = [Contents EXCEPT ![v] = Absent]
<1>0. /\ vec \in [Vectors -> VectorRecords \cup {Absent}] /\ heap \in Nat
      /\ vec[v] # Absent /\ vec' = [vec EXCEPT ![v] = Absent]
      /\ heap' = heap - IF vec[v].null THEN 0 ELSE 1
  BY Zenon DEF IndInv, Destroy, Live
<1>1. vec'[v] = Absent /\ \A u \in Vectors : u # v => vec'[u] = vec[u]
  BY <1>0, Zenon
<1>2. vec' \in [Vectors -> VectorRecords \cup {Absent}] /\ \A u \in Vectors : vec'[u] # Absent => Sound(vec'[u])
  BY <1>0, <1>1, Zenon DEF IndInv
<1>3. heap' \in Nat /\ IsFiniteSet(Owning') /\ heap' = Cardinality(Owning')
  <2>1. Owning' = Owning \ {v} /\ (v \in Owning <=> ~vec[v].null)
    BY <1>0, <1>1, Zenon DEF Owning
  <2> HIDE DEF Owning
  <2>2. IsFiniteSet(Owning') /\ Cardinality(Owning') = Cardinality(Owning \ {v})
    BY <2>1, Counts, Zenon
  <2>3. v \notin Owning => Cardinality(Owning \ {v}) = heap
    <3>1. v \notin Owning => Owning \ {v} = Owning
      OBVIOUS
    <3> QED BY <3>1, Zenon DEF IndInv
  <2>4. v \in Owning => Cardinality(Owning \ {v}) = heap - 1 /\ heap > 0
    BY Counts, Zenon
  <2> QED BY <1>0, <2>1, <2>2, <2>3, <2>4
<1>4. Contents' = [Contents EXCEPT ![v] = Absent]
  <2>1. Contents'[v] = Absent /\ \A u \in Vectors : u # v => Contents'[u] = Contents[u]
    BY <1>0, <1>1, <1>2, NewContents, ContentsAre, Zenon
  <2>2. Contents = [u \in Vectors |-> Contents[u]] /\ Contents' = [u \in Vectors |-> Contents'[u]]
    BY <1>2, NewContents, ContentsAre, Zenon
  <2> QED BY <2>1, <2>2, Zenon
<1> QED BY <1>2, <1>3, <1>4, Zenon DEF IndInv

--------------------------------------------------------------------------------
(* One lemma per operation: it keeps the invariant and is the operation on    *)
(* sequences of the same name, or no visible change.                          *)

\* The constructors make an empty vector, without a block or with room reserved.
LEMMA ConstructStep ==
    ASSUME IndInv, NEW v \in Vectors, NEW n \in Nat, Construct(v) \/ ConstructReserved(v, n)
    PROVE  IndInv' /\ Promise!Construct(v)
<1>1. vec[v] = Absent /\ ~HasBlock(v) /\ Contents[v] = Absent
  BY ContentsAre, Zenon DEF Construct, ConstructReserved, HasBlock
<1>2. CASE Construct(v)
  <2>1. Becomes(v, NullVector, heap) /\ heap = heap + IF HasBlock(v) \/ NullVector.null THEN 0 ELSE 1
    BY <1>2, NullIs DEF Construct, IndInv
  <2>2. IndInv' /\ Contents' = [Contents EXCEPT ![v] = Elems(NullVector)]
    BY <1>1, <2>1, NullIs, BecomesStep, Zenon
  <2> QED BY <1>1, <2>2, NullIs, Zenon DEF Promise!Construct, Promise!Alive, Promise!Set
<1>3. CASE ConstructReserved(v, n)
  <2>1. n \in Nat \ {0} /\ Becomes(v, allocate(n), heap + 1)
    BY <1>3 DEF ConstructReserved
  <2>2. Sound(allocate(n)) /\ ~allocate(n).null /\ Elems(allocate(n)) = <<>>
    BY <2>1, Allocated, Zenon
  <2>3. heap + 1 = heap + IF HasBlock(v) \/ allocate(n).null THEN 0 ELSE 1
    BY <1>1, <2>2, Zenon
  <2>4. IndInv' /\ Contents' = [Contents EXCEPT ![v] = Elems(allocate(n))]
    BY <2>1, <2>2, <2>3, BecomesStep, Zenon
  <2> QED BY <1>1, <2>2, <2>4, Zenon DEF Promise!Construct, Promise!Alive, Promise!Set
<1> QED BY <1>2, <1>3, Zenon

\* A live vector is sound, and its elements are its contents.
LEMMA LiveIs ==
    ASSUME IndInv, NEW v \in Vectors, vec[v] # Absent, NEW x, x = vec[v]
    PROVE  /\ Sound(x) /\ Contents[v] = Elems(x) /\ Promise!Alive(v) /\ (HasBlock(v) <=> ~x.null)
           /\ heap \in Nat /\ x.size \in Nat /\ Len(x.cells) \in Nat /\ x.size <= Len(x.cells)
           /\ Len(Contents[v]) = x.size
<1>1. Sound(x) /\ heap \in Nat
  BY Zenon DEF IndInv
<1>2. Contents[v] = Elems(x) /\ Contents[v] # Absent
  BY ContentsAre, Zenon
<1>3. Len(Elems(x)) = x.size
  BY <1>1, ElemsAre, Zenon
<1> QED BY <1>1, <1>2, <1>3 DEF HasBlock, Sound, VectorRecords, Promise!Alive

\* push_back, also of an element of the vector itself.
LEMMA PushBackStep ==
    ASSUME IndInv, NEW v \in Vectors, NEW e \in Elements, vec[v] # Absent, NEW n,
           Becomes(v, emplaced(vec[v], e), n), n = heap + IF vec[v].null THEN 1 ELSE 0
    PROVE  IndInv' /\ Promise!PushBack(v, e)
<1>1. PICK x : x = vec[v]
  OBVIOUS
<1>2. /\ Sound(x) /\ Contents[v] = Elems(x) /\ Promise!Alive(v) /\ (HasBlock(v) <=> ~x.null) /\ heap \in Nat
      /\ x.size \in Nat /\ Len(Contents[v]) = x.size
  BY <1>1, LiveIs, Zenon
<1>3. PICK z : z = emplaced(x, e)
  OBVIOUS
<1>4. Sound(z) /\ ~z.null /\ x.size < Len(z.cells) /\ Elems(z) = Append(Elems(x), e)
  BY <1>2, <1>3, Emplaced, Zenon
<1>5. Becomes(v, z, n) /\ n = heap + IF HasBlock(v) \/ z.null THEN 0 ELSE 1
  BY <1>1, <1>2, <1>3, <1>4, Zenon
<1>6. IndInv' /\ Contents' = [Contents EXCEPT ![v] = Elems(z)]
  BY <1>4, <1>5, BecomesStep, Zenon
<1>7. Len(Contents[v]) < MaxCapacity
  <2>1. Len(z.cells) <= MaxCapacity /\ Len(z.cells) \in Nat
    BY <1>4, <1>5 DEF Becomes, capacity, Sound, VectorRecords
  <2> QED BY <1>2, <1>4, <2>1
<1> QED BY <1>2, <1>4, <1>6, <1>7, Zenon DEF Promise!PushBack, Promise!Set

\* A change of x within its block.
LEMMA InPlace ==
    ASSUME IndInv, NEW v \in Vectors, vec[v] # Absent, NEW z, Sound(z), z.null <=> vec[v].null,
           Becomes(v, z, heap)
    PROVE  IndInv' /\ Contents' = [Contents EXCEPT ![v] = Elems(z)]
<1>1. (HasBlock(v) <=> ~z.null) /\ heap \in Nat
  BY LiveIs, Zenon
<1>2. heap = heap + IF HasBlock(v) \/ z.null THEN 0 ELSE 1
  BY <1>1
<1> QED BY <1>1, <1>2, BecomesStep, Zenon

\* pop_back gives the last element up.
LEMMA PopBackStep ==
    ASSUME IndInv, NEW v \in Vectors, PopBack(v)
    PROVE  IndInv' /\ Promise!PopBack(v)
<1>1. PICK x : x = vec[v] /\ x # Absent /\ x.size > 0
  BY Zenon DEF PopBack, Live
<1>2. /\ Sound(x) /\ Contents[v] = Elems(x) /\ Promise!Alive(v) /\ x.size \in Nat
      /\ Len(Contents[v]) = x.size /\ x.size <= Len(x.cells) /\ Len(x.cells) \in Nat
  BY <1>1, LiveIs, Zenon
<1>3. PICK z : z = Prefix(x, x.size - 1, x)
  OBVIOUS
<1>4. Becomes(v, z, heap)
  BY <1>1, <1>3, Zenon DEF PopBack, Filled, Prefix
<1>5. Sound(z) /\ (z.null <=> x.null) /\ Elems(z) = [i \in 1 .. x.size - 1 |-> x.cells[i]]
  <2>1. PICK k : k = x.size - 1
    OBVIOUS
  <2>2. k \in 0 .. x.size /\ k <= Len(x.cells)
    BY <1>1, <1>2, <2>1
  <2>3. z = Prefix(x, k, x)
    BY <1>3, <2>1, Zenon
  <2>4. Sound(z) /\ (z.null <=> x.null) /\ Elems(z) = [i \in 1 .. k |-> x.cells[i]]
    <3>1. Sound(x) /\ k <= Len(x.cells)
      BY <1>2, <2>2, Zenon
    <3> QED BY <2>2, <2>3, <3>1, Taken
  <2> QED BY <2>1, <2>4, Zenon
<1>6. IndInv' /\ Contents' = [Contents EXCEPT ![v] = Elems(z)]
  BY <1>1, <1>4, <1>5, InPlace, Zenon
<1>7. Elems(z) = SubSeq(Contents[v], 1, Len(Contents[v]) - 1) /\ Contents[v] # <<>>
  <2>1. Elems(x) \in Seq(Elements) /\ Len(Elems(x)) = x.size /\ \A i \in 1 .. x.size : Elems(x)[i] = x.cells[i]
    BY <1>2, ElemsAre, Zenon DEF Elems
  <2>2. SubSeq(Elems(x), 1, x.size - 1) = [i \in 1 .. x.size - 1 |-> Elems(x)[i]]
    BY <1>1, <1>2, <2>1
  <2>3. [i \in 1 .. x.size - 1 |-> Elems(x)[i]] = [i \in 1 .. x.size - 1 |-> x.cells[i]]
    BY <1>1, <1>2, <2>1
  <2>4. Elems(x) # <<>>
    BY <1>1, <2>1
  <2> QED BY <1>2, <1>5, <2>2, <2>3, <2>4, Zenon
<1> QED BY <1>2, <1>6, <1>7, Zenon DEF Promise!PopBack, Promise!Set

\* clear gives all elements up and keeps the block.
LEMMA ClearStep ==
    ASSUME IndInv, NEW v \in Vectors, Clear(v)
    PROVE  IndInv' /\ Promise!Clear(v)
<1>1. PICK x : x = vec[v] /\ x # Absent
  BY Zenon DEF Clear, Live
<1>2. Sound(x) /\ Promise!Alive(v)
  BY <1>1, LiveIs, Zenon
<1>3. PICK z : z = Filled(x, 0, LAMBDA i : Raw)
  OBVIOUS
<1>4. Becomes(v, z, heap)
  BY <1>1, <1>3, Zenon DEF Clear, Filled
<1>5. Sound(z) /\ (z.null <=> x.null) /\ Elems(z) = <<>>
  BY <1>2, <1>3, Cleared, Zenon DEF Filled
<1>6. IndInv' /\ Contents' = [Contents EXCEPT ![v] = Elems(z)]
  BY <1>1, <1>4, <1>5, InPlace, Zenon
<1> QED BY <1>2, <1>5, <1>6, Zenon DEF Promise!Clear, Promise!Set

\* reserve moves the elements to a larger block, or does nothing.
LEMMA ReserveStep ==
    ASSUME IndInv, NEW v \in Vectors, NEW n \in Nat, Reserve(v, n)
    PROVE  IndInv' /\ Contents' = Contents
<1>1. PICK x : x = vec[v] /\ x # Absent
  BY Zenon DEF Reserve, Live
<1>2. /\ Sound(x) /\ Contents[v] = Elems(x) /\ (HasBlock(v) <=> ~x.null)
      /\ x.size \in Nat /\ Len(x.cells) \in Nat /\ heap \in Nat
  BY <1>1, LiveIs, Zenon
<1>3. Contents = [Contents EXCEPT ![v] = Elems(x)]
  <2>1. Contents = [u \in Vectors |-> Contents[u]]
    BY ContentsAre, Zenon
  <2> HIDE DEF Contents
  <2> QED BY <1>2, <2>1, Zenon
<1>4. CASE Fails("zero allocation")
  BY <1>4, FailsStep, Zenon
<1>5. CASE x.null /\ n > 0 /\ Becomes(v, allocate(n), heap + 1)
  <2>1. n \in Nat \ {0}
    BY <1>5
  <2>2. Sound(allocate(n)) /\ ~allocate(n).null /\ Elems(allocate(n)) = <<>>
    BY <2>1, Allocated, Zenon
  <2>3. ~HasBlock(v) /\ heap + 1 = heap + IF HasBlock(v) \/ allocate(n).null THEN 0 ELSE 1
    BY <1>2, <1>5, <2>2, Zenon
  <2>4. IndInv' /\ Contents' = [Contents EXCEPT ![v] = Elems(allocate(n))]
    BY <1>5, <2>2, <2>3, BecomesStep, Zenon
  <2>5. Elems(x) = <<>>
    BY <1>2, <1>5 DEF Elems, Sound
  <2> QED BY <1>3, <2>2, <2>4, <2>5, Zenon
<1>6. CASE Becomes(v, x, heap)
  BY <1>1, <1>2, <1>3, <1>6, InPlace, Zenon
<1>7. CASE ~x.null /\ capacity(x) < n /\ Becomes(v, grow_capacity(x, n), heap)
  <2>1. PICK y : y = grow_capacity(x, n)
    OBVIOUS
  <2>2. Sound(y) /\ ~y.null /\ Elems(y) = Elems(x)
    BY <1>2, <1>7, <2>1, Grown, Zenon DEF capacity
  <2>3. IndInv' /\ Contents' = [Contents EXCEPT ![v] = Elems(y)]
    BY <1>1, <1>7, <2>1, <2>2, InPlace, Zenon
  <2> QED BY <1>3, <2>2, <2>3, Zenon
<1> QED BY <1>1, <1>4, <1>5, <1>6, <1>7, Zenon DEF Reserve

\* A fresh block for a vector without one, and elements in it.
LEMMA IntoFresh ==
    ASSUME IndInv, NEW v \in Vectors, ~HasBlock(v), NEW z, Sound(z), ~z.null, Becomes(v, z, heap + 1)
    PROVE  IndInv' /\ Contents' = [Contents EXCEPT ![v] = Elems(z)]
<1>1. heap + 1 = heap + IF HasBlock(v) \/ z.null THEN 0 ELSE 1
  OBVIOUS
<1> QED BY <1>1, BecomesStep, Zenon

\* resize within the block cuts the elements, or appends default ones.
LEMMA ResizeStep ==
    ASSUME IndInv, NEW v \in Vectors, NEW n \in Nat, Resize(v, n)
    PROVE  IndInv' /\ (Promise!Resize(v, n) \/ Contents' = Contents)
<1>1. PICK x : x = vec[v] /\ x # Absent
  BY Zenon DEF Resize, Live
<1>2. /\ Sound(x) /\ Contents[v] = Elems(x) /\ Promise!Alive(v) /\ (HasBlock(v) <=> ~x.null)
      /\ x.size \in Nat /\ Len(x.cells) \in Nat /\ heap \in Nat
  BY <1>1, LiveIs, Zenon
<1>3. CASE \E kind : Fails(kind)
  BY <1>3, FailsStep, Zenon
<1>4. CASE x.null /\ n > 0 /\ Becomes(v, resized(allocate(n), n), heap + 1)
  <2>1. PICK y, z : y = allocate(n) /\ z = resized(y, n)
    OBVIOUS
  <2>2. Sound(y) /\ ~y.null /\ Len(y.cells) = n /\ Elems(y) = <<>> /\ n \in 0 .. Len(y.cells)
    BY <1>4, <2>1, Allocated
  <2>3. /\ Sound(z) /\ ~z.null
        /\ Elems(z) = [i \in 1 .. n |-> IF i <= Len(Elems(y)) THEN Elems(y)[i] ELSE Default]
    BY <2>1, <2>2, Resized
  <2>4. IndInv' /\ Contents' = [Contents EXCEPT ![v] = Elems(z)]
    BY <1>2, <1>4, <2>1, <2>3, IntoFresh, Zenon
  <2>5. Elems(x) = <<>>
    BY <1>2, <1>4 DEF Elems, Sound
  <2>6. Contents[v] = Elems(y)
    BY <1>2, <2>2, <2>5, Zenon
  <2> QED BY <1>2, <2>3, <2>4, <2>6, Zenon DEF Promise!Resize, Promise!Set
<1>5. CASE ~x.null /\ capacity(x) >= n /\ Becomes(v, resized(x, n), heap)
  <2>1. PICK z : z = resized(x, n)
    OBVIOUS
  <2>2. /\ Sound(z) /\ (z.null <=> x.null)
        /\ Elems(z) = [i \in 1 .. n |-> IF i <= Len(Elems(x)) THEN Elems(x)[i] ELSE Default]
    BY <1>2, <1>5, <2>1, Resized DEF capacity
  <2>3. IndInv' /\ Contents' = [Contents EXCEPT ![v] = Elems(z)]
    BY <1>1, <1>5, <2>1, <2>2, InPlace, Zenon
  <2> QED BY <1>2, <2>2, <2>3, Zenon DEF Promise!Resize, Promise!Set
<1> QED BY <1>1, <1>3, <1>4, <1>5, Zenon DEF Resize

\* A copy gets a block of its own, with the same elements.
LEMMA CopyConstructStep ==
    ASSUME IndInv, NEW v \in Vectors, NEW w \in Vectors, CopyConstruct(v, w)
    PROVE  IndInv' /\ (Promise!Copy(v, w) \/ Contents' = Contents)
<1>0. Live(w) /\ vec[v] = Absent
  BY Zenon DEF CopyConstruct
<1>1. PICK x : x = vec[w]
  OBVIOUS
<1>2. /\ Sound(x) /\ Contents[w] = Elems(x) /\ Promise!Alive(w) /\ ~HasBlock(v)
      /\ x.size \in Nat /\ Len(x.cells) \in Nat /\ x.size <= Len(x.cells)
  BY <1>0, <1>1, LiveIs, Zenon DEF HasBlock, Live
<1>3. CASE capacity(x) = 0
  <2>1. Fails("zero allocation")
    BY <1>1, <1>3, Zenon DEF CopyConstruct
  <2> QED BY <2>1, FailsStep, Zenon
<1>4. CASE capacity(x) # 0
  <2>1. PICK y, z : y = allocate(Len(x.cells)) /\ z = Prefix(y, x.size, x)
    OBVIOUS
  <2>2. Sound(y) /\ ~y.null /\ Len(y.cells) = Len(x.cells)
    BY <1>2, <1>4, <2>1, Allocated, Zenon DEF capacity
  <2>3. Becomes(v, z, heap + 1)
    BY <1>1, <1>4, <2>1, Zenon DEF CopyConstruct, Filled, Prefix, capacity
  <2>4. Sound(z) /\ ~z.null /\ Elems(z) = Elems(x)
    BY <1>2, <2>1, <2>2, Taken DEF Elems
  <2>5. IndInv' /\ Contents' = [Contents EXCEPT ![v] = Elems(z)]
    BY <1>2, <2>3, <2>4, IntoFresh, Zenon
  <2> QED BY <1>2, <2>4, <2>5, Zenon DEF Promise!Copy, Promise!Set
<1> QED BY <1>3, <1>4, Zenon

\* The copy assignment, with the block it writes the elements to.
LEMMA CopyAssignStep ==
    ASSUME IndInv, NEW v \in Vectors, NEW w \in Vectors, CopyAssign(v, w)
    PROVE  IndInv' /\ (Promise!Copy(v, w) \/ Contents' = Contents)
<1>0. Live(v) /\ Live(w)
  BY Zenon DEF CopyAssign
<1>1. PICK x, t, n : x = vec[v] /\ t = vec[w] /\ n = vec[w].size
  OBVIOUS
<1>2. /\ vec[v] # Absent /\ Sound(x) /\ (HasBlock(v) <=> ~x.null) /\ Len(x.cells) \in Nat
      /\ (x.null <=> vec[v].null)
  BY <1>0, <1>1, LiveIs, Zenon DEF Live
<1>3. /\ Sound(t) /\ Contents[w] = Elems(t) /\ Promise!Alive(w) /\ n \in Nat /\ n \in 0 .. t.size /\ n = t.size
  BY <1>0, <1>1, LiveIs DEF Live
<1>4. \/ \E kind : Fails(kind)
      \/ x.null /\ n > 0 /\ Becomes(v, Prefix(allocate(n), n, t), heap + 1)
      \/ ~x.null /\ capacity(x) >= n /\ Becomes(v, Prefix(x, n, t), heap)
      \/ ~x.null /\ capacity(x) < n /\ Becomes(v, Prefix(grow_capacity(x, n), n, t), heap)
  BY <1>1, Zenon DEF CopyAssign, Filled, Prefix
<1>5. ASSUME NEW y, Sound(y), n <= Len(y.cells), NEW z, z = Prefix(y, n, t)
      PROVE  Sound(z) /\ (z.null <=> y.null) /\ Elems(z) = Contents[w]
  <2>1. /\ Sound(z) /\ (z.null <=> y.null) /\ Elems(z) = [i \in 1 .. n |-> t.cells[i]]
    BY <1>3, <1>5, Taken, Zenon
  <2> QED BY <1>3, <2>1, Zenon DEF Elems
<1>6. CASE \E kind : Fails(kind)
  BY <1>6, FailsStep, Zenon
<1>7. CASE x.null /\ n > 0 /\ Becomes(v, Prefix(allocate(n), n, t), heap + 1)
  <2>1. PICK y, z : y = allocate(n) /\ z = Prefix(y, n, t)
    OBVIOUS
  <2>2. Sound(y) /\ ~y.null /\ n <= Len(y.cells)
    <3>1. n \in Nat \ {0}
      BY <1>3, <1>7
    <3> QED BY <2>1, <3>1, Allocated
  <2>3. Sound(z) /\ ~z.null /\ Elems(z) = Contents[w]
    BY <1>5, <2>1, <2>2, Zenon
  <2>4. IndInv' /\ Contents' = [Contents EXCEPT ![v] = Elems(z)]
    BY <1>2, <1>7, <2>1, <2>3, IntoFresh, Zenon
  <2> QED BY <1>3, <2>3, <2>4, Zenon DEF Promise!Copy, Promise!Set
<1>8. CASE ~x.null /\ capacity(x) >= n /\ Becomes(v, Prefix(x, n, t), heap)
  <2>1. PICK z : z = Prefix(x, n, t)
    OBVIOUS
  <2>2. n <= Len(x.cells)
    BY <1>2, <1>3, <1>8, Zenon DEF capacity
  <2>3. Sound(z) /\ (z.null <=> x.null) /\ Elems(z) = Contents[w]
    BY <1>2, <1>5, <2>1, <2>2, Zenon
  <2>4. IndInv' /\ Contents' = [Contents EXCEPT ![v] = Elems(z)]
    BY <1>2, <1>8, <2>1, <2>3, InPlace, ZenonT(40)
  <2> QED BY <1>3, <2>3, <2>4, Zenon DEF Promise!Copy, Promise!Set
<1>9. CASE ~x.null /\ capacity(x) < n /\ Becomes(v, Prefix(grow_capacity(x, n), n, t), heap)
  <2>1. PICK y, z : y = grow_capacity(x, n) /\ z = Prefix(y, n, t)
    OBVIOUS
  <2>2. Sound(y) /\ ~y.null /\ n <= Len(y.cells)
    BY <1>2, <1>3, <1>9, <2>1, Grown DEF capacity
  <2>3. Sound(z) /\ ~z.null /\ Elems(z) = Contents[w]
    BY <1>5, <2>1, <2>2, Zenon
  <2>4. IndInv' /\ Contents' = [Contents EXCEPT ![v] = Elems(z)]
    BY <1>2, <1>9, <2>1, <2>3, InPlace, Zenon
  <2> QED BY <1>3, <2>3, <2>4, Zenon DEF Promise!Copy, Promise!Set
<1> QED BY <1>4, <1>6, <1>7, <1>8, <1>9, Zenon

--------------------------------------------------------------------------------
\* No vector is constructed at first.
LEMMA InitInv ==
    ASSUME Init
    PROVE  IndInv /\ Promise!Init
<1>1. vec = [v \in Vectors |-> Absent] /\ heap = 0
  BY Zenon DEF Init
<1>2. Owning = {}
  BY <1>1, Zenon DEF Owning
<1>3. IsFiniteSet(Owning) /\ heap = Cardinality(Owning)
  BY <1>1, <1>2, FS_EmptySet, Zenon
<1>4. IndInv
  BY <1>1, <1>3 DEF IndInv
<1> QED BY <1>1, <1>4, Zenon DEF Promise!Init, Contents

\* push_back(v[i]).
LEMMA PushBackOwnStep ==
    ASSUME IndInv, NEW v \in Vectors, NEW i \in 1 .. MaxCapacity, PushBackOwn(v, i)
    PROVE  IndInv' /\ (Contents' = Contents \/ \E e \in Elements : Promise!PushBack(v, e))
<1>1. PICK x, e : x = vec[v] /\ e = x.cells[i]
  OBVIOUS
<1>2. vec[v] # Absent /\ i <= x.size
  BY <1>1, Zenon DEF PushBackOwn, Live
<1>3. Sound(x) /\ x.size \in Nat /\ x.size <= Len(x.cells) /\ Len(x.cells) \in Nat /\ heap \in Nat
  BY <1>1, <1>2, LiveIs, Zenon
<1>4. e \in Elements /\ ~x.null
  BY <1>1, <1>2, <1>3 DEF Sound, VectorRecords, Elements
<1>5. CASE x.size = Len(x.cells)
  BY <1>1, <1>5, FailsStep, Zenon DEF PushBackOwn, capacity
<1>6. CASE x.size # Len(x.cells)
  <2>1. Becomes(v, emplaced(vec[v], e), heap)
    BY <1>1, <1>6, Zenon DEF PushBackOwn, capacity
  <2>2. heap = heap + IF vec[v].null THEN 1 ELSE 0
    BY <1>1, <1>3, <1>4
  <2> QED BY <1>2, <1>4, <2>1, <2>2, PushBackStep, Zenon
<1> QED BY <1>5, <1>6, Zenon

\* Every operation keeps the invariant and does to the elements what is promised, or nothing.
LEMMA StepInv ==
    ASSUME IndInv, [Next]_vars
    PROVE  IndInv' /\ [Promise!Next]_Contents
<1>1. CASE UNCHANGED vars
  <2>1. vec' = vec /\ heap' = heap
    BY <1>1, Zenon DEF vars
  <2>2. Owning' = Owning
    BY <2>1, Zenon DEF Owning
  <2>3. IsFiniteSet(Owning') /\ heap' = Cardinality(Owning')
    BY <2>1, <2>2, Zenon DEF IndInv
  <2>4. IndInv'
    BY <2>1, <2>3, Zenon DEF IndInv
  <2>5. Contents' = Contents
    BY <2>1, Zenon DEF Contents
  <2> QED BY <2>4, <2>5, Zenon
<1>2. ASSUME NEW v \in Vectors, Construct(v) \/ PopBack(v) \/ Clear(v) \/ Destroy(v)
      PROVE  IndInv' /\ [Promise!Next]_Contents
  <2>1. CASE Construct(v)
    <3>1. 0 \in Nat
      OBVIOUS
    <3> QED BY <2>1, <3>1, ConstructStep, Zenon DEF Promise!Next
  <2>2. CASE PopBack(v)
    BY <2>2, PopBackStep, Zenon DEF Promise!Next
  <2>3. CASE Clear(v)
    BY <2>3, ClearStep, Zenon DEF Promise!Next
  <2>4. CASE Destroy(v)
    <3>1. vec[v] # Absent
      BY <2>4, Zenon DEF Destroy, Live
    <3>2. Promise!Alive(v)
      BY <3>1, LiveIs, Zenon
    <3> QED BY <2>4, <3>2, DestroyStep, Zenon DEF Promise!Next, Promise!Destroy, Promise!Set
  <2> QED BY <1>2, <2>1, <2>2, <2>3, <2>4, Zenon
<1>3. ASSUME NEW v \in Vectors, NEW n \in 0 .. MaxCapacity,
             ConstructReserved(v, n) \/ Reserve(v, n) \/ Resize(v, n)
      PROVE  IndInv' /\ [Promise!Next]_Contents
  <2>0. n \in Nat
    OBVIOUS
  <2>1. CASE ConstructReserved(v, n)
    BY <2>0, <2>1, ConstructStep, Zenon DEF Promise!Next
  <2>2. CASE Reserve(v, n)
    BY <2>0, <2>2, ReserveStep, Zenon
  <2>3. CASE Resize(v, n)
    BY <2>0, <2>3, ResizeStep, Zenon DEF Promise!Next
  <2> QED BY <1>3, <2>1, <2>2, <2>3, Zenon
<1>4. ASSUME NEW v \in Vectors, NEW e \in Values, PushBack(v, e)
      PROVE  IndInv' /\ [Promise!Next]_Contents
  <2>1. e \in Elements /\ vec[v] # Absent
    BY <1>4, Zenon DEF PushBack, Live, Elements
  <2>2. PICK n : n = heap + IF vec[v].null THEN 1 ELSE 0
    OBVIOUS
  <2>3. Becomes(v, emplaced(vec[v], e), n)
    BY <1>4, <2>2, Zenon DEF PushBack
  <2>4. IndInv' /\ Promise!PushBack(v, e)
    BY <2>1, <2>2, <2>3, PushBackStep, Zenon
  <2> QED BY <2>1, <2>4, Zenon DEF Promise!Next, Elements
<1>5. ASSUME NEW v \in Vectors, NEW i \in 1 .. MaxCapacity, PushBackOwn(v, i)
      PROVE  IndInv' /\ [Promise!Next]_Contents
  BY <1>5, PushBackOwnStep, Zenon DEF Promise!Next, Elements
<1>6. ASSUME NEW v \in Vectors, NEW w \in Vectors,
             CopyConstruct(v, w) \/ CopyAssign(v, w) \/ MoveConstruct(v, w) \/ MoveAssign(v, w)
      PROVE  IndInv' /\ [Promise!Next]_Contents
  <2>1. CASE CopyConstruct(v, w)
    BY <2>1, CopyConstructStep, Zenon DEF Promise!Next
  <2>2. CASE CopyAssign(v, w)
    BY <2>2, CopyAssignStep, Zenon DEF Promise!Next
  <2>3. CASE MoveConstruct(v, w) \/ MoveAssign(v, w)
    <3>1. vec[w] # Absent /\ vec' = [vec EXCEPT ![v] = vec[w], ![w] = NullVector]
      BY <2>3, Zenon DEF MoveConstruct, MoveAssign, Live
    <3>2. heap' = heap - IF HasBlock(v) THEN 1 ELSE 0
      <4>1. heap \in Nat
        BY Zenon DEF IndInv
      <4>2. CASE MoveConstruct(v, w)
        BY <4>1, <4>2 DEF MoveConstruct, HasBlock
      <4>3. CASE MoveAssign(v, w)
        BY <4>1, <4>3, Zenon DEF MoveAssign, HasBlock, Live
      <4> QED BY <2>3, <4>2, <4>3, Zenon
    <3>3. Promise!Alive(w)
      BY <3>1, LiveIs, Zenon
    <3>4. IndInv' /\ Contents' = [Contents EXCEPT ![v] = Contents[w], ![w] = <<>>]
      BY <3>1, <3>2, MoveStep, Zenon
    <3> QED BY <3>3, <3>4, Zenon DEF Promise!Next, Promise!Move
  <2> QED BY <1>6, <2>1, <2>2, <2>3, Zenon
<1> QED BY <1>1, <1>2, <1>3, <1>4, <1>5, <1>6, Zenon DEF Next

\* The invariant counts the blocks and keeps every one of them large enough.
LEMMA OwnedInv ==
    ASSUME IndInv
    PROVE  BlocksOwned
<1>1. TypeOK
  BY DEF IndInv, TypeOK, Sound, VectorRecords, capacity
<1>2. heap = Cardinality(Owning)
  BY Zenon DEF IndInv
<1>3. \A v \in Owning : capacity(vec[v]) > 0
  BY DEF IndInv, Owning, Sound, VectorRecords, capacity
<1> QED BY <1>1, <1>2, <1>3, Zenon DEF BlocksOwned, Owning

(* Whatever constructions, copies, moves and growth came before, every block  *)
(* on the heap is that of exactly one vector, m_end lies in it, its elements  *)
(* are the cells before m_end, and it has room for one.                       *)
THEOREM EveryBlockOwned == Spec => []BlocksOwned
<1>1. Init => IndInv
  BY InitInv, Zenon
<1>2. IndInv /\ [Next]_vars => IndInv'
  BY StepInv, Zenon
<1>3. IndInv => BlocksOwned
  BY OwnedInv, Zenon
<1> QED BY <1>1, <1>2, <1>3, PTL DEF Spec

(* Vector implements the container of SequenceContainer: with m_begin, m_end  *)
(* and m_cap mapped to the elements before m_end, each member function does   *)
(* what the sequence operation of its name does, or nothing that shows.       *)
THEOREM VectorIsSequence == Spec => ImplementsSequence
<1>1. Init => IndInv /\ Promise!Init
  BY InitInv, Zenon
<1>2. IndInv /\ [Next]_vars => IndInv' /\ [Promise!Next]_Contents
  BY StepInv, Zenon
<1> QED BY <1>1, <1>2, PTL DEF Spec, ImplementsSequence, Promise!Spec
================================================================================
