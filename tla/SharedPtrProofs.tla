---------------------------- MODULE SharedPtrProofs ----------------------------
(******************************************************************************)
(* Safety of shared_ptr for any number of threads, handles, blocks and        *)
(* objects: the count is exact, nothing is used after it was freed, and       *)
(* nothing leaks. The inductive invariant, a lemma per step that it is kept,  *)
(* and what follows from it.                                                  *)
(******************************************************************************)
EXTENDS SharedPtr, FiniteSetTheorems, TLAPS

USE NullAssumption, HandlesAssumption, SMTT(40)

Active(t) == call[t].step # "idle"
Moves == {"move", "moveconstruct"}
Copies == {"copy", "copyconstruct"}

\* The clients' rule: what a call in progress writes, no other one uses.
Apart ==
    \A t, u \in Threads : t # u /\ Active(t) /\ Active(u) =>
        /\ call[t].h # call[u].h /\ call[t].h # call[u].from
        /\ call[t].op \in Moves => call[t].from # call[u].from

\* The operands of a call fit its operation, and the block it works on is there.
CallsSound ==
    \A t \in Threads : LET c == call[t] IN Active(t) =>
        /\ c.op \in Moves \cup Copies => c.from \in Handles \ {c.h} /\ p_cb[c.from] # Absent
        /\ c.op \notin Moves \cup Copies => c.from \notin Handles
        /\ c.op \in {"adopt", "resetto"} => c.from \in Objects \cup {Null}
        /\ c.op \notin {"adopt", "resetto"} => c.from \notin Objects
        /\ c.step \in {"release", "delete", "free", "addref"} =>
              p_cb[c.h] \in Blocks /\ block[p_cb[c.h]] = "live"
        /\ c.step = "addref" =>
              c.op \in Copies /\ p_cb[c.h] = p_cb[c.from] /\ p_obj[c.h] = p_obj[c.from]
        /\ c.step \in {"delete", "free"} => m_count[p_cb[c.h]] = 0
        /\ c.step = "free" => cb_obj[p_cb[c.h]] = Null

\* A handle that is counted has the object of its block.
HandlesSound ==
    \A h \in Handles :
        /\ p_cb[h] \notin Blocks => p_obj[h] = p_cb[h]
        /\ p_cb[h] \in Blocks /\ ~Uncounted(h) =>
              block[p_cb[h]] = "live" /\ p_obj[h] = cb_obj[p_cb[h]]

Ends(t, b) == call[t].step \in {"delete", "free"} /\ p_cb[call[t].h] = b

\* The count of a live block is exact, and one thread ends the block once it is zero.
BlocksSound ==
    \A b \in Blocks :
        /\ block[b] = "live" => m_count[b] = Cardinality(Counted(b))
        /\ block[b] = "live" /\ m_count[b] = 0 => \E t \in Threads : Ends(t, b)
        /\ \A t, u \in Threads : Ends(t, b) /\ Ends(u, b) => t = u

OwnedBy(o, b) == block[b] = "live" /\ cb_obj[b] = o

\* A live object has one owner, a block or a call that was given its pointer.
ObjectsSound ==
    \A o \in Objects :
        /\ object[o] = "live" =>
              \/ \E b \in Blocks : OwnedBy(o, b)
              \/ \E t \in Threads : call[t].from = o
        /\ object[o] = "free" =>
              /\ \A b \in Blocks : ~OwnedBy(o, b)
              /\ \A t \in Threads : call[t].from # o
        /\ \A b, d \in Blocks : OwnedBy(o, b) /\ OwnedBy(o, d) => b = d
        /\ \A t, u \in Threads : call[t].from = o /\ call[u].from = o => t = u
        /\ \A b \in Blocks, t \in Threads : ~(OwnedBy(o, b) /\ call[t].from = o)

IndInv == TypeOK /\ Apart /\ CallsSound /\ HandlesSound /\ BlocksSound /\ ObjectsSound

--------------------------------------------------------------------------------
(* Calls. *)

Steps == {"release", "delete", "free", "store", "addref"}

\* A thread is idle, or has a call with a handle to work on.
LEMMA CallShape ==
    ASSUME TypeOK, NEW t \in Threads
    PROVE  /\ Active(t) => call[t] \in Calls /\ call[t].h \in Handles /\ call[t].step \in Steps
           /\ ~Active(t) => call[t] = Idle
           /\ call[t] # Idle <=> Active(t)
BY DEF TypeOK, Active, Calls, Idle, Steps

\* Goto changes the step of its thread's call only.
LEMMA Goes ==
    ASSUME TypeOK, Apart, NEW t \in Threads, Active(t), NEW s \in Steps, Goto(t, s)
    PROVE  /\ call' \in [Threads -> Calls \cup {Idle}]
           /\ \A u \in Threads : u # t => call'[u] = call[u]
           /\ call'[t].step = s /\ call'[t].op = call[t].op /\ call'[t].h = call[t].h
           /\ \A u \in Threads : call'[u].from = call[u].from /\ (Active(u)' <=> Active(u))
           /\ Apart'
<1>1. call[t] \in Calls /\ call \in [Threads -> Calls \cup {Idle}]
  BY CallShape, Zenon DEF TypeOK
<1>2. call' = [call EXCEPT ![t] = [call[t] EXCEPT !.step = s]]
  BY <1>1, Zenon DEF Goto
<1>3. [call[t] EXCEPT !.step = s] \in Calls
  BY <1>1, Zenon DEF Calls, Steps
<1>4. /\ call' \in [Threads -> Calls \cup {Idle}]
      /\ \A u \in Threads : u # t => call'[u] = call[u]
      /\ call'[t].step = s /\ call'[t].op = call[t].op
      /\ call'[t].h = call[t].h /\ call'[t].from = call[t].from
  BY <1>1, <1>2, <1>3, Zenon DEF Calls
<1> QED BY <1>4 DEF Active, Steps, Apart

\* The handles that a call writes are not used by another one.
LEMMA Alone ==
    ASSUME TypeOK, Apart, CallsSound, NEW t \in Threads, Active(t)
    PROVE  /\ \A u \in Threads : u # t => call[u].h # call[t].h /\ call[u].from # call[t].h
           /\ Uncounted(call[t].h) <=> call[t].step # "release"
           /\ call[t].op \in Moves \cup Copies => ~Uncounted(call[t].from)
           /\ call[t].op \in Moves => \A u \in Threads : u # t =>
                 call[u].h # call[t].from /\ call[u].from # call[t].from
<1>1. \A u \in Threads : ~Active(u) => call[u].h = Absent /\ call[u].from = Absent
  BY CallShape DEF Idle
<1>2. call[t].h \in Handles /\ call[t].step \in Steps
  BY CallShape, Zenon
<1>3. \A u \in Threads : u # t => call[u].h # call[t].h /\ call[u].from # call[t].h
  BY <1>1, <1>2, Zenon DEF Apart
<1>4. Uncounted(call[t].h) <=> call[t].step # "release"
  BY <1>2, <1>3, Zenon DEF Uncounted, Steps
<1>5. ASSUME call[t].op \in Moves \cup Copies
      PROVE  \A u \in Threads : call[u].h # call[t].from
  <2>1. call[t].from \in Handles \ {call[t].h}
    BY <1>5, Zenon DEF CallsSound
  <2> QED BY <1>1, <2>1, Zenon DEF Apart
<1>6. ASSUME call[t].op \in Moves, NEW u \in Threads, u # t
      PROVE  call[u].from # call[t].from
  <2>1. call[t].from \in Handles
    BY <1>6, Zenon DEF CallsSound
  <2> QED BY <1>1, <1>6, <2>1, Zenon DEF Apart
<1> QED BY <1>3, <1>4, <1>5, <1>6, Zenon DEF Uncounted

\* A call that ends with its stores to the handle leaves the others as they are.
LEMMA Returned ==
    ASSUME TypeOK, Apart, CallsSound, NEW t \in Threads, Active(t), call[t].step # "release",
           call[t].step \notin {"delete", "free"}, Return(t),
           \A k \in Handles :
               k # call[t].h /\ (k = call[t].from => call[t].op \notin Moves) =>
                  p_cb'[k] = p_cb[k] /\ p_obj'[k] = p_obj[k],
           \A b \in Blocks : block[b] = "live" => block'[b] = "live" /\ cb_obj'[b] = cb_obj[b],
           \A u \in Threads, b \in Blocks : Ends(u, b) => m_count'[b] = m_count[b]
    PROVE  /\ call' \in [Threads -> Calls \cup {Idle}]
           /\ \A u \in Threads : call'[u].from = IF u = t THEN Absent ELSE call[u].from
           /\ \A g \in Handles : Uncounted(g)' <=> Uncounted(g) /\ g # call[t].h
           /\ \A u \in Threads, b \in Blocks : Ends(u, b)' <=> Ends(u, b)
           /\ Apart' /\ CallsSound'
<1>1. /\ call' \in [Threads -> Calls \cup {Idle}]
      /\ \A u \in Threads : u # t => call'[u] = call[u]
      /\ call'[t].step = "idle" /\ call'[t].h = Absent /\ call'[t].from = Absent
  BY Zenon DEF TypeOK, Return, Idle
<1>2. \A u \in Threads : Active(u)' <=> Active(u) /\ u # t
  BY <1>1, Zenon DEF Active
<1>3. \A g \in Handles : Uncounted(g)' <=> Uncounted(g) /\ g # call[t].h
  BY <1>1, Alone, CallShape DEF Uncounted, Steps
<1>4. \A u \in Threads : u # t /\ Active(u) =>
          /\ p_cb'[call[u].h] = p_cb[call[u].h] /\ p_obj'[call[u].h] = p_obj[call[u].h]
          /\ call[u].from \in Handles =>
                /\ p_cb'[call[u].from] = p_cb[call[u].from]
                /\ p_obj'[call[u].from] = p_obj[call[u].from]
  BY Alone, CallShape
<1>5. \A u \in Threads, b \in Blocks : Ends(u, b)' <=> Ends(u, b)
  BY <1>1, <1>4 DEF Ends, Active
<1>6. CallsSound'
  BY <1>1, <1>2, <1>4 DEF CallsSound, Ends
<1>7. Apart'
  BY <1>1, <1>2 DEF Apart
<1> QED BY <1>1, <1>3, <1>5, <1>6, <1>7, Zenon

--------------------------------------------------------------------------------
(* The steps of release. *)

\* Counting a handle more or less changes the number by one.
LEMMA CountOne ==
    ASSUME NEW S \in SUBSET Handles, NEW h \in Handles
    PROVE  /\ Cardinality(S) \in Nat
           /\ h \in S => Cardinality(S \ {h}) = Cardinality(S) - 1 /\ Cardinality(S) > 0
           /\ h \notin S => Cardinality(S \cup {h}) = Cardinality(S) + 1
           /\ Cardinality(S) = 0 <=> S = {}
<1>1. IsFiniteSet(S)
  BY FS_Subset, Zenon
<1>2. Cardinality(S) \in Nat /\ (Cardinality(S) = 0 <=> S = {})
  BY <1>1, FS_CardinalityType, FS_EmptySet, Zenon
<1>3. Cardinality(S \ {h}) = IF h \in S THEN Cardinality(S) - 1 ELSE Cardinality(S)
  BY <1>1, FS_RemoveElement, Zenon
<1>4. Cardinality(S \cup {h}) = IF h \in S THEN Cardinality(S) ELSE Cardinality(S) + 1
  BY <1>1, FS_AddElement, Zenon
<1> QED BY <1>2, <1>3, <1>4

\* control_block::release takes the handle out of the count, and ends the block at zero.
LEMMA ReleaseStep ==
    ASSUME IndInv, NEW t \in Threads, release(t)
    PROVE  IndInv'
<1> TypeOK /\ Apart /\ CallsSound /\ HandlesSound /\ BlocksSound /\ ObjectsSound
  BY Zenon DEF IndInv
<1>0. Active(t) /\ call[t].step = "release" /\ call[t].h \in Handles
  BY CallShape, Zenon DEF release, At, Active
<1>1. PICK h \in Handles, b \in Blocks :
          call[t].h = h /\ p_cb[h] = b /\ block[b] = "live" /\ ~Uncounted(h)
  BY <1>0, Alone, Zenon DEF CallsSound
<1>2. PICK s \in {"delete", "store"} :
          Goto(t, s) /\ (s = "delete" <=> m_count[b] = 1)
  BY <1>1, Zenon DEF release
<1>3. /\ call' \in [Threads -> Calls \cup {Idle}]
      /\ \A u \in Threads : u # t => call'[u] = call[u]
      /\ call'[t].step = s /\ call'[t].op = call[t].op /\ call'[t].h = call[t].h
      /\ \A u \in Threads : call'[u].from = call[u].from /\ (Active(u)' <=> Active(u))
      /\ Apart'
  BY <1>0, <1>2, Goes, Zenon DEF Steps
<1>4. UNCHANGED <<p_obj, p_cb, cb_obj, block, object>> /\ m_count' = [m_count EXCEPT ![b] = @ - 1]
  BY <1>1, Zenon DEF release, handleVars
<1>5. \A g \in Handles : Uncounted(g)' <=> Uncounted(g) \/ g = h
  BY <1>0, <1>1, <1>2, <1>3, Zenon DEF Uncounted
<1>6. /\ h \in Counted(b) /\ Counted(b) \in SUBSET Handles
      /\ Counted(b)' = Counted(b) \ {h} /\ m_count[b] = Cardinality(Counted(b))
      /\ \A d \in Blocks \ {b} : Counted(d)' = Counted(d)
  BY <1>1, <1>4, <1>5, Zenon DEF Counted, BlocksSound
<1>7. /\ Cardinality(Counted(b)) \in Nat /\ Cardinality(Counted(b)) > 0
      /\ Cardinality(Counted(b)') = Cardinality(Counted(b)) - 1
  <2>1. /\ Cardinality(Counted(b)) \in Nat /\ Cardinality(Counted(b)) > 0
        /\ Cardinality(Counted(b) \ {h}) = Cardinality(Counted(b)) - 1
    BY <1>6, CountOne, Zenon
  <2> QED BY <1>6, <2>1, Zenon
<1>8. m_count[b] > 0 /\ m_count'[b] = m_count[b] - 1 /\ m_count'[b] = Cardinality(Counted(b)')
  BY <1>4, <1>6, <1>7, Zenon DEF TypeOK
<1>9. TypeOK'
  BY <1>3, <1>4, <1>8 DEF TypeOK
<1>10. \A u \in Threads, d \in Blocks :
          /\ Ends(u, d) => d # b
          /\ Ends(u, d)' <=> Ends(u, d) \/ (u = t /\ s = "delete" /\ d = b)
  BY <1>0, <1>1, <1>2, <1>3, <1>4, <1>8 DEF Ends, CallsSound, Active
<1>11. CallsSound'
  BY <1>0, <1>1, <1>2, <1>3, <1>4, <1>10 DEF CallsSound, Active, TypeOK, Ends
<1>12. HandlesSound'
  BY <1>4, <1>5, Zenon DEF HandlesSound
<1>13. BlocksSound'
  <2>1. \A d \in Blocks \ {b} : m_count'[d] = m_count[d]
    BY <1>4, Zenon DEF TypeOK
  <2> QED BY <1>2, <1>4, <1>6, <1>8, <1>10, <2>1 DEF BlocksSound
<1>14. ObjectsSound'
  BY <1>3, <1>4 DEF ObjectsSound, OwnedBy
<1> QED BY <1>3, <1>9, <1>11, <1>12, <1>13, <1>14, Zenon DEF IndInv

\* No handle counts on a block whose count is zero.
LEMMA NobodyCounts ==
    ASSUME BlocksSound, NEW b \in Blocks, block[b] = "live", m_count[b] = 0
    PROVE  \A g \in Handles : p_cb[g] = b => Uncounted(g)
<1>1. Counted(b) \in SUBSET Handles /\ Cardinality(Counted(b)) = 0
  BY Zenon DEF Counted, BlocksSound
<1>2. IsFiniteSet(Counted(b))
  BY <1>1, FS_Subset, Zenon
<1>3. Counted(b) = {}
  BY <1>1, <1>2, FS_EmptySet, Zenon
<1> QED BY <1>3, Zenon DEF Counted

\* The deleter ends the object of a block that no handle shares.
LEMMA ReleaseObjectStep ==
    ASSUME IndInv, NEW t \in Threads, releaseObject(t)
    PROVE  IndInv'
<1> TypeOK /\ Apart /\ CallsSound /\ HandlesSound /\ BlocksSound /\ ObjectsSound
  BY Zenon DEF IndInv
<1>0. Active(t) /\ call[t].step = "delete" /\ call[t].h \in Handles
  BY CallShape, Zenon DEF releaseObject, At, Active
<1>1. PICK h \in Handles, b \in Blocks :
          call[t].h = h /\ p_cb[h] = b /\ block[b] = "live" /\ m_count[b] = 0
  BY <1>0, Zenon DEF CallsSound
<1>2. /\ call' \in [Threads -> Calls \cup {Idle}]
      /\ \A u \in Threads : u # t => call'[u] = call[u]
      /\ call'[t].step = "free" /\ call'[t].op = call[t].op /\ call'[t].h = call[t].h
      /\ \A u \in Threads : call'[u].from = call[u].from /\ (Active(u)' <=> Active(u))
      /\ Apart'
  BY <1>0, Goes, Zenon DEF releaseObject, Steps
<1>3. /\ UNCHANGED <<p_obj, p_cb, m_count, block>>
      /\ cb_obj' = [cb_obj EXCEPT ![b] = Null]
      /\ object' = [o \in Objects |-> IF o = cb_obj[b] THEN "free" ELSE object[o]]
  BY <1>1 DEF releaseObject, handleVars, TypeOK
<1>4. TypeOK'
  BY <1>2, <1>3, Zenon DEF TypeOK
<1>5. \A g \in Handles : Uncounted(g)' <=> Uncounted(g)
  BY <1>0, <1>1, <1>2 DEF Uncounted
<1>6. CallsSound'
  BY <1>0, <1>1, <1>2, <1>3 DEF CallsSound, Active, TypeOK
<1>7. HandlesSound'
  BY <1>1, <1>3, <1>5, NobodyCounts, Zenon DEF HandlesSound, TypeOK
<1>8. BlocksSound'
  <2>1. \A d \in Blocks : Counted(d)' = Counted(d)
    BY <1>3, <1>5, Zenon DEF Counted
  <2>2. \A u \in Threads, d \in Blocks : Ends(u, d)' <=> Ends(u, d)
    BY <1>0, <1>2, <1>3, Zenon DEF Ends
  <2> QED BY <1>3, <2>1, <2>2, Zenon DEF BlocksSound
<1>9. ObjectsSound'
  <2>1. \A o \in Objects, d \in Blocks : OwnedBy(o, d)' <=> OwnedBy(o, d) /\ d # b
    BY <1>3, Zenon DEF OwnedBy, TypeOK
  <2>2. \A o \in Objects : object'[o] = IF OwnedBy(o, b) THEN "free" ELSE object[o]
    BY <1>1, <1>3, Zenon DEF OwnedBy
  <2> SUFFICES ASSUME NEW o \in Objects
               PROVE  ObjectsSound!(o)'
    BY Zenon DEF ObjectsSound
  <2>3. CASE OwnedBy(o, b)
    BY <1>2, <2>1, <2>2, <2>3 DEF ObjectsSound
  <2>4. CASE ~OwnedBy(o, b)
    BY <1>2, <2>1, <2>2, <2>4 DEF ObjectsSound
  <2> QED BY <2>3, <2>4, Zenon
<1> QED BY <1>2, <1>4, <1>6, <1>7, <1>8, <1>9, Zenon DEF IndInv

\* The block is freed: no handle counts on it, and no other call works on it.
LEMMA ReleaseBlockStep ==
    ASSUME IndInv, NEW t \in Threads, releaseBlock(t)
    PROVE  IndInv'
<1> TypeOK /\ Apart /\ CallsSound /\ HandlesSound /\ BlocksSound /\ ObjectsSound
  BY Zenon DEF IndInv
<1>0. Active(t) /\ call[t].step = "free" /\ call[t].h \in Handles
  BY CallShape, Zenon DEF releaseBlock, At, Active
<1>1. PICK h \in Handles, b \in Blocks :
          /\ call[t].h = h /\ p_cb[h] = b /\ block[b] = "live"
          /\ m_count[b] = 0 /\ cb_obj[b] = Null
  BY <1>0, Zenon DEF CallsSound
<1>2. /\ call' \in [Threads -> Calls \cup {Idle}]
      /\ \A u \in Threads : u # t => call'[u] = call[u]
      /\ call'[t].step = "store" /\ call'[t].op = call[t].op /\ call'[t].h = call[t].h
      /\ \A u \in Threads : call'[u].from = call[u].from /\ (Active(u)' <=> Active(u))
      /\ Apart'
  BY <1>0, Goes, Zenon DEF releaseBlock, Steps
<1>3. UNCHANGED <<p_obj, p_cb, m_count, cb_obj, object>> /\ block' = [block EXCEPT ![b] = "free"]
  BY <1>1, Zenon DEF releaseBlock, handleVars
<1>4. TypeOK'
  BY <1>2, <1>3, Zenon DEF TypeOK
<1>5. \A g \in Handles : Uncounted(g)' <=> Uncounted(g)
  BY <1>0, <1>1, <1>2 DEF Uncounted
<1>6. \A g \in Handles : p_cb[g] = b => Uncounted(g)
  BY <1>1, NobodyCounts, Zenon
<1>7. \A u \in Threads : u # t /\ call[u].step \in {"release", "delete", "free", "addref"} =>
          p_cb[call[u].h] # b
  <2> SUFFICES ASSUME NEW u \in Threads, u # t, p_cb[call[u].h] = b,
                      call[u].step \in {"release", "delete", "free", "addref"}
               PROVE  FALSE
    OBVIOUS
  <2>1. CASE call[u].step \in {"delete", "free"}
    BY <1>0, <1>1, <2>1 DEF Ends, BlocksSound
  <2>2. CASE call[u].step \in {"release", "addref"}
    BY <1>6, <2>2, Alone, CallShape, ZenonT(40) DEF CallsSound, Active
  <2> QED BY <2>1, <2>2, Zenon
<1>8. CallsSound'
  BY <1>0, <1>1, <1>2, <1>3, <1>7 DEF CallsSound, Active, TypeOK
<1>9. HandlesSound'
  BY <1>3, <1>5, <1>6, Zenon DEF HandlesSound, TypeOK
<1>10. BlocksSound'
  <2>1. \A u \in Threads, d \in Blocks :
           (Ends(u, d)' <=> Ends(u, d) /\ u # t) /\ (Ends(t, d) => d = b)
    BY <1>0, <1>1, <1>2, <1>3, Zenon DEF Ends
  <2>2. \A d \in Blocks : Counted(d)' = Counted(d)
    BY <1>3, <1>5, Zenon DEF Counted
  <2> QED BY <1>3, <2>1, <2>2 DEF BlocksSound, TypeOK
<1>11. ObjectsSound'
  <2>1. \A o \in Objects, d \in Blocks : OwnedBy(o, d)' <=> OwnedBy(o, d)
    BY <1>1, <1>3 DEF OwnedBy, TypeOK
  <2> QED BY <1>2, <1>3, <2>1 DEF ObjectsSound
<1> QED BY <1>2, <1>4, <1>8, <1>9, <1>10, <1>11, Zenon DEF IndInv

--------------------------------------------------------------------------------
(* The stores to the handle. *)

\* The handle of the call is emptied or destroyed.
LEMMA StoreNullStep ==
    ASSUME IndInv, NEW t \in Threads, StoreNull(t)
    PROVE  IndInv'
<1> TypeOK /\ Apart /\ CallsSound /\ HandlesSound /\ BlocksSound /\ ObjectsSound
  BY Zenon DEF IndInv
<1>0. Active(t) /\ call[t].step = "store" /\ Return(t) /\ call[t].from \notin Objects
  BY Zenon DEF StoreNull, At, Active, CallsSound
<1>1. PICK h \in Handles, v \in {Null, Absent} :
          call[t].h = h /\ SetHandle(h, v, v) /\ Uncounted(h)
  BY <1>0, Alone, CallShape, Zenon DEF StoreNull
<1>2. UNCHANGED <<m_count, cb_obj, block, object>>
  BY Zenon DEF StoreNull, blockVars
<1>3. p_obj' = [p_obj EXCEPT ![h] = v] /\ p_cb' = [p_cb EXCEPT ![h] = v]
  BY <1>1, Zenon DEF SetHandle
<1>4. /\ call' \in [Threads -> Calls \cup {Idle}]
      /\ \A u \in Threads : call'[u].from = IF u = t THEN Absent ELSE call[u].from
      /\ \A g \in Handles : Uncounted(g)' <=> Uncounted(g) /\ g # h
      /\ \A u \in Threads, d \in Blocks : Ends(u, d)' <=> Ends(u, d)
      /\ Apart' /\ CallsSound'
  <2>1. \A k \in Handles : k # h => p_cb'[k] = p_cb[k] /\ p_obj'[k] = p_obj[k]
    BY <1>3, Zenon DEF TypeOK
  <2> QED BY <1>0, <1>1, <1>2, <2>1, Returned, Zenon
<1>5. TypeOK'
  BY <1>2, <1>3, <1>4, Zenon DEF TypeOK
<1>6. \A d \in Blocks : Counted(d)' = Counted(d)
  BY <1>1, <1>3, <1>4 DEF Counted, TypeOK
<1>7. HandlesSound'
  BY <1>1, <1>2, <1>3, <1>4, ZenonT(40) DEF HandlesSound, TypeOK
<1>8. BlocksSound'
  BY <1>2, <1>4, <1>6, Zenon DEF BlocksSound
<1>9. ObjectsSound'
  <2>1. \A o \in Objects, d \in Blocks : OwnedBy(o, d)' <=> OwnedBy(o, d)
    BY <1>2, Zenon DEF OwnedBy
  <2>2. \A o \in Objects, u \in Threads : call'[u].from = o <=> call[u].from = o
    BY <1>0, <1>4, Zenon
  <2> QED BY <1>2, <2>1, <2>2 DEF ObjectsSound
<1> QED BY <1>4, <1>5, <1>7, <1>8, <1>9, Zenon DEF IndInv

\* The handle gets a new block, with one reference.
LEMMA StorePointerStep ==
    ASSUME IndInv, NEW t \in Threads, StorePointer(t)
    PROVE  IndInv'
<1> TypeOK /\ Apart /\ CallsSound /\ HandlesSound /\ BlocksSound /\ ObjectsSound
  BY Zenon DEF IndInv
<1>0. /\ Active(t) /\ call[t].step = "store" /\ Return(t) /\ UNCHANGED object
      /\ call[t].from \in Objects \cup {Null} /\ call[t].h \in Handles /\ Uncounted(call[t].h)
  <2>1. Active(t) /\ call[t].step = "store" /\ Return(t) /\ UNCHANGED object
    BY Zenon DEF StorePointer, At, Active
  <2>2. call[t].from \in Objects \cup {Null}
    BY <2>1, Zenon DEF StorePointer, CallsSound
  <2> QED BY <2>1, <2>2, Alone, CallShape, Zenon
<1>1. PICK h \in Handles, x \in Objects \cup {Null}, b \in Blocks :
          /\ call[t].h = h /\ call[t].from = x /\ block[b] = "free"
          /\ SetHandle(h, x, b)
          /\ m_count' = [m_count EXCEPT ![b] = 1]
          /\ cb_obj' = [cb_obj EXCEPT ![b] = x]
          /\ block' = [block EXCEPT ![b] = "live"]
  BY <1>0, ZenonT(40) DEF StorePointer
<1>2. p_obj' = [p_obj EXCEPT ![h] = x] /\ p_cb' = [p_cb EXCEPT ![h] = b] /\ Uncounted(h)
  BY <1>0, <1>1, Zenon DEF SetHandle
<1>3. /\ call' \in [Threads -> Calls \cup {Idle}]
      /\ \A u \in Threads : call'[u].from = IF u = t THEN Absent ELSE call[u].from
      /\ \A g \in Handles : Uncounted(g)' <=> Uncounted(g) /\ g # h
      /\ \A u \in Threads, d \in Blocks : (Ends(u, d)' <=> Ends(u, d)) /\ ~Ends(u, b)
      /\ Apart' /\ CallsSound'
  <2>1. \A k \in Handles : k # call[t].h /\ (k = call[t].from => call[t].op \notin Moves) =>
           p_cb'[k] = p_cb[k] /\ p_obj'[k] = p_obj[k]
    BY <1>1, <1>2, Zenon DEF TypeOK
  <2>2. \A d \in Blocks : block[d] = "live" => block'[d] = "live" /\ cb_obj'[d] = cb_obj[d]
    BY <1>1, Zenon DEF TypeOK
  <2>3. \A u \in Threads : ~Ends(u, b)
    BY <1>1, Zenon DEF Ends, CallsSound, Active
  <2>4. \A u \in Threads, d \in Blocks : Ends(u, d) => m_count'[d] = m_count[d]
    BY <1>1, <2>3 DEF TypeOK
  <2>5. call[t].step # "release" /\ call[t].step \notin {"delete", "free"}
    BY <1>0, Zenon
  <2>6. /\ call' \in [Threads -> Calls \cup {Idle}]
        /\ \A u \in Threads : call'[u].from = IF u = t THEN Absent ELSE call[u].from
        /\ \A g \in Handles : Uncounted(g)' <=> Uncounted(g) /\ g # call[t].h
        /\ \A u \in Threads, d \in Blocks : Ends(u, d)' <=> Ends(u, d)
        /\ Apart' /\ CallsSound'
    BY <1>0, <2>1, <2>2, <2>4, <2>5, Returned, ZenonT(40)
  <2> QED BY <1>1, <2>3, <2>6, Zenon
<1>4. TypeOK'
  BY <1>0, <1>1, <1>2, <1>3, Zenon DEF TypeOK
<1>5. Counted(b)' = {h} /\ \A d \in Blocks \ {b} : Counted(d)' = Counted(d)
  <2>1. \A g \in Handles : p_cb[g] = b => Uncounted(g)
    BY <1>1, Zenon DEF HandlesSound
  <2> QED BY <1>2, <1>3, <2>1 DEF Counted, TypeOK
<1>6. HandlesSound'
  BY <1>1, <1>2, <1>3 DEF HandlesSound, TypeOK
<1>7. BlocksSound'
  <2>1. Cardinality(Counted(b)') = 1
    BY <1>5, FS_Singleton, Zenon
  <2> SUFFICES ASSUME NEW d \in Blocks PROVE BlocksSound!(d)'
    BY Zenon DEF BlocksSound
  <2>2. CASE d = b
    BY <1>1, <1>3, <2>1, <2>2 DEF TypeOK
  <2>3. CASE d # b
    BY <1>1, <1>3, <1>5, <2>3 DEF BlocksSound, TypeOK
  <2> QED BY <2>2, <2>3, Zenon
<1>8. ObjectsSound'
  <2>1. \A o \in Objects, d \in Blocks : OwnedBy(o, d)' <=> OwnedBy(o, d) \/ (d = b /\ x = o)
    BY <1>1, Zenon DEF OwnedBy, TypeOK
  <2>2. \A o \in Objects, u \in Threads :
           (call'[u].from = o <=> call[u].from = o /\ u # t) /\ (x = o <=> call[t].from = o)
    BY <1>1, <1>3, Zenon
  <2> QED BY <1>0, <2>1, <2>2 DEF ObjectsSound
<1> QED BY <1>3, <1>4, <1>6, <1>7, <1>8, Zenon DEF IndInv

--------------------------------------------------------------------------------
(* The copies and the moves. *)

\* The handle gets the block of another one, which it does not count yet.
LEMMA StoreCopyStep ==
    ASSUME IndInv, NEW t \in Threads, StoreCopy(t)
    PROVE  IndInv'
<1> TypeOK /\ Apart /\ CallsSound /\ HandlesSound /\ BlocksSound /\ ObjectsSound
  BY Zenon DEF IndInv
<1>0. Active(t) /\ call[t].step = "store" /\ call[t].h \in Handles /\ call[t].op \in Copies
  BY CallShape, ZenonT(40) DEF StoreCopy, At, Active, Copies
<1>1. PICK h \in Handles, g \in Handles :
          /\ call[t].h = h /\ call[t].from = g /\ h # g /\ p_cb[g] # Absent
          /\ Uncounted(h) /\ ~Uncounted(g)
  <2>1. call[t].from \in Handles \ {call[t].h} /\ p_cb[call[t].from] # Absent
    BY <1>0, ZenonT(40) DEF CallsSound
  <2>2. call[t].step # "release"
    BY <1>0, Zenon
  <2>3. Uncounted(call[t].h) /\ ~Uncounted(call[t].from)
    BY <1>0, <2>2, Alone, ZenonT(40)
  <2> QED BY <1>0, <2>1, <2>3, Zenon
<1>2. /\ UNCHANGED <<m_count, cb_obj, block, object>>
      /\ p_obj' = [p_obj EXCEPT ![h] = p_obj[g]] /\ p_cb' = [p_cb EXCEPT ![h] = p_cb[g]]
  BY <1>1, Zenon DEF StoreCopy, blockVars, SetHandle
<1>3. \A k \in Handles : k # h => p_cb'[k] = p_cb[k] /\ p_obj'[k] = p_obj[k]
  BY <1>2, Zenon DEF TypeOK
<1>4. CASE p_cb[g] = Null
  <2>1. /\ call' \in [Threads -> Calls \cup {Idle}]
        /\ \A u \in Threads : call'[u].from = IF u = t THEN Absent ELSE call[u].from
        /\ \A k \in Handles : Uncounted(k)' <=> Uncounted(k) /\ k # h
        /\ \A u \in Threads, d \in Blocks : Ends(u, d)' <=> Ends(u, d)
        /\ Apart' /\ CallsSound'
    <3>1. Return(t)
      BY <1>1, <1>4, ZenonT(40) DEF StoreCopy
    <3> QED BY <1>0, <1>1, <1>2, <1>3, <3>1, Returned, Zenon
  <2>2. TypeOK'
    BY <1>2, <2>1 DEF TypeOK
  <2>3. \A d \in Blocks : Counted(d)' = Counted(d)
    BY <1>1, <1>2, <1>4, <2>1 DEF Counted, TypeOK
  <2>4. HandlesSound'
    BY <1>1, <1>2, <1>4, <2>1 DEF HandlesSound, TypeOK
  <2>5. BlocksSound'
    BY <1>2, <2>1, <2>3, Zenon DEF BlocksSound
  <2>6. ObjectsSound'
    BY <1>1, <1>2, <2>1 DEF ObjectsSound, OwnedBy
  <2> QED BY <2>1, <2>2, <2>4, <2>5, <2>6, Zenon DEF IndInv
<1>5. CASE p_cb[g] # Null
  <2>0. PICK b \in Blocks : p_cb[g] = b /\ block[b] = "live"
    BY <1>1, <1>5 DEF TypeOK, HandlesSound
  <2>1. /\ call' \in [Threads -> Calls \cup {Idle}]
        /\ \A u \in Threads : u # t => call'[u] = call[u]
        /\ call'[t].step = "addref" /\ call'[t].op = call[t].op /\ call'[t].h = call[t].h
        /\ \A u \in Threads : call'[u].from = call[u].from /\ (Active(u)' <=> Active(u))
        /\ Apart'
    BY <1>0, <1>1, <1>5, Goes, Zenon DEF StoreCopy, Steps
  <2>2. TypeOK'
    BY <1>2, <2>1, Zenon DEF TypeOK
  <2>3. \A k \in Handles : Uncounted(k)' <=> Uncounted(k)
    BY <1>0, <1>1, <2>1 DEF Uncounted
  <2>4. \A d \in Blocks : Counted(d)' = Counted(d)
    BY <1>1, <1>2, <2>3 DEF Counted, TypeOK
  <2>5. \A u \in Threads : u # t /\ Active(u) =>
            /\ call[u].h \in Handles \ {h} /\ call[u].from # h
            /\ p_cb'[call[u].h] = p_cb[call[u].h] /\ p_obj'[call[u].h] = p_obj[call[u].h]
    BY <1>0, <1>1, <1>3, Alone, CallShape, Zenon
  <2>6. \A u \in Threads, d \in Blocks : Ends(u, d)' <=> Ends(u, d)
    BY <1>0, <2>1, <2>5, ZenonT(40) DEF Ends, Active
  <2>7. CallsSound'
    <3> SUFFICES ASSUME NEW u \in Threads PROVE CallsSound!(u)'
      BY Zenon DEF CallsSound
    <3>1. CASE u # t /\ Active(u)
      <4>1. call'[u] = call[u] /\ call[u].h \in Handles \ {h} /\ call[u].from # h
        BY <2>1, <2>5, <3>1, Zenon
      <4>2. p_cb'[call[u].h] = p_cb[call[u].h] /\ p_obj'[call[u].h] = p_obj[call[u].h]
        BY <2>5, <3>1, Zenon
      <4>3. call[u].from \in Handles =>
                p_cb'[call[u].from] = p_cb[call[u].from] /\ p_obj'[call[u].from] = p_obj[call[u].from]
        BY <1>3, <4>1, Zenon
      <4>4. CallsSound!(u)
        BY Zenon DEF CallsSound
      <4> QED BY <1>2, <3>1, <4>1, <4>2, <4>3, <4>4
    <3>2. CASE u # t /\ ~Active(u)
      BY <2>1, <3>2, Zenon
    <3>3. CASE u = t
      <4>1. call[t].from \notin Objects /\ call[t].op \in Copies /\ call[t].op \notin {"adopt", "resetto"}
        <5>1. call[t].op \in Copies /\ call[t].op \notin {"adopt", "resetto"}
          BY <1>0, Zenon DEF Copies
        <5> QED BY <1>0, <5>1, ZenonT(40) DEF CallsSound
      <4>2. p_cb'[h] = b /\ p_obj'[h] = p_obj[g] /\ block'[b] = "live"
        BY <1>2, <2>0, Zenon DEF TypeOK
      <4>3. p_cb'[g] = b /\ p_obj'[g] = p_obj[g] /\ b # Absent
        BY <1>1, <1>3, <2>0, Zenon
      <4> QED BY <1>1, <2>1, <3>3, <4>1, <4>2, <4>3
    <3> QED BY <3>1, <3>2, <3>3, Zenon
  <2>8. HandlesSound'
    BY <1>1, <1>2, <2>3 DEF HandlesSound, TypeOK
  <2>9. BlocksSound'
    BY <1>2, <2>4, <2>6, Zenon DEF BlocksSound
  <2>10. ObjectsSound'
    BY <1>2, <2>1 DEF ObjectsSound, OwnedBy
  <2> QED BY <2>1, <2>2, <2>7, <2>8, <2>9, <2>10, Zenon DEF IndInv
<1> QED BY <1>4, <1>5, Zenon

\* add_ref counts the handle.
LEMMA AddRefStep ==
    ASSUME IndInv, NEW t \in Threads, add_ref(t)
    PROVE  IndInv'
<1> TypeOK /\ Apart /\ CallsSound /\ HandlesSound /\ BlocksSound /\ ObjectsSound
  BY Zenon DEF IndInv
<1>0. Active(t) /\ call[t].step = "addref" /\ call[t].h \in Handles /\ Return(t)
  <2>1. call[t].step = "addref" /\ Return(t)
    BY Zenon DEF add_ref, At
  <2>2. Active(t)
    BY <2>1, Zenon DEF Active
  <2> QED BY <2>1, <2>2, CallShape, Zenon
<1>1. PICK h \in Handles, g \in Handles, b \in Blocks :
          /\ call[t].h = h /\ call[t].from = g
          /\ p_cb[h] = b /\ p_cb[g] = b /\ p_obj[h] = p_obj[g]
          /\ block[b] = "live" /\ Uncounted(h) /\ ~Uncounted(g)
  <2>1. /\ call[t].op \in Copies /\ p_cb[call[t].h] \in Blocks /\ block[p_cb[call[t].h]] = "live"
        /\ p_cb[call[t].h] = p_cb[call[t].from] /\ p_obj[call[t].h] = p_obj[call[t].from]
    BY <1>0, ZenonT(40) DEF CallsSound
  <2>2. call[t].from \in Handles
    BY <1>0, <2>1, ZenonT(40) DEF CallsSound
  <2>3. call[t].step # "release"
    BY <1>0, Zenon
  <2>4. Uncounted(call[t].h) /\ ~Uncounted(call[t].from)
    BY <1>0, <2>1, <2>3, Alone, ZenonT(40)
  <2> QED BY <1>0, <2>1, <2>2, <2>4, Zenon
<1>2. UNCHANGED <<p_obj, p_cb, cb_obj, block, object>> /\ m_count' = [m_count EXCEPT ![b] = @ + 1]
  BY <1>1, Zenon DEF add_ref, handleVars
<1>3. h \notin Counted(b) /\ g \in Counted(b) /\ Counted(b) \in SUBSET Handles
  BY <1>1, Zenon DEF Counted
<1>4. /\ Cardinality(Counted(b)) \in Nat /\ Cardinality(Counted(b)) > 0
      /\ Cardinality(Counted(b) \cup {h}) = Cardinality(Counted(b)) + 1
  BY <1>3, CountOne, Zenon
<1>5. /\ m_count[b] = Cardinality(Counted(b)) /\ m_count'[b] = m_count[b] + 1
      /\ \A d \in Blocks \ {b} : m_count'[d] = m_count[d]
  BY <1>1, <1>2, ZenonT(40) DEF BlocksSound, TypeOK
<1>6. /\ call' \in [Threads -> Calls \cup {Idle}]
      /\ \A u \in Threads : call'[u].from = IF u = t THEN Absent ELSE call[u].from
      /\ \A k \in Handles : Uncounted(k)' <=> Uncounted(k) /\ k # h
      /\ \A u \in Threads, d \in Blocks : (Ends(u, d)' <=> Ends(u, d)) /\ ~Ends(u, b)
      /\ Apart' /\ CallsSound'
  <2>1. \A u \in Threads, d \in Blocks : Ends(u, d) => d # b /\ m_count'[d] = m_count[d]
    BY <1>4, <1>5 DEF Ends, CallsSound, Active
  <2>2. /\ call' \in [Threads -> Calls \cup {Idle}]
        /\ \A u \in Threads : call'[u].from = IF u = t THEN Absent ELSE call[u].from
        /\ \A k \in Handles : Uncounted(k)' <=> Uncounted(k) /\ k # call[t].h
        /\ \A u \in Threads, d \in Blocks : Ends(u, d)' <=> Ends(u, d)
        /\ Apart' /\ CallsSound'
    <3>1. call[t].step # "release" /\ call[t].step \notin {"delete", "free"}
      BY <1>0
    <3>2. /\ \A k \in Handles : p_cb'[k] = p_cb[k] /\ p_obj'[k] = p_obj[k]
          /\ \A d \in Blocks : block'[d] = block[d] /\ cb_obj'[d] = cb_obj[d]
      BY <1>2, Zenon
    <3> QED BY <1>0, <2>1, <3>1, <3>2, Returned, ZenonT(40)
  <2> QED BY <1>1, <2>1, <2>2, ZenonT(40)
<1>7. TypeOK'
  BY <1>2, <1>6 DEF TypeOK
<1>8. /\ Counted(b)' = Counted(b) \cup {h}
      /\ \A d \in Blocks \ {b} : Counted(d)' = Counted(d)
  <2>1. ASSUME NEW d \in Blocks, NEW k \in Handles
        PROVE  k \in Counted(d)' <=> k \in Counted(d) \/ (k = h /\ d = b)
    BY <1>1, <1>2, <1>6, Zenon DEF Counted
  <2>2. \A d \in Blocks : Counted(d) \subseteq Handles /\ Counted(d)' \subseteq Handles
    BY Zenon DEF Counted
  <2> QED BY <2>1, <2>2, Zenon
<1>9. HandlesSound'
  <2>1. p_obj[h] = cb_obj[b]
    BY <1>1 DEF HandlesSound
  <2> QED BY <1>1, <1>2, <1>6, <2>1, Zenon DEF HandlesSound
<1>10. BlocksSound'
  <2> SUFFICES ASSUME NEW d \in Blocks PROVE BlocksSound!(d)'
    BY Zenon DEF BlocksSound
  <2>1. CASE d = b
    <3>1. Cardinality(Counted(b)') = Cardinality(Counted(b)) + 1
      BY <1>4, <1>8, ZenonT(40)
    <3> QED BY <1>2, <1>4, <1>5, <1>6, <2>1, <3>1
  <2>2. CASE d # b
    <3>1. m_count'[d] = m_count[d] /\ block'[d] = block[d] /\ Counted(d)' = Counted(d)
      BY <1>2, <1>8, <2>2, Zenon DEF TypeOK
    <3> QED BY <1>6, <3>1, ZenonT(40) DEF BlocksSound
  <2> QED BY <2>1, <2>2, Zenon
<1>11. ObjectsSound'
  BY <1>1, <1>2, <1>6 DEF ObjectsSound, OwnedBy
<1> QED BY <1>6, <1>7, <1>9, <1>10, <1>11, Zenon DEF IndInv

\* The handle takes the place of the one that is moved from.
LEMMA StoreMoveStep ==
    ASSUME IndInv, NEW t \in Threads, StoreMove(t)
    PROVE  IndInv'
<1> TypeOK /\ Apart /\ CallsSound /\ HandlesSound /\ BlocksSound /\ ObjectsSound
  BY Zenon DEF IndInv
<1>0. /\ Active(t) /\ call[t].step = "store" /\ call[t].h \in Handles /\ call[t].op \in Moves
      /\ Return(t)
  BY CallShape, ZenonT(40) DEF StoreMove, At, Active, Moves
<1>1. PICK h \in Handles, g \in Handles :
          /\ call[t].h = h /\ call[t].from = g /\ h # g /\ p_cb[g] # Absent
          /\ Uncounted(h) /\ ~Uncounted(g)
  <2>1. call[t].from \in Handles \ {call[t].h} /\ p_cb[call[t].from] # Absent
    BY <1>0, ZenonT(40) DEF CallsSound
  <2>2. call[t].step # "release"
    BY <1>0, Zenon
  <2>3. Uncounted(call[t].h) /\ ~Uncounted(call[t].from)
    BY <1>0, <2>2, Alone, ZenonT(40)
  <2> QED BY <1>0, <2>1, <2>3, Zenon
<1>2. UNCHANGED <<m_count, cb_obj, block, object>>
  BY Zenon DEF StoreMove, blockVars
<1>3. /\ p_obj' = [p_obj EXCEPT ![h] = p_obj[g], ![g] = Null]
      /\ p_cb' = [p_cb EXCEPT ![h] = p_cb[g], ![g] = Null]
  BY <1>1, Zenon DEF StoreMove
<1>4. /\ p_cb'[h] = p_cb[g] /\ p_obj'[h] = p_obj[g] /\ p_cb'[g] = Null /\ p_obj'[g] = Null
      /\ \A k \in Handles : k # h /\ k # g => p_cb'[k] = p_cb[k] /\ p_obj'[k] = p_obj[k]
  BY <1>1, <1>3, Zenon DEF TypeOK
<1>5. /\ call' \in [Threads -> Calls \cup {Idle}]
      /\ \A u \in Threads : call'[u].from = IF u = t THEN Absent ELSE call[u].from
      /\ \A k \in Handles : Uncounted(k)' <=> Uncounted(k) /\ k # h
      /\ \A u \in Threads, d \in Blocks : Ends(u, d)' <=> Ends(u, d)
      /\ Apart' /\ CallsSound'
  BY <1>0, <1>1, <1>2, <1>4, Returned, Zenon
<1>6. TypeOK'
  BY <1>2, <1>3, <1>5, Zenon DEF TypeOK
<1>7. \A d \in Blocks : Cardinality(Counted(d)') = Cardinality(Counted(d))
  <2> SUFFICES ASSUME NEW d \in Blocks PROVE Cardinality(Counted(d)') = Cardinality(Counted(d))
    OBVIOUS
  <2>1. CASE p_cb[g] = d
    <3>1. /\ Counted(d)' = (Counted(d) \ {g}) \cup {h} /\ g \in Counted(d)
          /\ Counted(d) \in SUBSET Handles
          /\ Counted(d) \ {g} \in SUBSET Handles /\ h \notin Counted(d) \ {g}
      BY <1>1, <1>4, <1>5, <2>1 DEF Counted
    <3>2. /\ Cardinality(Counted(d) \ {g}) = Cardinality(Counted(d)) - 1
          /\ Cardinality(Counted(d)) \in Nat
      BY <3>1, CountOne, Zenon
    <3>3. Cardinality((Counted(d) \ {g}) \cup {h}) = Cardinality(Counted(d) \ {g}) + 1
      BY <3>1, CountOne, Zenon
    <3> QED BY <3>1, <3>2, <3>3
  <2>2. CASE p_cb[g] # d
    <3>1. Counted(d)' = Counted(d)
      BY <1>1, <1>4, <1>5, <2>2, ZenonT(40) DEF Counted
    <3> QED BY <3>1, Zenon
  <2> QED BY <2>1, <2>2, Zenon
<1>8. HandlesSound'
  <2> SUFFICES ASSUME NEW k \in Handles PROVE HandlesSound!(k)'
    BY Zenon DEF HandlesSound
  <2>1. CASE k = h
    BY <1>1, <1>2, <1>4, <2>1 DEF HandlesSound
  <2>2. CASE k # h
    BY <1>2, <1>4, <1>5, <2>2 DEF HandlesSound
  <2> QED BY <2>1, <2>2, Zenon
<1>9. BlocksSound'
  BY <1>2, <1>5, <1>7, ZenonT(40) DEF BlocksSound
<1>10. ObjectsSound'
  BY <1>1, <1>2, <1>5 DEF ObjectsSound, OwnedBy
<1> QED BY <1>5, <1>6, <1>8, <1>9, <1>10, Zenon DEF IndInv

--------------------------------------------------------------------------------
(* The beginning of a call. *)

\* A call that obeys the clients' rules may begin.
LEMMA BeginStep ==
    ASSUME IndInv, NEW t \in Threads, NEW h \in Handles, NEW op, NEW from,
           Begin(t, op, h, from),
           \/ op \in Moves \cup Copies /\ from \in Handles \ {h} /\ p_cb[from] # Absent
           \/ op \in {"adopt", "resetto"} /\ from \in Objects \cup {Null}
           \/ op \in {"default", "reset", "destroy"} /\ from = Absent,
           from \notin Objects => UNCHANGED object,
           from \in Objects => object[from] = "free" /\ object' = [object EXCEPT ![from] = "live"]
    PROVE  IndInv'
<1> TypeOK /\ Apart /\ CallsSound /\ HandlesSound /\ BlocksSound /\ ObjectsSound
  BY Zenon DEF IndInv
<1>1. PICK s \in {"release", "store"} :
          /\ s = "release" <=> p_cb[h] \in Blocks
          /\ Permitted(t, [op |-> op, h |-> h, from |-> from, step |-> s])
          /\ call' = [call EXCEPT ![t] = [op |-> op, h |-> h, from |-> from, step |-> s]]
  <2>1. CASE p_cb[h] \in Blocks
    <3> DEFINE c == [op |-> op, h |-> h, from |-> from, step |-> "release"]
    <3>1. Permitted(t, c) /\ call' = [call EXCEPT ![t] = c]
      BY <2>1, Zenon DEF Begin
    <3> QED BY <2>1, <3>1, Zenon
  <2>2. CASE p_cb[h] \notin Blocks
    BY <2>2, Zenon DEF Begin
  <2> QED BY <2>1, <2>2, Zenon
<1>2. call[t] = Idle /\ UNCHANGED <<p_obj, p_cb, m_count, cb_obj, block>>
  BY Zenon DEF Begin, handleVars, blockVars
<1>3. [op |-> op, h |-> h, from |-> from, step |-> s] \in Calls
  BY Zenon DEF Calls, Moves, Copies
<1>4. /\ call' \in [Threads -> Calls \cup {Idle}]
      /\ \A u \in Threads : u # t => call'[u] = call[u]
      /\ call'[t].step = s /\ call'[t].op = op /\ call'[t].h = h /\ call'[t].from = from
      /\ call[t].step = "idle" /\ call[t].h = Absent /\ call[t].from = Absent
  BY <1>1, <1>2, <1>3 DEF TypeOK, Idle
<1>5. TypeOK'
  BY <1>2, <1>4, ZenonT(40) DEF TypeOK
<1>6. ASSUME NEW u \in Threads, u # t, Active(u)
      PROVE  /\ h # call[u].h /\ h # call[u].from /\ from # call[u].h
             /\ op \in Moves \/ call[u].op \in Moves => from # call[u].from
  BY <1>1, <1>6, CallShape DEF Permitted, Writes, Reads, Moves
<1>7. \A u \in Threads : call[u].h # h
  BY <1>4, <1>6, CallShape DEF Idle
<1>8. \A g \in Handles : Uncounted(g)' <=> Uncounted(g) \/ (g = h /\ s = "store")
  BY <1>4, Zenon DEF Uncounted
<1>9. \A d \in Blocks : Counted(d)' = Counted(d)
  BY <1>1, <1>2, <1>8, Zenon DEF Counted
<1>10. \A u \in Threads : Active(u)' <=> Active(u) \/ u = t
  BY <1>4 DEF Active
<1>11. Apart'
  BY <1>4, <1>6, <1>10 DEF Apart
<1>12. p_cb[h] \in Blocks => block[p_cb[h]] = "live"
  <2>1. ~Uncounted(h)
    BY <1>7, ZenonT(40) DEF Uncounted
  <2> QED BY <2>1, Zenon DEF HandlesSound
<1>13. CallsSound'
  <2>1. op \notin Moves \cup Copies => from \notin Handles
    BY Zenon DEF Moves, Copies
  <2>2. op \in Moves \cup Copies => from \in Handles \ {h} /\ p_cb[from] # Absent
    BY Zenon DEF Moves, Copies
  <2>3. op \in {"adopt", "resetto"} => from \in Objects \cup {Null}
    BY Zenon DEF Moves, Copies
  <2>4. op \notin {"adopt", "resetto"} => from \notin Objects
    OBVIOUS
  <2> SUFFICES ASSUME NEW u \in Threads PROVE CallsSound!(u)'
    BY Zenon DEF CallsSound
  <2>5. CASE u # t
    <3>1. call'[u] = call[u]
      BY <1>4, <1>10, <2>5, Zenon
    <3> QED BY <1>2, <3>1, ZenonT(40) DEF CallsSound, Active
  <2>6. CASE u = t
    BY <1>1, <1>2, <1>4, <1>12, <2>1, <2>2, <2>3, <2>4, <2>6
  <2> QED BY <2>5, <2>6, Zenon
<1>14. HandlesSound'
  BY <1>2, <1>8, Zenon DEF HandlesSound
<1>15. BlocksSound'
  <2>1. \A u \in Threads, d \in Blocks : Ends(u, d)' <=> Ends(u, d)
    BY <1>2, <1>4, ZenonT(40) DEF Ends
  <2> QED BY <1>2, <1>9, <2>1, Zenon DEF BlocksSound
<1>16. ObjectsSound'
  <2>1. \A o \in Objects, d \in Blocks : OwnedBy(o, d)' <=> OwnedBy(o, d)
    BY <1>2, Zenon DEF OwnedBy
  <2>2. \A o \in Objects, u \in Threads :
            call'[u].from = o <=> call[u].from = o \/ (u = t /\ from = o)
    BY <1>4, ZenonT(40)
  <2>3. \A o \in Objects : object'[o] = IF from = o THEN "live" ELSE object[o]
    BY Zenon DEF TypeOK
  <2>4. from \in Objects => object[from] = "free"
    OBVIOUS
  <2> QED BY <2>1, <2>2, <2>3, <2>4 DEF ObjectsSound, TypeOK
<1> QED BY <1>5, <1>11, <1>13, <1>14, <1>15, <1>16, Zenon DEF IndInv

\* So may every call that the clients make.
LEMMA CallStep ==
    ASSUME IndInv, NEW t \in Threads, NEW h \in Handles,
           Construct(t, h) \/ Assign(t, h) \/ Reset(t, h)
    PROVE  IndInv'
<1>1. ASSUME NEW op \in {"default", "reset", "destroy"}, BeginPlain(t, op, h, Absent)
      PROVE  IndInv'
  BY <1>1, BeginStep, Zenon DEF BeginPlain
<1>2. ASSUME NEW op \in {"adopt", "resetto"}, BeginPointer(t, op, h)
      PROVE  IndInv'
  <2>1. CASE BeginPlain(t, op, h, Null)
    BY <2>1, BeginStep, Zenon DEF BeginPlain
  <2>2. ASSUME NEW o \in Objects, object[o] = "free", object' = [object EXCEPT ![o] = "live"],
               Begin(t, op, h, o)
        PROVE  IndInv'
    <3>1. o \notin Objects => UNCHANGED object
      BY <2>2, Zenon
    <3> QED BY <2>2, <3>1, BeginStep, ZenonT(40)
  <2> QED BY <1>2, <2>1, <2>2, Zenon DEF BeginPointer
<1>3. ASSUME NEW g \in Handles \ {h}, NEW op \in Moves \cup Copies, p_cb[g] # Absent,
             BeginPlain(t, op, h, g)
      PROVE  IndInv'
  BY <1>3, BeginStep, Zenon DEF BeginPlain
<1>4. CASE Construct(t, h)
  BY <1>1, <1>2, <1>3, <1>4, Zenon DEF Construct, Moves, Copies
<1>5. CASE Assign(t, h)
  BY <1>3, <1>5, Zenon DEF Assign, Moves, Copies
<1>6. CASE Reset(t, h)
  BY <1>1, <1>2, <1>6, Zenon DEF Reset
<1> QED BY <1>4, <1>5, <1>6, Zenon

--------------------------------------------------------------------------------
(* The theorems. *)

\* Before the first call there is nothing to count.
LEMMA InitInv == Init => IndInv
<1> SUFFICES ASSUME Init PROVE IndInv
  OBVIOUS
<1>1. TypeOK
  BY Zenon DEF Init, TypeOK
<1>2. \A t \in Threads : ~Active(t) /\ call[t].from = Absent
  BY Zenon DEF Init, Active, Idle
<1>3. Apart /\ CallsSound
  BY <1>2, Zenon DEF Apart, CallsSound
<1>4. HandlesSound
  BY Zenon DEF Init, HandlesSound
<1>5. BlocksSound
  BY <1>2, Zenon DEF Init, BlocksSound, Ends, Active
<1>6. ObjectsSound
  BY <1>2, Zenon DEF Init, ObjectsSound, OwnedBy
<1> QED BY <1>1, <1>3, <1>4, <1>5, <1>6, Zenon DEF IndInv

\* Every step of every thread preserves the invariant.
LEMMA Invariance == Spec => []IndInv
<1>1. ASSUME IndInv, [Next]_vars
      PROVE  IndInv'
  <2>1. CASE UNCHANGED vars
    <3> USE <2>1 DEF vars, handleVars, blockVars
    <3>1. \A h \in Handles : Uncounted(h)' <=> Uncounted(h)
      BY Zenon DEF Uncounted
    <3>2. \A b \in Blocks : Counted(b)' = Counted(b)
      BY <3>1, Zenon DEF Counted
    <3>3. TypeOK' /\ Apart' /\ CallsSound'
      <4>1. TypeOK'
        BY <1>1, ZenonT(40) DEF IndInv, TypeOK
      <4>2. Apart'
        BY <1>1, ZenonT(40) DEF IndInv, Apart, Active
      <4>3. CallsSound'
        BY <1>1, ZenonT(40) DEF IndInv, CallsSound, Active
      <4> QED BY <4>1, <4>2, <4>3, Zenon
    <3>4. HandlesSound'
      BY <1>1, <3>1 DEF IndInv, HandlesSound
    <3>5. BlocksSound'
      BY <1>1, <3>2 DEF IndInv, BlocksSound, Ends
    <3>6. ObjectsSound'
      BY <1>1 DEF IndInv, ObjectsSound, OwnedBy
    <3> QED BY <3>3, <3>4, <3>5, <3>6, Zenon DEF IndInv
  <2>2. ASSUME NEW t \in Threads, Step(t)
        PROVE  IndInv'
    BY <1>1, <2>2, ReleaseStep, ReleaseObjectStep, ReleaseBlockStep, StoreNullStep,
       StorePointerStep, StoreCopyStep, StoreMoveStep, AddRefStep, Zenon DEF Step
  <2>3. ASSUME NEW t \in Threads, NEW h \in Handles,
               Construct(t, h) \/ Assign(t, h) \/ Reset(t, h)
        PROVE  IndInv'
    BY <1>1, <2>3, CallStep, Zenon
  <2> QED BY <1>1, <2>1, <2>2, <2>3, Zenon DEF Next
<1> QED BY InitInv, <1>1, PTL DEF Spec

(* The use count of a block is the number of its handles whenever fetch_add   *)
(* and fetch_sub of several threads interleave, and the block is ended by one *)
(* thread, at zero.                                                           *)
THEOREM CountIsExact == Spec => []CountExact
<1>1. IndInv => CountExact
  <2> SUFFICES ASSUME IndInv, NEW b \in Blocks
               PROVE  Cardinality(Ending(b)) = IF block[b] = "live" /\ m_count[b] = 0 THEN 1 ELSE 0
    BY Zenon DEF IndInv, BlocksSound, CountExact
  <2>1. CASE block[b] = "live" /\ m_count[b] = 0
    <3>1. PICK t \in Threads : Ends(t, b)
      BY <2>1, Zenon DEF IndInv, BlocksSound
    <3>2. \A u \in Threads : Ends(u, b) => u = t
      BY <3>1, Zenon DEF IndInv, BlocksSound
    <3>3. Ending(b) = {t}
      BY <3>1, <3>2, Zenon DEF Ending, Ends
    <3>4. Cardinality(Ending(b)) = 1
      BY <3>3, FS_Singleton, Zenon
    <3> QED BY <2>1, <3>4, Zenon
  <2>2. CASE ~(block[b] = "live" /\ m_count[b] = 0)
    <3>1. Ending(b) = {}
      BY <2>2, ZenonT(40) DEF Ending, IndInv, CallsSound, Active
    <3>2. Cardinality(Ending(b)) = 0
      BY <3>1, FS_EmptySet, Zenon
    <3> QED BY <2>2, <3>2, Zenon
  <2> QED BY <2>1, <2>2, Zenon
<1> QED BY <1>1, Invariance, PTL

(* No handle that a client may dereference has lost its object, no call works *)
(* on a block that another thread has freed, and every live object has one    *)
(* owner that will delete it.                                                 *)
THEOREM NothingIsFreedEarly == Spec => []NothingFreed
<1>1. IndInv => NothingFreed
  <2> SUFFICES ASSUME IndInv PROVE NothingFreed
    OBVIOUS
  <2>1. ASSUME NEW t \in Threads, call[t].step \in {"release", "addref", "delete", "free"}
        PROVE  block[p_cb[call[t].h]] = "live"
    BY <2>1, ZenonT(40) DEF IndInv, CallsSound, Active
  <2>2. ASSUME NEW h \in Handles, p_obj[h] \in Objects, ~Uncounted(h)
        PROVE  object[p_obj[h]] = "live" /\ cb_obj[p_cb[h]] = p_obj[h]
    <3>1. p_cb[h] \in Blocks /\ block[p_cb[h]] = "live" /\ cb_obj[p_cb[h]] = p_obj[h]
      BY <2>2 DEF IndInv, TypeOK, HandlesSound
    <3>2. OwnedBy(p_obj[h], p_cb[h])
      BY <3>1, Zenon DEF OwnedBy
    <3> QED BY <2>2, <3>1, <3>2 DEF IndInv, TypeOK, ObjectsSound
  <2>3. ASSUME NEW o \in Objects
        PROVE  LET owners == {b \in Blocks : block[b] = "live" /\ cb_obj[b] = o}
                   givers == {t \in Threads : call[t].from = o}
               IN  Cardinality(owners) + Cardinality(givers) = IF object[o] = "live" THEN 1 ELSE 0
    <3> DEFINE owners == {b \in Blocks : block[b] = "live" /\ cb_obj[b] = o}
               givers == {t \in Threads : call[t].from = o}
    <3>1. ASSUME object[o] = "free"
          PROVE  Cardinality(owners) = 0 /\ Cardinality(givers) = 0
      <4>1. owners = {} /\ givers = {}
        BY <3>1 DEF IndInv, ObjectsSound, OwnedBy
      <4> QED BY <4>1, FS_EmptySet, Zenon
    <3>2. ASSUME object[o] = "live", NEW b \in Blocks, OwnedBy(o, b)
          PROVE  Cardinality(owners) = 1 /\ Cardinality(givers) = 0
      <4>1. owners = {b} /\ givers = {}
        BY <3>2 DEF IndInv, ObjectsSound, OwnedBy
      <4> QED BY <4>1, FS_EmptySet, FS_Singleton, ZenonT(40)
    <3>3. ASSUME object[o] = "live", NEW t \in Threads, call[t].from = o
          PROVE  Cardinality(owners) = 0 /\ Cardinality(givers) = 1
      <4>1. owners = {} /\ givers = {t}
        BY <3>3 DEF IndInv, ObjectsSound, OwnedBy
      <4> QED BY <4>1, FS_EmptySet, FS_Singleton, ZenonT(40)
    <3> HIDE DEF owners, givers
    <3>4. object[o] = "live" => Cardinality(owners) + Cardinality(givers) = 1
      BY <3>2, <3>3 DEF IndInv, ObjectsSound
    <3>5. object[o] = "free" => Cardinality(owners) + Cardinality(givers) = 0
      BY <3>1
    <3>6. object[o] \in {"free", "live"}
      BY Zenon DEF IndInv, TypeOK
    <3>7. Cardinality(owners) + Cardinality(givers) = IF object[o] = "live" THEN 1 ELSE 0
      BY <3>4, <3>5, <3>6, Zenon
    <3> QED BY <3>7, Zenon DEF owners, givers
  <2> QED BY <2>1, <2>2, <2>3, ZenonT(40) DEF NothingFreed
<1> QED BY <1>1, Invariance, PTL
================================================================================
