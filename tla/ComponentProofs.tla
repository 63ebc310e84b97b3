---------------------------- MODULE ComponentProofs ----------------------------
(******************************************************************************)
(* Proofs about three components that share nothing: UniquePtr, BumpArena     *)
(* with its allocators, and SPSCLogger.                                       *)
(******************************************************************************)
EXTENDS UniquePtr, BumpArena, SPSCLogger, TLAPS

--------------------------------------------------------------------------------
(******************************************************************************)
(* UniquePtr owns and deletes every object once, by its own deleter, for any  *)
(* handles, objects and deleters and any way the objects nest.                *)
(******************************************************************************)

(* The handles hs, with o about to be deleted and the client holding the raw  *)
(* pointers r, own every object of l once.                                    *)
Owned(hs, o, r, l) ==
    /\ hs \in [Handles -> PtrValues \cup {Absent}]
    /\ l \subseteq Objects /\ r \subseteq l /\ o \in l \cup {Null} /\ o \notin r
    /\ \A h \in Handles : hs[h] # Absent /\ hs[h].ptr # Null =>
          /\ hs[h].ptr \in l \ r /\ hs[h].ptr # o
          /\ \A g \in Handles : hs[g] # Absent /\ hs[g].ptr = hs[h].ptr => g = h
    /\ \A x \in l \ r : x # o => \E h \in Handles : hs[h] # Absent /\ hs[h].ptr = x
    /\ \A h \in DOMAIN MemberOf : hs[h] # Absent <=> MemberOf[h] \in l

\* The handles of hs have the deleters that their objects were handed over with.
Deleting(hs, a) ==
    /\ a \in [Objects -> Deleters \cup {MovedFrom}]
    /\ \A h \in Handles : hs[h] # Absent /\ hs[h].ptr # Null => hs[h].del = a[hs[h].ptr]

PtrInv ==
    /\ Owned(handle, Null, raw, live)
    /\ Deleting(handle, adopted)
    /\ \A x \in deleted : x[2] = adopted[x[1]]

--------------------------------------------------------------------------------
(* What a deletion takes along. *)

\* Every handle is in its range, and a value of a handle has its fields.
LEMMA HandleValues ==
    ASSUME NEW hs \in [Handles -> PtrValues \cup {Absent}], NEW h \in Handles, hs[h] # Absent
    PROVE  hs[h] \in PtrValues /\ hs[h].ptr \in Objects \cup {Null} /\ hs[h].del \in Deleters \cup {MovedFrom}
<1>1. hs[h] \in PtrValues
  OBVIOUS
<1> QED BY <1>1, Zenon DEF PtrValues

\* What is doomed with o includes o, and what its member handles own.
LEMMA DoomedClosed ==
    ASSUME NEW hs \in [Handles -> PtrValues \cup {Absent}], NEW o \in Objects \cup {Null}
    PROVE  /\ Doomed(hs, o) \subseteq Objects
           /\ o # Null => o \in Doomed(hs, o)
           /\ Closed(hs, Doomed(hs, o))
<1>1. Doomed(hs, o) \subseteq Objects /\ (o # Null => o \in Doomed(hs, o))
  BY Zenon DEF Doomed
<1>2. ASSUME NEW h \in Inside(Doomed(hs, o)), hs[h] # Absent, hs[h].ptr # Null
      PROVE  hs[h].ptr \in Doomed(hs, o)
  <2>1. h \in DOMAIN MemberOf /\ h \in Handles /\ MemberOf[h] \in Doomed(hs, o)
    BY MemberAssumption, Zenon DEF Inside
  <2>2. hs[h].ptr \in Objects
    BY <1>2, <2>1, HandleValues, Zenon
  <2>3. o # Null
    BY <2>1, Zenon DEF Doomed
  <2>4. ASSUME NEW S \in SUBSET Objects, o \in S, Closed(hs, S) PROVE hs[h].ptr \in S
    <3>1. MemberOf[h] \in S
      BY <2>1, <2>4, Zenon DEF Doomed
    <3>2. h \in Inside(S)
      BY <2>1, <3>1, Zenon DEF Inside
    <3> QED BY <1>2, <2>4, <3>2, Zenon DEF Closed
  <2> QED BY <2>2, <2>3, <2>4, Zenon DEF Doomed
<1>3. Closed(hs, Doomed(hs, o))
  BY <1>2, Zenon DEF Closed
<1> QED BY <1>1, <1>3, Zenon

\* It is the least such set.
LEMMA DoomedLeast ==
    ASSUME NEW hs, NEW o, NEW S \in SUBSET Objects, o \in S, Closed(hs, S)
    PROVE  Doomed(hs, o) \subseteq S
BY Zenon DEF Doomed

\* Only objects that exist are doomed.
LEMMA DoomedLive ==
    ASSUME NEW hs, NEW o, NEW r, NEW l, Owned(hs, o, r, l)
    PROVE  Doomed(hs, o) \subseteq l
<1>1. CASE o = Null
  BY <1>1, Zenon DEF Doomed
<1>2. CASE o # Null
  <2>1. l \in SUBSET Objects /\ o \in l
    BY <1>2, Zenon DEF Owned
  <2>2. Closed(hs, l)
    <3> SUFFICES ASSUME NEW h \in Inside(l), hs[h] # Absent, hs[h].ptr # Null PROVE hs[h].ptr \in l
      BY Zenon DEF Closed
    <3>1. h \in Handles
      BY MemberAssumption, Zenon DEF Inside
    <3> QED BY <3>1, Zenon DEF Owned
  <2> QED BY <2>1, <2>2, DoomedLeast, Zenon
<1> QED BY <1>1, <1>2, Zenon

\* An object is doomed with o because a member of a doomed object owns it.
LEMMA DoomedOwned ==
    ASSUME NEW hs \in [Handles -> PtrValues \cup {Absent}], NEW o \in Objects \cup {Null},
           NEW x \in Doomed(hs, o), x # o
    PROVE  \E h \in Inside(Doomed(hs, o)) : hs[h] # Absent /\ hs[h].ptr = x
<1> DEFINE D == Doomed(hs, o)
<1> SUFFICES ASSUME ~ \E h \in Inside(D) : hs[h] # Absent /\ hs[h].ptr = x PROVE FALSE
  OBVIOUS
<1>1. D \subseteq Objects /\ o \in D /\ Closed(hs, D)
  <2>1. o # Null
    BY Zenon DEF Doomed
  <2> QED BY <2>1, DoomedClosed, Zenon
<1>2. D \ {x} \in SUBSET Objects /\ o \in D \ {x}
  BY <1>1, Zenon
<1>3. Closed(hs, D \ {x})
  <2> SUFFICES ASSUME NEW h \in Inside(D \ {x}), hs[h] # Absent PROVE hs[h].ptr \in (D \ {x}) \cup {Null}
    BY Zenon DEF Closed
  <2>1. h \in Inside(D)
    BY Zenon DEF Inside
  <2>2. hs[h].ptr \in D \cup {Null}
    BY <1>1, <2>1, Zenon DEF Closed
  <2> QED BY <2>1, <2>2, Zenon
<1>4. D \subseteq D \ {x}
  BY <1>2, <1>3, DoomedLeast, Zenon
<1> QED BY <1>4, Zenon

--------------------------------------------------------------------------------
(* The end of every call. *)

\* Finish leaves every object that still exists with its one owner.
LEMMA FinishOwns ==
    ASSUME NEW hs, NEW o, NEW d, NEW r, Owned(hs, o, r, live), Finish(hs, o, d)
    PROVE  Owned(handle', Null, r, live')
<1> DEFINE D == Doomed(hs, o)
           hp == [h \in Handles |-> IF h \in Inside(D) THEN Absent ELSE hs[h]]
<1>1. handle' = hp /\ live' = live \ D
  BY Zenon DEF Finish
<1>2. /\ hs \in [Handles -> PtrValues \cup {Absent}] /\ live \subseteq Objects
      /\ r \subseteq live /\ o \in Objects \cup {Null} /\ o \notin r
  BY Zenon DEF Owned
<1>3. D \subseteq live
  BY DoomedLive, Zenon
<1>4. Closed(hs, D) /\ (o # Null => o \in D)
  BY <1>2, DoomedClosed, Zenon
<1>5. hp \in [Handles -> PtrValues \cup {Absent}]
  BY <1>2, Zenon
<1>6. ASSUME NEW x \in D, x # o PROVE \E h \in Inside(D) : h \in Handles /\ hs[h] # Absent /\ hs[h].ptr = x
  BY <1>2, <1>6, DoomedOwned, MemberAssumption DEF Inside
<1>7. ASSUME NEW x \in D PROVE x \notin r
  <2>1. CASE x = o
    BY <1>2, <2>1, Zenon
  <2>2. CASE x # o
    <3>1. PICK h \in Inside(D) : h \in Handles /\ hs[h] # Absent /\ hs[h].ptr = x
      BY <1>6, <2>2, Zenon
    <3>2. x # Null
      BY <1>2, <1>3, NullAssumption, Zenon
    <3> QED BY <3>1, <3>2, Zenon DEF Owned
  <2> QED BY <2>1, <2>2, Zenon
<1>8. ASSUME NEW h \in Handles, hp[h] # Absent, hp[h].ptr # Null
      PROVE  /\ hp[h].ptr \in (live \ D) \ r
             /\ \A g \in Handles : hp[g] # Absent /\ hp[g].ptr = hp[h].ptr => g = h
  <2>1. h \notin Inside(D) /\ hp[h] = hs[h] /\ hs[h] # Absent /\ hs[h].ptr # Null
    BY <1>8, Zenon
  <2>2. /\ hs[h].ptr \in live \ r /\ hs[h].ptr # o
        /\ \A g \in Handles : hs[g] # Absent /\ hs[g].ptr = hs[h].ptr => g = h
    BY <2>1, Zenon DEF Owned
  <2>3. hs[h].ptr \notin D
    BY <1>6, <2>1, <2>2, Zenon
  <2>4. \A g \in Handles : hp[g] # Absent => hs[g] = hp[g]
    OBVIOUS
  <2> QED BY <2>1, <2>2, <2>3, <2>4, Zenon
<1>9. ASSUME NEW x \in (live \ D) \ r PROVE \E h \in Handles : hp[h] # Absent /\ hp[h].ptr = x
  <2>1. x # o /\ x # Null
    BY <1>2, <1>4, NullAssumption, Zenon
  <2>2. PICK h \in Handles : hs[h] # Absent /\ hs[h].ptr = x
    BY <2>1, Zenon DEF Owned
  <2>3. h \notin Inside(D)
    BY <1>4, <2>1, <2>2, Zenon DEF Closed
  <2> QED BY <2>2, <2>3, Zenon
<1>10. ASSUME NEW h \in DOMAIN MemberOf PROVE hp[h] # Absent <=> MemberOf[h] \in live \ D
  <2>1. h \in Handles /\ (hs[h] # Absent <=> MemberOf[h] \in live)
    BY MemberAssumption, Zenon DEF Owned
  <2>2. h \in Inside(D) <=> MemberOf[h] \in D
    BY Zenon DEF Inside
  <2> QED BY <2>1, <2>2, Zenon
<1>11. live \ D \subseteq Objects /\ r \subseteq live \ D /\ Null \notin r
  BY <1>2, <1>7, NullAssumption, Zenon
<1>12. \A h \in Handles : hp[h] # Absent /\ hp[h].ptr # Null =>
          /\ hp[h].ptr \in (live \ D) \ r /\ hp[h].ptr # Null
          /\ \A g \in Handles : hp[g] # Absent /\ hp[g].ptr = hp[h].ptr => g = h
  BY <1>8, Zenon
<1> HIDE DEF hp, D
<1> QED BY <1>1, <1>5, <1>9, <1>10, <1>11, <1>12, Zenon DEF Owned

\* Finish deletes every object by the deleter that it was handed over with.
LEMMA FinishDeletes ==
    ASSUME NEW hs, NEW o, NEW d, NEW r, NEW a, Owned(hs, o, r, live), Deleting(hs, a),
           Finish(hs, o, d), o # Null => d = a[o]
    PROVE  Deleting(handle', a) /\ \A x \in deleted' : x[2] = a[x[1]]
<1> DEFINE D == Doomed(hs, o)
           by(x) == IF x = o THEN d ELSE hs[CHOOSE h \in Inside(D) : hs[h].ptr = x].del
<1>1. /\ handle' = [h \in Handles |-> IF h \in Inside(D) THEN Absent ELSE hs[h]]
      /\ deleted' = {<<x, by(x)>> : x \in D}
  BY Zenon DEF Finish
<1>2. hs \in [Handles -> PtrValues \cup {Absent}] /\ o \in Objects \cup {Null}
  BY Zenon DEF Owned
<1>3. D \subseteq live /\ D \subseteq Objects
  BY <1>2, DoomedLive, DoomedClosed, Zenon
<1>4. ASSUME NEW x \in D PROVE by(x) = a[x]
  <2>1. x # Null
    BY <1>3, NullAssumption, Zenon
  <2>2. CASE x = o
    BY <2>1, <2>2, Zenon
  <2>3. CASE x # o
    <3> DEFINE g == CHOOSE h \in Inside(D) : hs[h].ptr = x
    <3>1. g \in Inside(D) /\ hs[g].ptr = x
      <4>1. \E h \in Inside(D) : hs[h].ptr = x
        BY <1>2, <2>3, DoomedOwned, Zenon
      <4> QED BY <4>1, Zenon
    <3>2. g \in Handles /\ hs[g] # Absent
      <4>1. g \in DOMAIN MemberOf /\ MemberOf[g] \in D
        BY <3>1, Zenon DEF Inside
      <4> QED BY <1>3, <4>1, MemberAssumption, Zenon DEF Owned
    <3>3. by(x) = hs[g].del
      BY <2>3, Zenon
    <3> HIDE DEF g
    <3> QED BY <2>1, <3>1, <3>2, <3>3, Zenon DEF Deleting
  <2> QED BY <2>2, <2>3, Zenon
<1>5. \A x \in deleted' : x[2] = a[x[1]]
  <2> HIDE DEF by, D
  <2> QED BY <1>1, <1>4
<1>6. \A h \in Handles : handle'[h] # Absent => handle'[h] = hs[h]
  BY <1>1, Zenon
<1>7. Deleting(handle', a)
  BY <1>6, Zenon DEF Deleting
<1> QED BY <1>5, <1>7, Zenon

\* A call ends well if it hands well-owned handles to Finish.
LEMMA Finished ==
    ASSUME NEW hs, NEW o, NEW d, Owned(hs, o, raw', live), Deleting(hs, adopted'),
           Finish(hs, o, d), o # Null => d = adopted'[o]
    PROVE  PtrInv'
BY FinishOwns, FinishDeletes, Zenon DEF PtrInv

--------------------------------------------------------------------------------
(* The calls. *)

\* The types that the calls rely on.
LEMMA PtrTypes ==
    ASSUME PtrInv
    PROVE  /\ handle \in [Handles -> PtrValues \cup {Absent}]
           /\ raw \subseteq live /\ live \subseteq Objects /\ Null \notin live
           /\ adopted \in [Objects -> Deleters \cup {MovedFrom}]
           /\ Empty \in PtrValues /\ Empty # Absent
<1>1. Empty \in PtrValues
  BY DeleterAssumption, Zenon DEF Empty, PtrValues
<1> QED BY <1>1, NullAssumption, Zenon DEF PtrInv, Owned, Deleting

\* A new object is the client's, and its member handles own nothing.
LEMMA NewKeeps ==
    ASSUME PtrInv, NEW o \in Objects, New(o)
    PROVE  PtrInv'
<1> USE PtrTypes
<1>1. /\ live' = live \cup {o} /\ raw' = raw \cup {o} /\ o \notin live /\ deleted' = {} /\ adopted' = adopted
      /\ handle' = [h \in Handles |-> IF h \in Inside({o}) THEN Empty ELSE handle[h]]
  BY Zenon DEF New
<1>2. handle' \in [Handles -> PtrValues \cup {Absent}]
  BY <1>1, Zenon
<1>3. ASSUME NEW h \in Handles, handle'[h] # Absent, handle'[h].ptr # Null
      PROVE  handle[h] # Absent /\ handle'[h] = handle[h]
  BY <1>1, <1>3, Zenon DEF Empty
<1>4. ASSUME NEW h \in Handles, handle[h] # Absent
      PROVE  handle'[h] = handle[h]
  <2>1. h \notin Inside({o})
    BY <1>1, <1>4 DEF Inside, PtrInv, Owned
  <2> QED BY <1>1, <2>1, Zenon
<1>5. ASSUME NEW h \in DOMAIN MemberOf PROVE handle'[h] # Absent <=> MemberOf[h] \in live'
  <2>1. h \in Handles /\ (h \in Inside({o}) <=> MemberOf[h] = o) /\ (handle[h] # Absent <=> MemberOf[h] \in live)
    BY MemberAssumption, Zenon DEF Inside, PtrInv, Owned
  <2> QED BY <1>1, <2>1, Zenon
<1>6. \A h \in Handles : handle'[h] # Absent /\ handle'[h].ptr # Null =>
          /\ handle'[h].ptr \in live' \ raw' /\ handle'[h].ptr # Null
          /\ \A g \in Handles : handle'[g] # Absent /\ handle'[g].ptr = handle'[h].ptr => g = h
  <2> TAKE h \in Handles
  <2> HAVE handle'[h] # Absent /\ handle'[h].ptr # Null
  <2>1. handle[h] # Absent /\ handle'[h] = handle[h]
    BY <1>3, Zenon
  <2>2. /\ handle[h].ptr \in live \ raw
        /\ \A g \in Handles : handle[g] # Absent /\ handle[g].ptr = handle[h].ptr => g = h
    BY <2>1, Zenon DEF PtrInv, Owned
  <2>3. ASSUME NEW g \in Handles, handle'[g] # Absent, handle'[g].ptr = handle'[h].ptr PROVE g = h
    BY <1>3, <2>1, <2>2, <2>3, Zenon
  <2> QED BY <1>1, <2>1, <2>2, <2>3, Zenon
<1>7. \A x \in live' \ raw' : \E h \in Handles : handle'[h] # Absent /\ handle'[h].ptr = x
  <2> TAKE x \in live' \ raw'
  <2>1. x \in live \ raw /\ x # Null
    BY <1>1, Zenon
  <2>2. PICK h \in Handles : handle[h] # Absent /\ handle[h].ptr = x
    BY <2>1, Zenon DEF PtrInv, Owned
  <2> QED BY <1>4, <2>2, Zenon
<1>8. Owned(handle', Null, raw', live')
  BY <1>1, <1>2, <1>5, <1>6, <1>7, NullAssumption, ZenonT(40) DEF Owned
<1>9. Deleting(handle', adopted')
  BY <1>1, <1>3, ZenonT(40) DEF PtrInv, Deleting
<1> QED BY <1>1, <1>8, <1>9, Zenon DEF PtrInv

\* An empty handle, and one that adopts a raw pointer.
LEMMA ConstructKeeps ==
    ASSUME PtrInv, NEW h \in Handles, NEW o, NEW d \in Deleters, ConstructNull(h) \/ Construct(h, o, d)
    PROVE  PtrInv'
<1> USE PtrTypes
<1>1. CASE ConstructNull(h)
  <2> DEFINE hs == [handle EXCEPT ![h] = Empty]
  <2>1. handle[h] = Absent /\ h \notin DOMAIN MemberOf /\ Finish(hs, Null, Default) /\ raw' = raw /\ adopted' = adopted
    BY <1>1, Zenon DEF ConstructNull
  <2>2. hs \in [Handles -> PtrValues \cup {Absent}] /\ \A g \in Handles : hs[g] = IF g = h THEN Empty ELSE handle[g]
    OBVIOUS
  <2> HIDE DEF hs
  <2>3. Owned(hs, Null, raw', live)
    BY <2>1, <2>2, MemberAssumption DEF Empty, PtrInv, Owned
  <2>4. Deleting(hs, adopted')
    BY <2>1, <2>2 DEF Empty, PtrInv, Deleting
  <2> QED BY <2>1, <2>3, <2>4, Finished, Zenon
<1>2. CASE Construct(h, o, d)
  <2> DEFINE v == [ptr |-> o, del |-> d]
             hs == [handle EXCEPT ![h] = v]
  <2>1. /\ handle[h] = Absent /\ h \notin DOMAIN MemberOf /\ o \in raw /\ Finish(hs, Null, Default)
        /\ raw' = raw \ {o} /\ adopted' = [adopted EXCEPT ![o] = d]
    BY <1>2, Zenon DEF Construct
  <2>2. v \in PtrValues /\ v # Absent /\ v.ptr = o /\ v.del = d /\ o \in Objects /\ o # Null
    BY <2>1, NullAssumption DEF PtrValues
  <2> HIDE DEF v
  <2>3. hs \in [Handles -> PtrValues \cup {Absent}] /\ \A g \in Handles : hs[g] = IF g = h THEN v ELSE handle[g]
    BY <2>2, ZenonT(40)
  <2> HIDE DEF hs
  <2>4. Owned(hs, Null, raw', live)
    BY <2>1, <2>2, <2>3, MemberAssumption DEF PtrInv, Owned
  <2>5. Deleting(hs, adopted')
    BY <2>1, <2>2, <2>3 DEF PtrInv, Owned, Deleting
  <2> QED BY <2>1, <2>4, <2>5, Finished, Zenon
<1> QED BY <1>1, <1>2, Zenon

\* An EXCEPT on a field of a handle that exists.
LEMMA PointerSet ==
    ASSUME PtrInv, NEW h \in Handles, handle[h] # Absent, NEW p \in Objects \cup {Null},
           NEW hs, hs = [handle EXCEPT ![h].ptr = p]
    PROVE  /\ hs \in [Handles -> PtrValues \cup {Absent}]
           /\ hs[h] # Absent /\ hs[h].ptr = p /\ hs[h].del = handle[h].del
           /\ \A g \in Handles : g # h => hs[g] = handle[g]
<1> DEFINE v == [handle[h] EXCEPT !.ptr = p]
<1>1. handle \in [Handles -> PtrValues \cup {Absent}] /\ handle[h] \in PtrValues
  BY PtrTypes, HandleValues, Zenon
<1>2. v \in PtrValues /\ v.ptr = p /\ v.del = handle[h].del
  BY <1>1, Zenon DEF PtrValues
<1>3. v # Absent
  BY <1>2, NullAssumption, Zenon
<1>4. hs = [handle EXCEPT ![h] = v]
  OBVIOUS
<1> HIDE DEF v
<1> QED BY <1>1, <1>2, <1>3, <1>4, Zenon

\* release gives the object back to the client.
LEMMA ReleaseKeeps ==
    ASSUME PtrInv, NEW h \in Handles, release(h)
    PROVE  PtrInv'
<1> USE PtrTypes
<1>0. PICK hs : hs = [handle EXCEPT ![h].ptr = Null]
  BY Zenon
<1>1. /\ handle[h] # Absent /\ handle[h].ptr # Null /\ Finish(hs, Null, Default)
      /\ raw' = raw \cup {handle[h].ptr} /\ adopted' = adopted
  BY <1>0, Zenon DEF release, Exists
<1>2. /\ hs \in [Handles -> PtrValues \cup {Absent}]
      /\ hs[h] # Absent /\ hs[h].ptr = Null /\ \A g \in Handles : g # h => hs[g] = handle[g]
  BY <1>0, <1>1, PointerSet
<1>3. Owned(hs, Null, raw', live)
  BY <1>1, <1>2, MemberAssumption DEF PtrInv, Owned
<1>4. Deleting(hs, adopted')
  BY <1>1, <1>2 DEF PtrInv, Deleting
<1> QED BY <1>1, <1>3, <1>4, Finished, Zenon

\* reset deletes the object that the handle owned.
LEMMA ResetKeeps ==
    ASSUME PtrInv, NEW h \in Handles, reset(h)
    PROVE  PtrInv'
<1> USE PtrTypes
<1>0. PICK hs : hs = [handle EXCEPT ![h].ptr = Null]
  BY Zenon
<1>1. handle[h] # Absent /\ Finish(hs, handle[h].ptr, handle[h].del) /\ raw' = raw /\ adopted' = adopted
  BY <1>0, Zenon DEF reset, Exists
<1>2. /\ hs \in [Handles -> PtrValues \cup {Absent}]
      /\ hs[h] # Absent /\ hs[h].ptr = Null /\ \A g \in Handles : g # h => hs[g] = handle[g]
  BY <1>0, <1>1, PointerSet
<1>3. Owned(hs, handle[h].ptr, raw', live)
  BY <1>1, <1>2, MemberAssumption, NullAssumption DEF PtrInv, Owned
<1>4. Deleting(hs, adopted')
  BY <1>1, <1>2, Zenon DEF PtrInv, Deleting
<1>5. handle[h].ptr # Null => handle[h].del = adopted'[handle[h].ptr]
  BY <1>1, Zenon DEF PtrInv, Deleting
<1> QED BY <1>1, <1>3, <1>4, <1>5, Finished, Zenon

\* reset(ptr) deletes the old object and adopts the new one.
LEMMA ResetToKeeps ==
    ASSUME PtrInv, NEW h \in Handles, NEW o \in Objects, ResetTo(h, o)
    PROVE  PtrInv'
<1> USE PtrTypes
<1>0. PICK hs : hs = [handle EXCEPT ![h].ptr = o]
  BY Zenon
<1>1. /\ handle[h] # Absent /\ o \in raw /\ Finish(hs, handle[h].ptr, handle[h].del)
      /\ raw' = raw \ {o} /\ adopted' = [adopted EXCEPT ![o] = handle[h].del]
  BY <1>0, Zenon DEF ResetTo, Exists
<1>2. /\ hs \in [Handles -> PtrValues \cup {Absent}]
      /\ hs[h] # Absent /\ hs[h].ptr = o /\ hs[h].del = handle[h].del
      /\ \A g \in Handles : g # h => hs[g] = handle[g]
  BY <1>0, <1>1, PointerSet
<1>3. handle[h].del \in Deleters \cup {MovedFrom} /\ handle[h].ptr # o /\ o # Null
  BY <1>1, HandleValues DEF PtrInv, Owned
<1>4. Owned(hs, handle[h].ptr, raw', live)
  BY <1>1, <1>2, <1>3, MemberAssumption, NullAssumption DEF PtrInv, Owned
<1>5. /\ adopted' \in [Objects -> Deleters \cup {MovedFrom}] /\ adopted'[o] = handle[h].del
      /\ \A x \in Objects : x # o => adopted'[x] = adopted[x]
  BY <1>1, <1>3, ZenonT(40)
<1>6. ASSUME NEW g \in Handles, handle[g] # Absent, handle[g].ptr # Null
      PROVE  handle[g].ptr \in Objects /\ handle[g].ptr # o /\ handle[g].del = adopted'[handle[g].ptr]
  BY <1>1, <1>5, <1>6 DEF PtrInv, Owned, Deleting
<1>7. Deleting(hs, adopted')
  BY <1>2, <1>5, <1>6 DEF Deleting
<1> QED BY <1>1, <1>4, <1>6, <1>7, Finished, Zenon

\* The destructor of a handle deletes its object.
LEMMA DestroyKeeps ==
    ASSUME PtrInv, NEW h \in Handles, Destroy(h)
    PROVE  PtrInv'
<1> USE PtrTypes
<1> DEFINE hs == [handle EXCEPT ![h] = Absent]
<1>1. /\ handle[h] # Absent /\ h \notin DOMAIN MemberOf /\ Finish(hs, handle[h].ptr, handle[h].del)
      /\ raw' = raw /\ adopted' = adopted
  BY Zenon DEF Destroy, Exists
<1>2. /\ hs \in [Handles -> PtrValues \cup {Absent}] /\ hs[h] = Absent
      /\ \A g \in Handles : g # h => hs[g] = handle[g]
  OBVIOUS
<1> HIDE DEF hs
<1>3. Owned(hs, handle[h].ptr, raw', live)
  BY <1>1, <1>2, MemberAssumption, NullAssumption DEF PtrInv, Owned
<1>4. Deleting(hs, adopted')
  BY <1>1, <1>2, ZenonT(40) DEF PtrInv, Deleting
<1>5. handle[h].ptr # Null => handle[h].del = adopted'[handle[h].ptr]
  BY <1>1, Zenon DEF PtrInv, Deleting
<1> QED BY <1>1, <1>3, <1>4, <1>5, Finished, Zenon

\* What moving from a handle's deleter leaves is a deleter, too.
LEMMA MovedDeleter ==
    ASSUME PtrInv, NEW g \in Handles, handle[g] # Absent, NEW d \in AfterMove(handle[g].del),
           NEW v, v = [ptr |-> Null, del |-> d]
    PROVE  d \in Deleters \cup {MovedFrom} /\ v \in PtrValues /\ v # Absent /\ v.ptr = Null
<1>1. d \in Deleters \cup {MovedFrom}
  BY PtrTypes, HandleValues, Zenon DEF AfterMove
<1>2. v \in PtrValues /\ v.ptr = Null
  BY <1>1, Zenon DEF PtrValues
<1> QED BY <1>1, <1>2, NullAssumption, Zenon

\* The move constructor passes the object and its deleter on.
LEMMA MoveConstructKeeps ==
    ASSUME PtrInv, NEW h \in Handles, NEW g \in Handles, MoveConstruct(h, g)
    PROVE  PtrInv'
<1> USE PtrTypes
<1>1. /\ handle[g] # Absent /\ handle[h] = Absent /\ h \notin DOMAIN MemberOf /\ h # g
      /\ raw' = raw /\ adopted' = adopted
  BY Zenon DEF MoveConstruct, Exists
<1>2. PICK d \in AfterMove(handle[g].del) :
          Finish([handle EXCEPT ![h] = handle[g], ![g] = [ptr |-> Null, del |-> d]], Null, Default)
  BY Zenon DEF MoveConstruct
<1>3. PICK v : v = [ptr |-> Null, del |-> d]
  BY Zenon
<1>4. PICK hs : hs = [handle EXCEPT ![h] = handle[g], ![g] = v]
  BY Zenon
<1>5. Finish(hs, Null, Default)
  BY <1>2, <1>3, <1>4, Zenon
<1>6. v \in PtrValues /\ v # Absent /\ v.ptr = Null
  BY <1>1, <1>3, MovedDeleter, Zenon
<1>7. /\ hs \in [Handles -> PtrValues \cup {Absent}] /\ hs[h] = handle[g] /\ hs[g] = v
      /\ \A k \in Handles : k # h /\ k # g => hs[k] = handle[k]
  BY <1>1, <1>4, <1>6, Zenon
<1>8. Owned(hs, Null, raw', live)
  BY <1>1, <1>6, <1>7, MemberAssumption DEF PtrInv, Owned
<1>9. Deleting(hs, adopted')
  BY <1>1, <1>6, <1>7 DEF PtrInv, Deleting
<1> QED BY <1>5, <1>8, <1>9, Finished, Zenon

\* The move assignment does so too, and deletes what its target owned by its old deleter.
LEMMA MoveAssignKeeps ==
    ASSUME PtrInv, NEW h \in Handles, NEW g \in Handles, MoveAssign(h, g)
    PROVE  PtrInv'
<1> USE PtrTypes
<1>1. handle[h] # Absent /\ handle[g] # Absent /\ h # g /\ raw' = raw /\ adopted' = adopted
  BY Zenon DEF MoveAssign, Exists
<1>2. PICK d \in AfterMove(handle[g].del) :
          Finish([[handle EXCEPT ![g].ptr = Null, ![h].ptr = handle[g].ptr]
                     EXCEPT ![h].del = handle[g].del, ![g].del = d], handle[h].ptr, handle[h].del)
  BY Zenon DEF MoveAssign
<1>3. PICK v : v = [ptr |-> Null, del |-> d]
  BY Zenon
<1>4. v \in PtrValues /\ v # Absent /\ v.ptr = Null
  BY <1>1, <1>3, MovedDeleter, Zenon
<1>5. handle[g] \in PtrValues /\ handle[h] \in PtrValues
  BY <1>1, HandleValues, Zenon
<1>6. PICK hs : hs = [[handle EXCEPT ![g].ptr = Null, ![h].ptr = handle[g].ptr]
                         EXCEPT ![h].del = handle[g].del, ![g].del = d]
  BY Zenon
<1>7. Finish(hs, handle[h].ptr, handle[h].del)
  BY <1>2, <1>6, Zenon
<1>8. hs = [handle EXCEPT ![h] = handle[g], ![g] = v]
  <2>1. [[handle[h] EXCEPT !.ptr = handle[g].ptr] EXCEPT !.del = handle[g].del] = handle[g]
    BY <1>5, Zenon DEF PtrValues
  <2>2. [[handle[g] EXCEPT !.ptr = Null] EXCEPT !.del = d] = v
    <3>1. d \in Deleters \cup {MovedFrom}
      BY <1>1, <1>3, MovedDeleter, Zenon
    <3>2. [[handle[g] EXCEPT !.ptr = Null] EXCEPT !.del = d] \in PtrValues
      BY <1>5, <3>1, Zenon DEF PtrValues
    <3>3. PICK w : w = [[handle[g] EXCEPT !.ptr = Null] EXCEPT !.del = d]
      OBVIOUS
    <3>4. w.ptr = Null /\ w.del = d /\ v.ptr = Null /\ v.del = d
      BY <1>3, <1>5, <3>3, Zenon DEF PtrValues
    <3>5. \A a, b \in PtrValues : a.ptr = b.ptr /\ a.del = b.del => a = b
      BY DEF PtrValues
    <3> QED BY <1>4, <3>2, <3>3, <3>4, <3>5, Zenon
  <2>3. hs = [handle EXCEPT ![h] = [[handle[h] EXCEPT !.ptr = handle[g].ptr] EXCEPT !.del = handle[g].del],
                            ![g] = [[handle[g] EXCEPT !.ptr = Null] EXCEPT !.del = d]]
    BY <1>1, <1>6, Zenon
  <2> QED BY <2>1, <2>2, <2>3, Zenon
<1>9. /\ hs \in [Handles -> PtrValues \cup {Absent}] /\ hs[h] = handle[g] /\ hs[g] = v
      /\ \A k \in Handles : k # h /\ k # g => hs[k] = handle[k]
  BY <1>1, <1>4, <1>8, ZenonT(40)
<1>10. Owned(hs, handle[h].ptr, raw', live)
  BY <1>1, <1>4, <1>9, MemberAssumption, NullAssumption DEF PtrInv, Owned
<1>11. Deleting(hs, adopted')
  BY <1>1, <1>4, <1>9 DEF PtrInv, Deleting
<1>12. handle[h].ptr # Null => handle[h].del = adopted'[handle[h].ptr]
  BY <1>1, Zenon DEF PtrInv, Deleting
<1> QED BY <1>7, <1>10, <1>11, <1>12, Finished, Zenon

\* swap exchanges the objects with their deleters.
LEMMA SwapKeeps ==
    ASSUME PtrInv, NEW h \in Handles, NEW g \in Handles, swap(h, g)
    PROVE  PtrInv'
<1> USE PtrTypes
<1>1. PICK hs : hs = [handle EXCEPT ![h] = handle[g], ![g] = handle[h]]
  BY Zenon
<1>2. handle[h] # Absent /\ handle[g] # Absent /\ Finish(hs, Null, Default) /\ raw' = raw /\ adopted' = adopted
  BY <1>1, Zenon DEF swap, Exists
<1>3. /\ hs \in [Handles -> PtrValues \cup {Absent}] /\ hs[h] = handle[g] /\ hs[g] = handle[h]
      /\ \A k \in Handles : k # h /\ k # g => hs[k] = handle[k]
  BY <1>1, ZenonT(40)
<1>4. Owned(hs, Null, raw', live)
  BY <1>2, <1>3, MemberAssumption DEF PtrInv, Owned
<1>5. Deleting(hs, adopted')
  BY <1>2, <1>3 DEF PtrInv, Deleting
<1> QED BY <1>2, <1>4, <1>5, Finished, Zenon

--------------------------------------------------------------------------------
\* The invariant holds at the start.
LEMMA PtrInitInv == PtrInit => PtrInv
BY MemberAssumption, NullAssumption, DeleterAssumption, ZenonT(40) DEF PtrInit, PtrInv, Owned, Deleting

\* Every call keeps it.
LEMMA PtrStepInv == PtrInv /\ [PtrNext]_ptrVars => PtrInv'
<1> SUFFICES ASSUME PtrInv, [PtrNext]_ptrVars PROVE PtrInv'
  OBVIOUS
<1>1. CASE UNCHANGED ptrVars
  BY <1>1, ZenonT(40) DEF ptrVars, PtrInv, Owned, Deleting
<1>2. CASE \E o \in Objects : New(o)
  BY <1>2, NewKeeps, Zenon
<1>3. ASSUME NEW h \in Handles, ConstructNull(h) \/ release(h) \/ reset(h) \/ Destroy(h) PROVE PtrInv'
  <2>1. CASE ConstructNull(h)
    BY <2>1, DeleterAssumption, ConstructKeeps, Zenon
  <2> QED BY <1>3, <2>1, ReleaseKeeps, ResetKeeps, DestroyKeeps, Zenon
<1>4. ASSUME NEW h \in Handles, NEW o \in Objects,
             ResetTo(h, o) \/ \E d \in DeleterValues : Construct(h, o, d)
      PROVE  PtrInv'
  <2>1. DeleterValues \subseteq Deleters
    BY DeleterAssumption, Zenon DEF DeleterValues
  <2>2. CASE \E d \in DeleterValues : Construct(h, o, d)
    BY <2>1, <2>2, ConstructKeeps, Zenon
  <2> QED BY <1>4, <2>2, ResetToKeeps, Zenon
<1>5. ASSUME NEW h \in Handles, NEW g \in Handles, MoveConstruct(h, g) \/ MoveAssign(h, g) \/ swap(h, g)
      PROVE  PtrInv'
  BY <1>5, MoveConstructKeeps, MoveAssignKeeps, SwapKeeps, Zenon
<1> QED BY <1>1, <1>2, <1>3, <1>4, <1>5, Zenon DEF PtrNext

\* The invariant gives the two properties.
LEMMA PtrInvImplies == PtrInv => OneOwner /\ OwnDeleter
<1> SUFFICES ASSUME PtrInv PROVE OneOwner /\ OwnDeleter
  OBVIOUS
<1>1. OwnDeleter
  BY Zenon DEF PtrInv, Deleting, OwnDeleter
<1>2. ASSUME NEW o \in Objects
      PROVE  LET owners == {h \in Handles : handle[h] # Absent /\ handle[h].ptr = o}
             IN  IF o \in live \ raw THEN \E h \in Handles : owners = {h}
                 ELSE owners = {} /\ (o \in raw => o \in live)
  <2> DEFINE owners == {h \in Handles : handle[h] # Absent /\ handle[h].ptr = o}
  <2>1. o # Null
    BY NullAssumption, Zenon
  <2>2. CASE o \in live \ raw
    <3>1. PICK h \in Handles : handle[h] # Absent /\ handle[h].ptr = o
      BY <2>1, <2>2, Zenon DEF PtrInv, Owned
    <3>2. owners = {h}
      BY <2>1, <3>1 DEF PtrInv, Owned
    <3> QED BY <2>2, <3>2, Zenon
  <2>3. CASE o \notin live \ raw
    BY <2>1, <2>3 DEF PtrInv, Owned
  <2> QED BY <2>2, <2>3, Zenon
<1>3. OneOwner
  BY <1>2, Zenon DEF OneOwner, PtrInv, Owned
<1> QED BY <1>1, <1>3, Zenon

(* Unique ownership, for every way in which the objects nest: every object    *)
(* that exists is owned by exactly one handle or by the client who released   *)
(* it, a deleted one by none, and a member handle exists as long as its       *)
(* object.                                                                    *)
THEOREM UniqueOwnership == PtrSpec => []OneOwner
BY PtrInitInv, PtrStepInv, PtrInvImplies, PTL DEF PtrSpec

(* Every object is deleted by the deleter that it was handed over with,       *)
(* through moves, move assignments and swaps.                                 *)
THEOREM DeletedByOwnDeleter == PtrSpec => []OwnDeleter
BY PtrInitInv, PtrStepInv, PtrInvImplies, PTL DEF PtrSpec

--------------------------------------------------------------------------------
(******************************************************************************)
(* SPSCLogger repeats and reorders no record, loses none before its           *)
(* destructor deletes the queues, and its last drain writes what it was       *)
(* given, for any number of threads and calls and any sizes of the queues and *)
(* of the buffer.                                                             *)
(******************************************************************************)
USE LoggerSizes, SMTT(40)

\* Accepted records are earlier calls than the one in progress.
Numbered ==
    \A t \in Threads :
        /\ \A n \in accepted[t] : n <= calls[t] /\ (pc[t] # "idle" => n < calls[t])
        /\ pc[t] # "idle" => calls[t] > 0

\* out_list has records only in the middle of a drain.
Buffered == out_list # <<>> => cpc \in {"drain", "lastdrain"} /\ cursor <= Len(q_snapshot)

\* Nobody logs during the last drain, and it leaves empty queues behind.
Drained ==
    /\ life \in {"stopping", "dead"} => \A t \in Threads : pc[t] = "idle"
    /\ cpc \in {"lastdrain", "exited"} => life \in {"stopping", "dead"}
    /\ cpc = "lastdrain" => \A i \in DOMAIN q_snapshot : i < cursor => queue[q_snapshot[i]] = <<>>
    /\ cpc = "exited" => \A i \in DOMAIN q_snapshot : queue[q_snapshot[i]] = <<>>

\* Snapshots only grow, so what was popped is of threads in the last one.
Snapshots ==
    /\ life = "dead" => cpc = "exited"
    /\ life # "dead" => \A t \in Range(q_snapshot) : t \in Range(m_queues)
    /\ \A i \in DOMAIN Popped : Popped[i][1] \in Range(q_snapshot)

LoggerInv == RecordsConserved /\ Numbered /\ Buffered /\ Drained /\ Snapshots

--------------------------------------------------------------------------------
(* Sequences. *)

\* Moving records from one list to the next one, with one more or not.
LEMMA Concatenated ==
    ASSUME NEW s \in Seq(Records), NEW l \in Seq(Records), NEW r \in Records
    PROVE  /\ s \o Append(l, r) = Append(s \o l, r)
           /\ (s \o Append(l, r)) \o <<>> = Append(s \o l, r)
<1>1. s \o l \in Seq(Records) /\ Append(s \o l, r) \in Seq(Records) /\ Append(l, r) \in Seq(Records)
  OBVIOUS
<1>2. ASSUME NEW x \in Seq(Records) PROVE x \o <<>> = x
  OBVIOUS
<1>3. s \o Append(l, r) = Append(s \o l, r)
  <2>1. s \o Append(l, r) \in Seq(Records) /\ Len(s \o Append(l, r)) = Len(Append(s \o l, r))
    BY <1>1
  <2>2. \A i \in 1 .. Len(s) + Len(l) + 1 : (s \o Append(l, r))[i] = Append(s \o l, r)[i]
    BY <1>1
  <2> QED BY <1>1, <2>1, <2>2
<1> QED BY <1>1, <1>2, <1>3, Zenon

\* What is in a list with one more element.
LEMMA Appended ==
    ASSUME NEW S, NEW r \in S, NEW s \in Seq(S)
    PROVE  /\ DOMAIN Append(s, r) = 1 .. Len(s) + 1 /\ DOMAIN s = 1 .. Len(s)
           /\ Append(s, r)[Len(s) + 1] = r /\ \A i \in DOMAIN s : Append(s, r)[i] = s[i]
           /\ \A x : x \in Range(Append(s, r)) <=> x \in Range(s) \/ x = r
<1>1. /\ DOMAIN Append(s, r) = 1 .. Len(s) + 1 /\ DOMAIN s = 1 .. Len(s)
      /\ Append(s, r)[Len(s) + 1] = r /\ \A i \in DOMAIN s : Append(s, r)[i] = s[i]
  OBVIOUS
<1>2. \A x : x \in Range(Append(s, r)) <=> x \in Range(s) \/ x = r
  BY <1>1 DEF Range
<1> QED BY <1>1, <1>2, Zenon

\* What is in a list without its first element.
LEMMA Shortened ==
    ASSUME NEW S, NEW s \in Seq(S), s # <<>>
    PROVE  /\ Tail(s) \in Seq(S) /\ Head(s) = s[1] /\ s[1] \in S /\ 1 \in DOMAIN s
           /\ Len(Tail(s)) = Len(s) - 1
           /\ \A i \in DOMAIN Tail(s) : i + 1 \in DOMAIN s /\ Tail(s)[i] = s[i + 1]
           /\ \A x : x \in Range(s) <=> x = Head(s) \/ x \in Range(Tail(s))
<1>1. /\ Tail(s) \in Seq(S) /\ Head(s) = s[1] /\ s[1] \in S /\ 1 \in DOMAIN s
      /\ Len(Tail(s)) = Len(s) - 1 /\ DOMAIN Tail(s) = 1 .. Len(s) - 1 /\ DOMAIN s = 1 .. Len(s)
      /\ \A i \in DOMAIN Tail(s) : i + 1 \in DOMAIN s /\ Tail(s)[i] = s[i + 1]
  OBVIOUS
<1>2. ASSUME NEW i \in DOMAIN s, i # 1
      PROVE  i - 1 \in DOMAIN Tail(s) /\ Tail(s)[i - 1] = s[i]
  BY <1>1, <1>2
<1>3. \A i \in DOMAIN s : s[i] = Head(s) \/ s[i] \in Range(Tail(s))
  <2> SUFFICES ASSUME NEW i \in DOMAIN s, i # 1 PROVE s[i] \in Range(Tail(s))
    BY <1>1, Zenon
  <2> QED BY <1>2, Zenon DEF Range
<1>4. Head(s) \in Range(s) /\ \A i \in DOMAIN Tail(s) : Tail(s)[i] \in Range(s)
  BY <1>1, Zenon DEF Range
<1>5. \A x : x \in Range(s) <=> x = Head(s) \/ x \in Range(Tail(s))
  BY <1>3, <1>4, Zenon DEF Range
<1> QED BY <1>1, <1>5, Zenon

--------------------------------------------------------------------------------
(* The records. *)

\* The records that were popped are a list of records.
LEMMA PoppedType ==
    ASSUME TypeOK
    PROVE  Popped \in Seq(Records) /\ DOMAIN Popped = 1 .. Len(Popped)
<1>1. output \in Seq(Records) /\ out_list \in Seq(Records)
  BY Zenon DEF TypeOK
<1> QED BY <1>1 DEF Popped

\* A step that takes no record from anywhere and accepts none.
LEMMA NothingMoves ==
    ASSUME RecordsConserved, TypeOK', Popped' = Popped, UNCHANGED <<queue, accepted>>,
           \A t \in Threads : Missed(t)' <=> Missed(t)
    PROVE  RecordsConserved'
  BY Zenon DEF RecordsConserved

\* A push that finds room.
LEMMA PushConserves ==
    ASSUME RecordsConserved, Numbered, TypeOK', life # "dead", life' # "dead",
           NEW t \in Threads, pc[t] # "idle",
           queue' = [queue EXCEPT ![t] = Append(queue[t], calls[t])],
           accepted' = [accepted EXCEPT ![t] = accepted[t] \cup {calls[t]}],
           Popped' = Popped
    PROVE  RecordsConserved'
<1> DEFINE c == calls[t]
           q == queue[t]
<1>0. \A u \in Threads : ~Missed(u) /\ ~Missed(u)'
  BY Zenon DEF Missed
<1>1. /\ TypeOK /\ q \in Seq(1 .. MaxCalls) /\ c \in 1 .. MaxCalls
      /\ queue \in [Threads -> Seq(1 .. MaxCalls)] /\ accepted \in [Threads -> SUBSET (1 .. MaxCalls)]
  BY Zenon DEF RecordsConserved, TypeOK, Numbered
<1>2. /\ queue'[t] = Append(q, c) /\ \A u \in Threads : u # t => queue'[u] = queue[u]
      /\ accepted'[t] = accepted[t] \cup {c} /\ \A u \in Threads : u # t => accepted'[u] = accepted[u]
  BY <1>1, Zenon
<1>3. \A n \in accepted[t] : n < c
  BY Zenon DEF Numbered
<1>4. /\ DOMAIN Append(q, c) = 1 .. Len(q) + 1 /\ DOMAIN q = 1 .. Len(q)
      /\ Append(q, c)[Len(q) + 1] = c /\ \A i \in DOMAIN q : Append(q, c)[i] = q[i]
      /\ \A x : x \in Range(Append(q, c)) <=> x \in Range(q) \/ x = c
  <2>1. q \in Seq(1 .. MaxCalls) /\ c \in 1 .. MaxCalls
    BY <1>1, Zenon
  <2> HIDE DEF q, c
  <2>2. /\ DOMAIN Append(q, c) = 1 .. Len(q) + 1 /\ DOMAIN q = 1 .. Len(q)
        /\ Append(q, c)[Len(q) + 1] = c /\ \A i \in DOMAIN q : Append(q, c)[i] = q[i]
    BY <2>1
  <2>3. \A x : x \in Range(Append(q, c)) <=> x \in Range(q) \/ x = c
    BY <2>1, Appended, Zenon
  <2> QED BY <2>2, <2>3, Zenon
<1>5. \A i \in DOMAIN q : q[i] \in 1 .. MaxCalls /\ q[i] \in Range(q)
  BY <1>1 DEF Range
<1>6. \A i \in DOMAIN q : q[i] < c
  BY <1>0, <1>3, <1>5, Zenon DEF RecordsConserved
<1>7. \A i \in DOMAIN Popped : Popped[i] \in Range(Popped) /\ Popped[i] \in Threads \X (1 .. MaxCalls)
  BY <1>1, PoppedType DEF Range, Records
<1>8. \A i \in DOMAIN Popped : Popped[i][1] = t => Popped[i][2] < c
  <2> SUFFICES ASSUME NEW i \in DOMAIN Popped, Popped[i][1] = t PROVE Popped[i][2] < c
    OBVIOUS
  <2>1. PICK n \in 1 .. MaxCalls : Popped[i] = <<t, n>>
    BY <1>7
  <2>2. n \in accepted[t]
    BY <1>0, <1>7, <2>1, Zenon DEF RecordsConserved
  <2> QED BY <1>3, <2>1, <2>2
<1> HIDE DEF c, q
<1>9. \A u \in Threads, n \in 1 .. MaxCalls :
          n \in accepted'[u] <=> <<u, n>> \in Range(Popped') \/ n \in Range(queue'[u])
  <2> SUFFICES ASSUME NEW u \in Threads, NEW n \in 1 .. MaxCalls
               PROVE  n \in accepted'[u] <=> <<u, n>> \in Range(Popped) \/ n \in Range(queue'[u])
    BY Zenon
  <2>1. n \in accepted[u] <=> <<u, n>> \in Range(Popped) \/ n \in Range(queue[u])
    BY <1>0, Zenon DEF RecordsConserved
  <2>2. CASE u = t
    BY <1>2, <1>4, <2>1, <2>2 DEF q
  <2>3. CASE u # t
    BY <1>2, <2>1, <2>3, Zenon
  <2> QED BY <2>2, <2>3, Zenon
<1>10. ASSUME NEW u \in Threads, NEW j \in DOMAIN queue'[u]
       PROVE  /\ \A i \in DOMAIN Popped : Popped[i][1] = u => Popped[i][2] < queue'[u][j]
              /\ \A i \in DOMAIN queue'[u] : i < j => queue'[u][i] < queue'[u][j]
  <2>1. CASE u # t
    BY <1>2, <1>10, <2>1, Zenon DEF RecordsConserved
  <2>2. CASE u = t
    <3>1. CASE j \in DOMAIN q
      <4>1. /\ \A i \in DOMAIN Popped : Popped[i][1] = t => Popped[i][2] < q[j]
            /\ \A i \in DOMAIN q : i < j => q[i] < q[j]
        BY <3>1, Zenon DEF RecordsConserved, q
      <4>2. queue'[u] = Append(q, c) /\ queue'[u][j] = q[j]
        BY <1>2, <1>4, <2>2, <3>1, Zenon
      <4>3. ASSUME NEW i \in DOMAIN queue'[u], i < j
            PROVE  i \in DOMAIN q /\ queue'[u][i] = q[i]
        <5>1. i \in 1 .. Len(q) + 1 /\ j \in 1 .. Len(q) /\ DOMAIN q = 1 .. Len(q)
          BY <1>4, <3>1, <4>2, <4>3, Zenon
        <5>2. Len(q) \in Nat
          BY <1>1
        <5>3. i \in 1 .. Len(q)
          BY <4>3, <5>1, <5>2
        <5> QED BY <1>4, <4>2, <5>1, <5>3, Zenon
      <4> QED BY <2>2, <4>1, <4>2, <4>3, Zenon
    <3>2. CASE j = Len(q) + 1
      BY <1>1, <1>2, <1>4, <1>6, <1>8, <1>10, <2>2, <3>2
    <3> QED BY <1>1, <1>2, <1>4, <1>10, <2>2, <3>1, <3>2
  <2> QED BY <2>1, <2>2, Zenon
<1> QED BY <1>0, <1>9, <1>10, Zenon DEF RecordsConserved

\* A pop that finds a record, which joins those that were popped.
LEMMA PopConserves ==
    ASSUME RecordsConserved, TypeOK', life # "dead", life' # "dead",
           NEW t \in Threads, queue[t] # <<>>,
           queue' = [queue EXCEPT ![t] = Tail(queue[t])],
           Popped' = Append(Popped, <<t, Head(queue[t])>>), accepted' = accepted
    PROVE  RecordsConserved'
<1> DEFINE q == queue[t]
           h == Head(q)
           W == Popped
<1>0. \A u \in Threads : ~Missed(u) /\ ~Missed(u)'
  BY Zenon DEF Missed
<1>1. /\ TypeOK /\ q \in Seq(1 .. MaxCalls) /\ queue \in [Threads -> Seq(1 .. MaxCalls)]
      /\ W \in Seq(Records)
  <2>1. TypeOK /\ queue \in [Threads -> Seq(1 .. MaxCalls)]
    BY Zenon DEF RecordsConserved, TypeOK
  <2> QED BY <2>1, PoppedType, Zenon
<1>2. queue'[t] = Tail(q) /\ \A u \in Threads : u # t => queue'[u] = queue[u]
  BY <1>1, Zenon
<1>3. /\ Tail(q) \in Seq(1 .. MaxCalls) /\ h = q[1] /\ h \in 1 .. MaxCalls /\ 1 \in DOMAIN q
      /\ \A i \in DOMAIN Tail(q) : i + 1 \in DOMAIN q /\ Tail(q)[i] = q[i + 1]
      /\ \A x : x \in Range(q) <=> x = h \/ x \in Range(Tail(q))
  BY <1>1, Shortened, Zenon
<1>4. <<t, h>> \in Records
  BY <1>3, ZenonT(40) DEF Records
<1> HIDE DEF h
<1>5. /\ DOMAIN Popped' = 1 .. Len(W) + 1 /\ DOMAIN W = 1 .. Len(W)
      /\ Popped'[Len(W) + 1] = <<t, h>> /\ \A i \in DOMAIN W : Popped'[i] = W[i]
      /\ \A x : x \in Range(Popped') <=> x \in Range(W) \/ x = <<t, h>>
  <2>1. PICK r \in Records : r = <<t, h>> /\ Popped' = Append(W, r)
    BY <1>4, Zenon DEF h
  <2> HIDE DEF W
  <2>2. /\ DOMAIN Append(W, r) = 1 .. Len(W) + 1 /\ DOMAIN W = 1 .. Len(W)
        /\ Append(W, r)[Len(W) + 1] = r /\ \A i \in DOMAIN W : Append(W, r)[i] = W[i]
        /\ \A x : x \in Range(Append(W, r)) <=> x \in Range(W) \/ x = r
    <3>1. W \in Seq(Records)
      BY <1>1, Zenon
    <3>2. /\ DOMAIN Append(W, r) = 1 .. Len(W) + 1 /\ DOMAIN W = 1 .. Len(W)
          /\ Append(W, r)[Len(W) + 1] = r /\ \A i \in DOMAIN W : Append(W, r)[i] = W[i]
      BY <3>1
    <3>3. \A x : x \in Range(Append(W, r)) <=> x \in Range(W) \/ x = r
      BY <3>1, Appended, Zenon
    <3> QED BY <3>2, <3>3, Zenon
  <2> QED BY <2>1, <2>2, Zenon
<1>6. /\ \A i \in DOMAIN W : W[i][1] = t => W[i][2] < h
      /\ \A i \in DOMAIN q : 1 < i => h < q[i]
      /\ \A i, j \in DOMAIN q : i < j => q[i] < q[j]
      /\ \A i, j \in DOMAIN W : i < j /\ W[i][1] = W[j][1] => W[i][2] < W[j][2]
      /\ \A j \in DOMAIN q, i \in DOMAIN W : W[i][1] = t => W[i][2] < q[j]
  BY <1>3, Zenon DEF RecordsConserved
<1>7. \A u \in Threads, n \in 1 .. MaxCalls :
          n \in accepted'[u] <=> <<u, n>> \in Range(Popped') \/ n \in Range(queue'[u])
  <2> SUFFICES ASSUME NEW u \in Threads, NEW n \in 1 .. MaxCalls
               PROVE  n \in accepted[u] <=> <<u, n>> \in Range(Popped') \/ n \in Range(queue'[u])
    BY Zenon
  <2>1. n \in accepted[u] <=> <<u, n>> \in Range(W) \/ n \in Range(queue[u])
    BY <1>0, Zenon DEF RecordsConserved
  <2>2. <<u, n>> = <<t, h>> <=> u = t /\ n = h
    OBVIOUS
  <2> HIDE DEF W
  <2>3. CASE u = t
    BY <1>2, <1>3, <1>5, <2>1, <2>2, <2>3, Zenon
  <2>4. CASE u # t
    BY <1>2, <1>5, <2>1, <2>2, <2>4, Zenon
  <2> QED BY <2>3, <2>4, Zenon
<1> HIDE DEF W
<1>8. \A i, j \in DOMAIN Popped' :
          i < j /\ Popped'[i][1] = Popped'[j][1] => Popped'[i][2] < Popped'[j][2]
  <2> SUFFICES ASSUME NEW i \in DOMAIN Popped', NEW j \in DOMAIN Popped',
                      i < j, Popped'[i][1] = Popped'[j][1]
               PROVE  Popped'[i][2] < Popped'[j][2]
    BY Zenon
  <2>1. i \in DOMAIN W /\ (j \in DOMAIN W \/ j = Len(W) + 1) /\ Popped'[i] = W[i]
    BY <1>1, <1>5
  <2>2. CASE j \in DOMAIN W
    BY <1>5, <1>6, <2>1, <2>2, Zenon
  <2>3. CASE j = Len(W) + 1
    <3>1. Popped'[j][1] = t /\ Popped'[j][2] = h
      BY <1>5, <2>3
    <3> QED BY <1>6, <2>1, <3>1, Zenon
  <2> QED BY <2>1, <2>2, <2>3, Zenon
<1>9. ASSUME NEW u \in Threads, NEW j \in DOMAIN queue'[u]
      PROVE  /\ \A i \in DOMAIN Popped' : Popped'[i][1] = u => Popped'[i][2] < queue'[u][j]
             /\ \A i \in DOMAIN queue'[u] : i < j => queue'[u][i] < queue'[u][j]
  <2>1. ASSUME NEW i \in DOMAIN Popped', Popped'[i][1] = u
        PROVE  (i \in DOMAIN W /\ W[i][1] = u /\ Popped'[i][2] = W[i][2]) \/ (u = t /\ Popped'[i][2] = h)
    <3>1. CASE i \in DOMAIN W
      BY <1>5, <2>1, <3>1, Zenon
    <3>2. CASE i = Len(W) + 1
      <4>1. Popped'[i][1] = t /\ Popped'[i][2] = h
        BY <1>5, <3>2
      <4> QED BY <2>1, <4>1, Zenon
    <3>3. i \in DOMAIN W \/ i = Len(W) + 1
      BY <1>1, <1>5
    <3> QED BY <3>1, <3>2, <3>3, Zenon
  <2>2. CASE u # t
    <3>1. /\ j \in DOMAIN queue[u] /\ queue'[u] = queue[u]
          /\ \A i \in DOMAIN W : W[i][1] = u => W[i][2] < queue[u][j]
          /\ \A i \in DOMAIN queue[u] : i < j => queue[u][i] < queue[u][j]
      BY <1>2, <1>9, <2>2, Zenon DEF RecordsConserved, W
    <3> QED BY <2>1, <2>2, <3>1, Zenon
  <2>3. CASE u = t
    <3>1. /\ j \in DOMAIN Tail(q) /\ j + 1 \in DOMAIN q /\ queue'[u][j] = q[j + 1] /\ j \in Nat \ {0}
      <4>1. j \in DOMAIN Tail(q) /\ queue'[u] = Tail(q)
        BY <1>2, <1>9, <2>3, Zenon
      <4>2. j \in Nat \ {0}
        BY <1>3, <4>1
      <4> QED BY <1>3, <4>1, <4>2, Zenon
    <3>2. \A i \in DOMAIN queue'[u] : i < j => queue'[u][i] < queue'[u][j]
      BY <1>2, <1>3, <1>6, <2>3, <3>1
    <3>3. h < q[j + 1] /\ \A i \in DOMAIN W : W[i][1] = t => W[i][2] < q[j + 1]
      BY <1>6, <3>1
    <3> QED BY <2>1, <2>3, <3>1, <3>2, <3>3, Zenon
  <2> QED BY <2>2, <2>3, Zenon
<1> QED BY <1>0, <1>7, <1>8, <1>9, Zenon DEF RecordsConserved

--------------------------------------------------------------------------------
(* One lemma per kind of step. *)

\* Steps that move no record: the calls up to the push, and most of _run.
LEMMA ControlStep ==
    ASSUME LoggerInv, UNCHANGED <<queue, accepted, out_list, output>>, TypeOK',
           Numbered', Buffered', Drained',
           \/ UNCHANGED <<life, m_queues, q_snapshot, cpc>>
           \/ /\ life # "dead" /\ life' # "dead"
              /\ \A t \in Range(q_snapshot) : t \in Range(q_snapshot')
              /\ \A t \in Range(q_snapshot') : t \in Range(m_queues')
    PROVE  LoggerInv'
<1>1. Popped' = Popped
  BY Zenon DEF Popped
<1>2. \A t \in Threads : Missed(t)' <=> Missed(t)
  BY Zenon DEF Missed
<1>3. Snapshots'
  BY <1>1, Zenon DEF LoggerInv, Snapshots
<1> QED BY <1>1, <1>2, <1>3, NothingMoves, Zenon DEF LoggerInv

\* The steps of a call before its push.
LEMMA CallStep ==
    ASSUME LoggerInv, NEW t \in Threads, LogCall(t) \/ LogRegister(t)
    PROVE  LoggerInv'
<1>0. TypeOK /\ Numbered /\ Buffered /\ Drained /\ life \notin {"stopping", "dead"}
  <2>1. TypeOK /\ Numbered /\ Buffered /\ Drained
    BY Zenon DEF LoggerInv, RecordsConserved
  <2>2. life = "running" \/ pc[t] = "register"
    BY Zenon DEF LogCall, LogRegister
  <2> QED BY <2>1, <2>2, Zenon DEF Drained
<1>1. UNCHANGED <<life, queue, accepted, cpc, q_snapshot, cursor, out_list, output>>
  BY Zenon DEF LogCall, LogRegister, runVars
<1>2. /\ pc' \in [Threads -> {"idle", "register", "push"}] /\ calls' \in [Threads -> 0 .. MaxCalls]
      /\ m_queues' \in Seq(Threads)
      /\ \A u \in Threads : u # t => pc'[u] = pc[u] /\ calls'[u] = calls[u]
      /\ calls'[t] > 0 /\ \A n \in accepted[t] : n < calls'[t]
  <2>1. /\ pc \in [Threads -> {"idle", "register", "push"}] /\ calls \in [Threads -> 0 .. MaxCalls]
        /\ m_queues \in Seq(Threads) /\ accepted[t] \subseteq 1 .. MaxCalls
    BY <1>0, Zenon DEF TypeOK
  <2>2. CASE LogCall(t)
    <3>1. \A n \in accepted[t] : n <= calls[t]
      BY <1>0, Zenon DEF Numbered
    <3> QED BY <2>1, <2>2, <3>1 DEF LogCall
  <2>3. CASE LogRegister(t)
    <3>1. calls[t] > 0 /\ \A n \in accepted[t] : n < calls[t]
      BY <1>0, <2>3, Zenon DEF Numbered, LogRegister
    <3> QED BY <2>1, <2>3, <3>1 DEF LogRegister
  <2> QED BY <2>2, <2>3, Zenon
<1>3. TypeOK'
  BY <1>0, <1>1, <1>2, Zenon DEF TypeOK
<1>4. Numbered'
  <2> SUFFICES ASSUME NEW u \in Threads
               PROVE  /\ \A n \in accepted[u] : n <= calls'[u] /\ (pc'[u] # "idle" => n < calls'[u])
                      /\ pc'[u] # "idle" => calls'[u] > 0
    BY <1>1, Zenon DEF Numbered
  <2>1. CASE u = t
    <3>1. accepted[t] \subseteq 1 .. MaxCalls /\ calls'[t] \in 0 .. MaxCalls
      BY <1>0, <1>2, ZenonT(40) DEF TypeOK
    <3> QED BY <1>2, <2>1, <3>1
  <2>2. CASE u # t
    BY <1>0, <1>2, <2>2, Zenon DEF Numbered
  <2> QED BY <2>1, <2>2, Zenon
<1>5. Buffered' /\ Drained'
  BY <1>0, <1>1, Zenon DEF Buffered, Drained
<1>6. life # "dead" /\ life' # "dead" /\ \A u \in Range(q_snapshot) : u \in Range(m_queues')
  <2>1. life # "dead" /\ life' # "dead" /\ \A u \in Range(q_snapshot) : u \in Range(m_queues)
    BY <1>0, <1>1, Zenon DEF LoggerInv, Snapshots
  <2>2. m_queues \in Seq(Threads)
    BY <1>0, Zenon DEF TypeOK
  <2>3. \A u \in Range(m_queues) : u \in Range(Append(m_queues, t))
    BY <2>2, Appended, Zenon
  <2>4. m_queues' = m_queues \/ m_queues' = Append(m_queues, t)
    BY Zenon DEF LogCall, LogRegister
  <2> QED BY <2>1, <2>3, <2>4, Zenon
<1> QED BY <1>1, <1>3, <1>4, <1>5, <1>6, ControlStep, Zenon

\* The push at the end of a call.
LEMMA PushStep ==
    ASSUME LoggerInv, NEW t \in Threads, LogPush(t)
    PROVE  LoggerInv'
<1>0. TypeOK /\ Numbered /\ Buffered /\ Drained /\ RecordsConserved
  BY Zenon DEF LoggerInv, RecordsConserved
<1>1. /\ pc[t] = "push" /\ pc' = [pc EXCEPT ![t] = "idle"]
      /\ UNCHANGED <<life, m_queues, calls, cpc, q_snapshot, cursor, out_list, output>>
  BY Zenon DEF LogPush, runVars
<1>2. life \notin {"stopping", "dead"}
  BY <1>0, <1>1, Zenon DEF Drained
<1>3. /\ pc \in [Threads -> {"idle", "register", "push"}] /\ calls[t] \in 1 .. MaxCalls
      /\ queue \in [Threads -> Seq(1 .. MaxCalls)] /\ accepted \in [Threads -> SUBSET (1 .. MaxCalls)]
      /\ \A u \in Threads : Len(queue[u]) <= QUEUE_SIZE
  <2>1. calls[t] \in 0 .. MaxCalls /\ calls[t] > 0
    BY <1>0, <1>1, Zenon DEF TypeOK, Numbered
  <2>2. calls[t] \in 1 .. MaxCalls
    BY <2>1
  <2> QED BY <1>0, <2>2, Zenon DEF TypeOK
<1>4. pc' \in [Threads -> {"idle", "register", "push"}] /\ pc'[t] = "idle" /\ \A u \in Threads : u # t => pc'[u] = pc[u]
  BY <1>1, <1>3, Zenon
<1>5. Buffered' /\ Drained'
  <2>1. cpc \notin {"lastdrain", "exited"}
    BY <1>0, <1>2, Zenon DEF Drained
  <2> QED BY <1>0, <1>1, <1>2, <2>1, Zenon DEF Buffered, Drained
<1>6. CASE UNCHANGED <<queue, accepted>>
  <2>1. TypeOK'
    BY <1>0, <1>1, <1>4, <1>6, Zenon DEF TypeOK
  <2>2. Numbered'
    BY <1>0, <1>1, <1>4, <1>6, Zenon DEF Numbered
  <2> QED BY <1>1, <1>5, <1>6, <2>1, <2>2, ControlStep, Zenon
<1>7. CASE /\ Len(queue[t]) < QUEUE_SIZE
           /\ queue' = [queue EXCEPT ![t] = Append(queue[t], calls[t])]
           /\ accepted' = [accepted EXCEPT ![t] = accepted[t] \cup {calls[t]}]
  <2>1. /\ queue' \in [Threads -> Seq(1 .. MaxCalls)] /\ accepted' \in [Threads -> SUBSET (1 .. MaxCalls)]
        /\ \A u \in Threads : Len(queue'[u]) <= QUEUE_SIZE
        /\ accepted'[t] = accepted[t] \cup {calls[t]}
        /\ \A u \in Threads : u # t => accepted'[u] = accepted[u]
    BY <1>3, <1>7
  <2>2. TypeOK'
    BY <1>0, <1>1, <1>4, <2>1, Zenon DEF TypeOK
  <2>3. Numbered'
    <3> SUFFICES ASSUME NEW u \in Threads
                 PROVE  /\ \A n \in accepted'[u] : n <= calls[u] /\ (pc'[u] # "idle" => n < calls[u])
                        /\ pc'[u] # "idle" => calls[u] > 0
      BY <1>1, Zenon DEF Numbered
    <3>1. CASE u # t
      BY <1>0, <1>4, <2>1, <3>1, Zenon DEF Numbered
    <3>2. CASE u = t
      <4>1. \A n \in accepted[t] : n <= calls[t]
        BY <1>0, Zenon DEF Numbered
      <4> QED BY <1>3, <1>4, <2>1, <3>2, <4>1
    <3> QED BY <3>1, <3>2, Zenon
  <2>4. Popped' = Popped
    BY <1>1, Zenon DEF Popped
  <2>5. RecordsConserved'
    <3>1. pc[t] # "idle"
      BY <1>1, Zenon
    <3>2. life # "dead" /\ life' # "dead"
      BY <1>1, <1>2, Zenon
    <3> QED BY <1>0, <1>7, <2>2, <2>4, <3>1, <3>2, PushConserves, Zenon
  <2>6. Snapshots'
    BY <1>1, <2>4, Zenon DEF LoggerInv, Snapshots
  <2> QED BY <1>5, <2>3, <2>5, <2>6, Zenon DEF LoggerInv
<1> QED BY <1>6, <1>7, Zenon DEF LogPush

\* The steps of _run and of the constructor and destructor that touch no record.
LEMMA LifeStep ==
    ASSUME LoggerInv,
           \/ Constructed \/ DestroyRequestStop
           \/ RunWhile \/ RunSnapshot \/ RunSnapshotTorn \/ DrainEnd
    PROVE  LoggerInv'
<1>0. TypeOK /\ Numbered /\ Buffered /\ Drained
  BY Zenon DEF LoggerInv, RecordsConserved
<1>1. UNCHANGED <<m_queues, queue, pc, calls, accepted, out_list, output>>
  BY Zenon DEF Constructed, DestroyRequestStop, RunWhile, RunSnapshot, RunSnapshotTorn, DrainEnd,
     clientVars, runVars
<1>2. Numbered'
  BY <1>0, <1>1, Zenon DEF Numbered
<1>3. SUFFICES TypeOK' /\ Buffered' /\ Drained'
  <2>1. /\ life # "dead" /\ life' # "dead"
        /\ q_snapshot' = q_snapshot \/ q_snapshot' = m_queues
    <3>1. cpc # "exited" \/ life # "dead"
      BY Zenon DEF Constructed, DestroyRequestStop, RunWhile, RunSnapshot, RunSnapshotTorn, DrainEnd, Draining
    <3>2. life # "dead"
      BY <3>1, Zenon DEF LoggerInv, Snapshots
    <3>3. life' \in {life, "running", "stopping", "aborted"} /\ (q_snapshot' = q_snapshot \/ q_snapshot' = m_queues)
      BY Zenon DEF Constructed, DestroyRequestStop, RunWhile, RunSnapshot, RunSnapshotTorn, DrainEnd, runVars
    <3> QED BY <3>2, <3>3, Zenon
  <2>2. \A t \in Range(q_snapshot) : t \in Range(m_queues)
    BY <2>1, Zenon DEF LoggerInv, Snapshots
  <2>3. /\ \A t \in Range(q_snapshot) : t \in Range(q_snapshot')
        /\ \A t \in Range(q_snapshot') : t \in Range(m_queues')
    BY <1>1, <2>1, <2>2, Zenon
  <2> QED BY <1>1, <1>2, <2>1, <2>3, ControlStep, Zenon
<1>4. /\ queue \in [Threads -> Seq(1 .. MaxCalls)] /\ q_snapshot \in Seq(Threads)
      /\ m_queues \in Seq(Threads) /\ cursor \in 1 .. Len(q_snapshot) + 1
  BY <1>0, Zenon DEF TypeOK
<1>5. CASE Constructed \/ DestroyRequestStop \/ RunSnapshotTorn
  <2>1. /\ UNCHANGED <<cpc, q_snapshot, cursor>>
        /\ \/ life = "constructing" /\ life' = "running"
           \/ life = "running" /\ life' = "stopping" /\ \A t \in Threads : pc[t] = "idle"
           \/ life = "constructing" /\ life' = "aborted"
    BY <1>5, Zenon DEF Constructed, DestroyRequestStop, RunSnapshotTorn, runVars
  <2>2. TypeOK'
    BY <1>0, <1>1, <2>1, Zenon DEF TypeOK
  <2>3. Buffered'
    BY <1>0, <1>1, <2>1, Zenon DEF Buffered
  <2>4. Drained'
    BY <1>0, <1>1, <2>1, Zenon DEF Drained
  <2> QED BY <2>2, <2>3, <2>4, Zenon
<1>6. CASE RunWhile
  <2>1. /\ cpc = "while" /\ cpc' = IF life = "stopping" THEN "lastdrain" ELSE "snapshot"
        /\ cursor' = 1 /\ UNCHANGED <<life, q_snapshot>>
    BY <1>6, Zenon DEF RunWhile
  <2>2. TypeOK'
    BY <1>0, <1>1, <1>4, <2>1 DEF TypeOK
  <2>3. Buffered'
    BY <1>0, <1>1, <2>1, Zenon DEF Buffered
  <2>4. Drained'
    BY <1>0, <1>1, <1>4, <2>1 DEF Drained
  <2> QED BY <2>2, <2>3, <2>4, ZenonT(40)
<1>7. CASE RunSnapshot
  <2>1. cpc = "snapshot" /\ cpc' = "drain" /\ q_snapshot' = m_queues /\ cursor' = 1 /\ UNCHANGED life
    BY <1>7, Zenon DEF RunSnapshot
  <2>2. TypeOK'
    BY <1>0, <1>1, <1>4, <2>1 DEF TypeOK
  <2>3. Buffered'
    BY <1>0, <1>1, <2>1, Zenon DEF Buffered
  <2>4. Drained'
    BY <1>0, <1>1, <2>1, Zenon DEF Drained
  <2> QED BY <2>2, <2>3, <2>4, Zenon
<1>8. CASE DrainEnd
  <2>1. /\ cpc \in {"drain", "lastdrain"} /\ cursor > Len(q_snapshot)
        /\ cpc' = IF cpc = "drain" THEN "while" ELSE "exited"
        /\ UNCHANGED <<life, q_snapshot, cursor>>
    BY <1>8, Zenon DEF DrainEnd, Draining
  <2>2. TypeOK'
    BY <1>0, <1>1, <2>1, Zenon DEF TypeOK
  <2>3. Buffered'
    BY <1>0, <1>1, <1>4, <2>1 DEF Buffered
  <2>4. Drained'
    BY <1>0, <1>1, <1>4, <2>1 DEF Drained
  <2> QED BY <2>2, <2>3, <2>4, Zenon
<1> QED BY <1>5, <1>6, <1>7, <1>8, Zenon

\* The end of the destructor: what is still queued is of threads that the last snapshot missed.
LEMMA JoinedStep ==
    ASSUME LoggerInv, DestroyJoined
    PROVE  LoggerInv'
<1>0. TypeOK /\ Numbered /\ Buffered /\ Drained /\ RecordsConserved /\ Snapshots
  BY Zenon DEF LoggerInv, RecordsConserved
<1>1. /\ life = "stopping" /\ life' = "dead" /\ cpc = "exited" /\ m_queues' = <<>>
      /\ queue' = [t \in Threads |-> <<>>]
      /\ UNCHANGED <<pc, calls, accepted, cpc, q_snapshot, cursor, out_list, output>>
  BY Zenon DEF DestroyJoined, clientVars, runVars
<1>2. /\ Popped' = Popped
      /\ \A t \in Threads : Missed(t)' <=> t \notin Range(q_snapshot)
      /\ \A t \in Threads : ~Missed(t)
  BY <1>1, Zenon DEF Popped, Missed
<1>3. /\ queue' \in [Threads -> Seq(1 .. MaxCalls)] /\ m_queues' \in Seq(Threads)
      /\ \A t \in Threads : Len(queue'[t]) <= QUEUE_SIZE /\ DOMAIN queue'[t] = {} /\ Range(queue'[t]) = {}
  BY <1>1 DEF Range
<1>4. TypeOK'
  BY <1>0, <1>1, <1>3, Zenon DEF TypeOK
<1>5. Numbered' /\ Buffered' /\ Snapshots'
  BY <1>0, <1>1, <1>2, Zenon DEF Numbered, Buffered, Snapshots
<1>6. Drained'
  <2>1. q_snapshot \in Seq(Threads)
    BY <1>0, Zenon DEF TypeOK
  <2>2. \A i \in DOMAIN q_snapshot : q_snapshot[i] \in Threads
    BY <2>1
  <2> QED BY <1>0, <1>1, <2>2, Zenon DEF Drained
<1>7. ASSUME NEW t \in Threads, NEW n \in 1 .. MaxCalls
      PROVE  n \in accepted[t] /\ t \in Range(q_snapshot) <=> <<t, n>> \in Range(Popped)
  <2>1. n \in accepted[t] <=> <<t, n>> \in Range(Popped) \/ n \in Range(queue[t])
    BY <1>0, <1>2, Zenon DEF RecordsConserved
  <2>2. t \in Range(q_snapshot) => Range(queue[t]) = {}
    <3>1. t \in Range(q_snapshot) => queue[t] = <<>>
      <4>1. \A i \in DOMAIN q_snapshot : queue[q_snapshot[i]] = <<>>
        BY <1>0, <1>1, Zenon DEF Drained
      <4> QED BY <4>1, Zenon DEF Range
    <3> QED BY <3>1 DEF Range
  <2>3. <<t, n>> \in Range(Popped) => t \in Range(q_snapshot)
    <3> SUFFICES ASSUME NEW i \in DOMAIN Popped, Popped[i] = <<t, n>> PROVE t \in Range(q_snapshot)
      BY Zenon DEF Range
    <3>1. Popped[i][1] = t
      OBVIOUS
    <3> QED BY <1>0, <3>1, Zenon DEF Snapshots
  <2> QED BY <2>1, <2>2, <2>3, Zenon
<1>8. RecordsConserved'
  BY <1>0, <1>1, <1>2, <1>3, <1>4, <1>7, ZenonT(40) DEF RecordsConserved
<1> QED BY <1>5, <1>6, <1>8, Zenon DEF LoggerInv

\* A pop that finds a record, with the flush if the buffer is full.
LEMMA DrainPopStep ==
    ASSUME LoggerInv, DrainPop
    PROVE  LoggerInv'
<1>0. TypeOK /\ Numbered /\ Buffered /\ Drained /\ RecordsConserved
  BY Zenon DEF LoggerInv, RecordsConserved
<1>1. PICK t \in Threads : t = q_snapshot[cursor]
  <2>1. /\ q_snapshot \in Seq(Threads) /\ cursor \in 1 .. Len(q_snapshot) + 1
        /\ cursor <= Len(q_snapshot)
    BY <1>0, Zenon DEF DrainPop, Draining, TypeOK
  <2>2. q_snapshot[cursor] \in Threads
    BY <2>1
  <2> QED BY <2>2, Zenon
<1>2. /\ cpc \in {"drain", "lastdrain"} /\ cursor <= Len(q_snapshot) /\ queue[t] # <<>>
      /\ queue' = [queue EXCEPT ![t] = Tail(queue[t])]
      /\ UNCHANGED <<life, m_queues, pc, calls, accepted, cpc, q_snapshot, cursor>>
  BY <1>1, Zenon DEF DrainPop, Draining, clientVars
<1>3. /\ queue \in [Threads -> Seq(1 .. MaxCalls)] /\ output \in Seq(Records) /\ out_list \in Seq(Records)
      /\ \A u \in Threads : Len(queue[u]) <= QUEUE_SIZE
      /\ q_snapshot \in Seq(Threads) /\ cursor \in 1 .. Len(q_snapshot) + 1
  BY <1>0, Zenon DEF TypeOK
<1>4. /\ Tail(queue[t]) \in Seq(1 .. MaxCalls) /\ Head(queue[t]) \in 1 .. MaxCalls
      /\ Len(Tail(queue[t])) <= QUEUE_SIZE
  <2>1. queue[t] \in Seq(1 .. MaxCalls) /\ Len(queue[t]) <= QUEUE_SIZE /\ Len(queue[t]) \in Nat
    BY <1>3
  <2>2. /\ Tail(queue[t]) \in Seq(1 .. MaxCalls) /\ Head(queue[t]) \in 1 .. MaxCalls
        /\ Len(Tail(queue[t])) = Len(queue[t]) - 1
    BY <1>2, <2>1, Shortened, Zenon
  <2> QED BY <2>1, <2>2
<1>5. PICK r \in Records : r = <<t, Head(queue[t])>>
  <2>1. <<t, Head(queue[t])>> \in Records
    BY <1>4, ZenonT(40) DEF Records
  <2> QED BY <2>1, Zenon
<1>6. \/ Len(Append(out_list, r)) >= OUT_LIST_SIZE /\ output' = output \o Append(out_list, r) /\ out_list' = <<>>
      \/ ~(Len(Append(out_list, r)) >= OUT_LIST_SIZE) /\ out_list' = Append(out_list, r) /\ output' = output
  BY <1>1, <1>5, Zenon DEF DrainPop, flush
<1>7. Append(out_list, r) \in Seq(Records) /\ Len(Append(out_list, r)) = Len(out_list) + 1
  BY <1>3
<1>8. /\ queue' \in [Threads -> Seq(1 .. MaxCalls)] /\ \A u \in Threads : Len(queue'[u]) <= QUEUE_SIZE
      /\ queue'[t] = Tail(queue[t]) /\ \A u \in Threads : u # t => queue'[u] = queue[u]
  BY <1>2, <1>3, <1>4, Zenon
<1>9. /\ output' \in Seq(Records) /\ out_list' \in Seq(Records) /\ Len(out_list') < OUT_LIST_SIZE
  <2>1. CASE output' = output \o Append(out_list, r) /\ out_list' = <<>>
    BY <1>3, <1>7, <2>1
  <2>2. CASE ~(Len(Append(out_list, r)) >= OUT_LIST_SIZE) /\ out_list' = Append(out_list, r) /\ output' = output
    BY <1>3, <1>7, <2>2
  <2> QED BY <1>6, <2>1, <2>2, Zenon
<1>10. TypeOK'
  BY <1>0, <1>2, <1>8, <1>9, Zenon DEF TypeOK
<1>11. Popped' = Append(Popped, r)
  <2>1. /\ output \o Append(out_list, r) = Append(output \o out_list, r)
        /\ (output \o Append(out_list, r)) \o <<>> = Append(output \o out_list, r)
    <3>1. output \in Seq(Records) /\ out_list \in Seq(Records) /\ r \in Records
      BY <1>3, Zenon
    <3>2. output \o Append(out_list, r) = Append(output \o out_list, r)
      BY <3>1, Concatenated, Zenon
    <3>3. (output \o Append(out_list, r)) \o <<>> = Append(output \o out_list, r)
      BY <3>1, Concatenated, Zenon
    <3> QED BY <3>2, <3>3, Zenon
  <2> QED BY <1>6, <2>1, ZenonT(40) DEF Popped
<1>12. RecordsConserved' /\ Snapshots'
  <2>1. life # "dead" /\ life' # "dead"
    BY <1>2, Zenon DEF LoggerInv, Snapshots
  <2>2. RecordsConserved'
    BY <1>0, <1>2, <1>5, <1>10, <1>11, <2>1, PopConserves, Zenon
  <2>3. Popped \in Seq(Records)
    BY <1>0, PoppedType, Zenon
  <2>4. t \in Range(q_snapshot) /\ r[1] = t
    <3>1. cursor \in DOMAIN q_snapshot
      BY <1>2, <1>3
    <3>2. t \in Range(q_snapshot)
      BY <1>1, <3>1, Zenon DEF Range
    <3>3. r[1] = t
      BY <1>5
    <3> QED BY <3>2, <3>3, Zenon
  <2>5. \A i \in DOMAIN Popped' : (i \in DOMAIN Popped /\ Popped'[i] = Popped[i]) \/ Popped'[i] = r
    BY <1>11, <2>3
  <2>6. \A i \in DOMAIN Popped' : Popped'[i][1] \in Range(q_snapshot)
    BY <2>4, <2>5, Zenon DEF LoggerInv, Snapshots
  <2> QED BY <1>2, <2>1, <2>2, <2>6, Zenon DEF LoggerInv, Snapshots
<1>13. Numbered'
  BY <1>0, <1>2, Zenon DEF Numbered
<1>14. Buffered'
  BY <1>2, Zenon DEF Buffered
<1>15. Drained'
  <2>1. ASSUME cpc = "lastdrain", NEW i \in DOMAIN q_snapshot, i < cursor
        PROVE  queue'[q_snapshot[i]] = <<>>
    <3>1. queue[q_snapshot[i]] = <<>> /\ q_snapshot[i] \in Threads
      BY <1>0, <1>3, <2>1 DEF Drained
    <3>2. q_snapshot[i] # t
      BY <1>2, <3>1, Zenon
    <3> QED BY <1>8, <3>1, <3>2, Zenon
  <2>2. cpc' # "exited"
    BY <1>2, Zenon
  <2> QED BY <1>0, <1>2, <2>1, <2>2, Zenon DEF Drained
<1> QED BY <1>12, <1>13, <1>14, <1>15, Zenon DEF LoggerInv

\* A pop that finds nothing: the flush, and the next queue.
LEMMA DrainNextStep ==
    ASSUME LoggerInv, DrainNext
    PROVE  LoggerInv'
<1>0. TypeOK /\ Numbered /\ Buffered /\ Drained /\ RecordsConserved
  BY Zenon DEF LoggerInv, RecordsConserved
<1>1. /\ cpc \in {"drain", "lastdrain"} /\ cursor <= Len(q_snapshot) /\ queue[q_snapshot[cursor]] = <<>>
      /\ cursor' = cursor + 1 /\ output' = output \o out_list /\ out_list' = <<>>
      /\ UNCHANGED <<life, m_queues, queue, pc, calls, accepted, cpc, q_snapshot>>
  BY Zenon DEF DrainNext, Draining, flush, clientVars
<1>2. /\ output \in Seq(Records) /\ out_list \in Seq(Records)
      /\ q_snapshot \in Seq(Threads) /\ cursor \in 1 .. Len(q_snapshot) + 1
  BY <1>0, Zenon DEF TypeOK
<1>3. /\ output' \in Seq(Records) /\ out_list' \in Seq(Records) /\ Len(out_list') < OUT_LIST_SIZE
      /\ cursor' \in 1 .. Len(q_snapshot) + 1
  BY <1>1, <1>2
<1>4. TypeOK'
  BY <1>0, <1>1, <1>3, Zenon DEF TypeOK
<1>5. Popped' = Popped
  <2>1. (output \o out_list) \o <<>> = output \o out_list
    BY <1>2
  <2> QED BY <1>1, <2>1, Zenon DEF Popped
<1>6. RecordsConserved' /\ Snapshots'
  <2>1. \A t \in Threads : Missed(t)' <=> Missed(t)
    BY <1>1, Zenon DEF Missed
  <2>2. Snapshots'
    BY <1>1, <1>5, Zenon DEF LoggerInv, Snapshots
  <2> QED BY <1>0, <1>1, <1>4, <1>5, <2>1, <2>2, NothingMoves, Zenon
<1>7. Numbered' /\ Buffered'
  BY <1>0, <1>1, Zenon DEF Numbered, Buffered
<1>8. Drained'
  <2>1. ASSUME cpc = "lastdrain", NEW i \in DOMAIN q_snapshot, i < cursor + 1
        PROVE  queue[q_snapshot[i]] = <<>>
    BY <1>0, <1>1, <1>2, <2>1 DEF Drained
  <2>2. cpc' # "exited"
    BY <1>1, Zenon
  <2> QED BY <1>0, <1>1, <2>1, <2>2, Zenon DEF Drained
<1> QED BY <1>6, <1>7, <1>8, Zenon DEF LoggerInv

--------------------------------------------------------------------------------
(* The theorems. *)

\* The invariant holds before the constructor's body.
LEMMA LoggerInitInv == Init => LoggerInv
<1> SUFFICES ASSUME Init PROVE LoggerInv
  OBVIOUS
<1>1. /\ queue = [t \in Threads |-> <<>>] /\ accepted = [t \in Threads |-> {}]
      /\ pc = [t \in Threads |-> "idle"] /\ calls = [t \in Threads |-> 0]
      /\ life = "constructing" /\ cpc = "while" /\ cursor = 1 /\ m_queues = <<>> /\ q_snapshot = <<>>
      /\ output = <<>> /\ out_list = <<>>
  BY Zenon DEF Init
<1>2. Popped = <<>> /\ Range(Popped) = {} /\ DOMAIN Popped = {}
  BY <1>1 DEF Popped, Range
<1>3. \A t \in Threads : Range(queue[t]) = {} /\ DOMAIN queue[t] = {} /\ accepted[t] = {} /\ pc[t] = "idle"
  BY <1>1 DEF Range
<1>4. TypeOK
  BY <1>1 DEF TypeOK
<1>5. RecordsConserved /\ Snapshots
  <2>1. \A t \in Range(q_snapshot) : t \in Range(m_queues)
    BY <1>1, Zenon
  <2> QED BY <1>1, <1>2, <1>3, <1>4, <2>1, Zenon DEF RecordsConserved, Snapshots, Missed
<1>6. Numbered
  BY <1>3, Zenon DEF Numbered
<1>7. Buffered /\ Drained
  BY <1>1, Zenon DEF Buffered, Drained
<1> QED BY <1>5, <1>6, <1>7, Zenon DEF LoggerInv

\* Every step keeps the invariant.
LEMMA LoggerStepInv == LoggerInv /\ [Next]_vars => LoggerInv'
<1> SUFFICES ASSUME LoggerInv, [Next]_vars PROVE LoggerInv'
  OBVIOUS
<1>1. ASSUME NEW t \in Threads, LogStep(t) PROVE LoggerInv'
  BY <1>1, CallStep, PushStep, Zenon DEF LogStep
<1>2. CASE Constructed \/ DestroyRequestStop \/ DestroyJoined \/ RunStep
  BY <1>2, LifeStep, JoinedStep, DrainPopStep, DrainNextStep, Zenon DEF RunStep
<1>3. CASE UNCHANGED vars
  <2>1. UNCHANGED <<life, m_queues, queue, pc, calls, accepted, cpc, q_snapshot, cursor, out_list, output>>
    BY <1>3, Zenon DEF vars, clientVars, runVars
  <2>2. TypeOK /\ Numbered /\ Buffered /\ Drained
    BY Zenon DEF LoggerInv, RecordsConserved
  <2>3. TypeOK'
    BY <2>1, <2>2, Zenon DEF TypeOK
  <2>4. Numbered' /\ Buffered' /\ Drained'
    BY <2>1, <2>2, Zenon DEF Numbered, Buffered, Drained
  <2> QED BY <2>1, <2>3, <2>4, ControlStep, Zenon
<1> QED BY <1>1, <1>2, <1>3, Zenon DEF Next

\* The invariant holds in every behaviour of the logger.
LEMMA LoggerInvariant == Spec => []LoggerInv
  BY LoggerInitInv, LoggerStepInv, PTL DEF Spec

(* Between push, the buffer and stdout no record is repeated or overtaken by  *)
(* one of its thread, and none is lost but those in the queues that the       *)
(* destructor deletes unread: all records of the threads that registered      *)
(* after the last snapshot, and no record of another thread.                  *)
THEOREM RecordsAccountedFor == Spec => []RecordsConserved
<1>1. LoggerInv => RecordsConserved
  BY Zenon DEF LoggerInv
<1> QED BY <1>1, LoggerInvariant, PTL

\* When the consumer thread has returned, stdout has all that the threads of its snapshot logged.
THEOREM LastDrainComplete == Spec => []SnapshotFlushed
<1>1. LoggerInv => SnapshotFlushed
  <2> SUFFICES ASSUME LoggerInv, cpc = "exited", NEW i \in DOMAIN q_snapshot,
                      NEW n \in accepted[q_snapshot[i]]
               PROVE  <<q_snapshot[i], n>> \in Range(output)
    BY Zenon DEF SnapshotFlushed, Range
  <2>1. TypeOK /\ Buffered /\ Drained
    BY Zenon DEF LoggerInv, RecordsConserved
  <2>2. PICK t \in Threads : t = q_snapshot[i]
    <3>1. q_snapshot \in Seq(Threads)
      BY <2>1, Zenon DEF TypeOK
    <3>2. q_snapshot[i] \in Threads
      BY <3>1
    <3> QED BY <3>2, Zenon
  <2>3. n \in 1 .. MaxCalls /\ n \in accepted[t]
    BY <2>1, <2>2, Zenon DEF TypeOK
  <2>4. Range(queue[t]) = {}
    <3>1. queue[t] = <<>>
      BY <2>1, <2>2, Zenon DEF Drained
    <3> QED BY <3>1 DEF Range
  <2>5. <<t, n>> \in Range(Popped)
    <3>1. ~Missed(t)
      BY <2>2, Zenon DEF Missed, Range
    <3> QED BY <2>3, <2>4, <3>1, Zenon DEF LoggerInv, RecordsConserved
  <2>6. Popped = output
    <3>1. out_list = <<>> /\ output \in Seq(Records)
      BY <2>1, Zenon DEF Buffered, TypeOK
    <3>2. output \o <<>> = output
      BY <3>1
    <3> QED BY <3>1, <3>2, Zenon DEF Popped
  <2> QED BY <2>2, <2>5, <2>6, Zenon
<1> QED BY <1>1, LoggerInvariant, PTL

HIDE LoggerSizes

--------------------------------------------------------------------------------
(******************************************************************************)
(* The blocks of BumpArena and BumpAllocator are sound for every size of the  *)
(* address space, every buffer, type and request.                             *)
(******************************************************************************)
USE SizeAssumption, BuffersAssumption, TypesAssumption, RequestsAssumption

--------------------------------------------------------------------------------
(* Arithmetic. *)

\* Quotient and remainder by d are unique.
LEMMA Remainder ==
    ASSUME NEW d \in Nat \ {0}, NEW k \in Int, NEW r \in 0 .. d - 1
    PROVE  (k * d + r) % d = r
<1> DEFINE n == k * d + r
           p == n \div d
           s == n % d
<1>1. n \in Int /\ p \in Int /\ s \in 0 .. d - 1 /\ n = p * d + s
  OBVIOUS
<1> HIDE DEF n, p, s
<1>2. (k - p) * d = s - r
  BY <1>1 DEF n
<1>3. k - p < 1
  <2> SUFFICES ASSUME k - p >= 1 PROVE FALSE
    BY <1>1
  <2>1. (k - p) * d >= d
    BY <1>1
  <2> QED BY <2>1, <1>1, <1>2
<1>4. k - p > -1
  <2> SUFFICES ASSUME k - p <= -1 PROVE FALSE
    BY <1>1
  <2>1. (k - p) * d <= -d
    BY <1>1
  <2> QED BY <2>1, <1>1, <1>2
<1>5. k = p
  BY <1>1, <1>3, <1>4
<1>6. QED
  BY <1>1, <1>5 DEF n, s

\* What is left without its remainder is a multiple.
LEMMA Multiple ==
    ASSUME NEW d \in Nat \ {0}, NEW x \in Nat
    PROVE  /\ x % d \in 0 .. d - 1 /\ x - (x % d) \in Nat
           /\ (x - (x % d)) % d = 0
           /\ x < d => x % d = x
<1> DEFINE p == x \div d
           s == x % d
<1>1. p \in Int /\ s \in 0 .. d - 1 /\ x = p * d + s
  OBVIOUS
<1>2. p >= 0
  <2> SUFFICES ASSUME p <= -1 PROVE FALSE
    BY <1>1
  <2>1. p * d <= -d
    BY <1>1
  <2> QED BY <2>1, <1>1
<1>9. 0 \in 0 .. d - 1
  OBVIOUS
<1>4. (p * d + 0) % d = 0
  BY <1>1, <1>9, Remainder, ZenonT(40)
<1>5. x < d => (0 * d + x) % d = x
  BY Remainder
<1>7. x < d => x % d = x
  BY <1>5
<1> HIDE DEF p, s
<1>3. x - s = p * d + 0 /\ p * d \in Nat
  BY <1>1, <1>2
<1>8. x - s \in Nat /\ (x - s) % d = 0
  BY <1>1, <1>3, <1>4
<1>6. QED
  BY <1>1, <1>7, <1>8, Zenon DEF s

\* Arithmetic modulo SizeLimit.
LEMMA WrapValues ==
    ASSUME NEW x \in Nat
    PROVE  /\ x < SizeLimit => Wrap(x) = x
           /\ SizeLimit <= x /\ x < 2 * SizeLimit => Wrap(x) = x - SizeLimit
<1>1. x < SizeLimit => (0 * SizeLimit + x) % SizeLimit = x
  BY Remainder
<1>2. SizeLimit <= x /\ x < 2 * SizeLimit =>
          (1 * SizeLimit + (x - SizeLimit)) % SizeLimit = x - SizeLimit
  BY Remainder
<1>3. QED
  BY <1>1, <1>2 DEF Wrap

\* Rounding up gives an aligned address not below p, or wraps to 0.
LEMMA RoundedUp ==
    ASSUME NEW p \in Sizes, NEW a \in Sizes \ {0}
    PROVE  /\ RoundUp(p, a) \in Nat
           /\ RoundUp(p, a) % a = 0
           /\ RoundUp(p, a) # 0 => p <= RoundUp(p, a) /\ RoundUp(p, a) < p + a
<1> DEFINE x == Wrap(p - 1 + a)
<1>1. p - 1 + a \in Nat /\ p - 1 + a < 2 * SizeLimit
  BY DEF Sizes
<1>2. x \in Nat /\ (x = p - 1 + a \/ x < a)
  BY <1>1, WrapValues DEF Sizes
<1> HIDE DEF x
<1>3. /\ x % a \in 0 .. a - 1 /\ x - (x % a) \in Nat
      /\ (x - (x % a)) % a = 0
      /\ x < a => x % a = x
  <2>1. a \in Nat \ {0}
    BY DEF Sizes
  <2>2. QED
    BY <1>2, <2>1, Multiple, ZenonT(40)
<1>4. RoundUp(p, a) = x - (x % a)
  BY ZenonT(40) DEF RoundUp, x
<1>6. \A y \in 0 .. a - 1 : x - y \in Nat /\ (x < a => y = x) =>
          (x - y # 0 => p <= x - y /\ x - y < p + a)
  BY <1>2 DEF Sizes
<1>5. QED
  BY <1>3, <1>4, <1>6, Zenon

\* nullptr is aligned already.
LEMMA RoundedNull ==
    ASSUME NEW a \in Sizes \ {0}
    PROVE  RoundUp(0, a) = 0
<1>1. 0 \in Sizes /\ a \in Nat \ {0}
  BY DEF Sizes
<1>2. RoundUp(0, a) \in Nat /\ RoundUp(0, a) % a = 0 /\ (RoundUp(0, a) # 0 => RoundUp(0, a) < 0 + a)
  BY <1>1, RoundedUp, ZenonT(40)
<1>3. RoundUp(0, a) < a => RoundUp(0, a) % a = RoundUp(0, a)
  BY <1>1, <1>2, Multiple, ZenonT(40)
<1>4. QED
  BY <1>1, <1>2, <1>3

\* std::align as the arena calls it: refused, or aligned and inside the rest of the buffer.
LEMMA Aligned ==
    ASSUME NEW p \in Sizes, NEW a \in Sizes \ {0}, NEW e \in Sizes, p <= e, NEW size \in Sizes,
           align(a, size, p, e - p) # 0
    PROVE  LET ptr == align(a, size, p, e - p)
           IN  p # 0 /\ ptr \in Sizes /\ ptr % a = 0 /\ p <= ptr /\ ptr + size <= e
<1> DEFINE r == RoundUp(p, a)
<1>1. r \in Nat /\ r % a = 0 /\ (r # 0 => p <= r /\ r < p + a)
  BY RoundedUp, Zenon
<1>5. align(a, size, p, e - p) =
          IF e - p < size \/ Wrap(r - p) > e - p - size THEN 0 ELSE r
  BY Zenon DEF align
<1> HIDE DEF r
<1>6. r - p \in Int /\ Wrap(r - p) \in Int
  BY <1>1 DEF Wrap, Sizes
<1>2. /\ align(a, size, p, e - p) = r /\ r # 0
      /\ size <= e - p /\ Wrap(r - p) <= e - p - size
  BY <1>5, <1>6 DEF Sizes
<1>3. Wrap(r - p) = r - p
  BY <1>1, <1>2, WrapValues DEF Sizes
<1>7. p # 0
  BY <1>2, RoundedNull, Zenon DEF r
<1>4. QED
  BY <1>1, <1>2, <1>3, <1>7 DEF Sizes

--------------------------------------------------------------------------------
(* The steps. *)

\* An allocation of size bytes that is refused, or served at or behind m_curr, keeps the blocks sound.
LEMMA ServeKeeps ==
    ASSUME BlocksSound, NEW T \in Types, NEW n \in Sizes, n * T[1] \in Sizes,
           NEW ptr, ptr = 0 \/ ptr = arena_allocate(n * T[1], T[2]),
           Bump(ptr, n * T[1]), blocks' = blocks \cup Block(ptr, T, n),
           m_begin' = m_begin, m_end' = m_end, trapped' \in BOOLEAN
    PROVE  BlocksSound'
<1> DEFINE size == n * T[1]
<1>1. size \in Sizes /\ T[1] \in Nat /\ T[2] \in Sizes \ {0}
  BY DEF Sizes
<1>2. /\ m_begin \in Sizes /\ m_end \in Sizes /\ m_curr \in Sizes
      /\ m_begin <= m_curr /\ m_curr <= m_end
  BY DEF BlocksSound, ArenaTypeOK, Sizes
<1>3. CASE ptr = 0
  BY <1>3, Zenon DEF BlocksSound, ArenaTypeOK, Bump, Block, Bytes
<1>4. CASE ptr # 0
  <2>1. m_curr # 0 /\ ptr \in Sizes /\ ptr % T[2] = 0 /\ m_curr <= ptr /\ ptr + size <= m_end
    BY <1>1, <1>2, <1>4, Aligned DEF arena_allocate, remaining
  <2>2. m_curr' = ptr + size
    BY <1>4, Zenon DEF Bump
  <2>3. m_curr' \in m_begin .. m_end /\ m_curr <= m_curr' /\ m_begin # 0
    BY <1>1, <1>2, <2>1, <2>2 DEF Sizes, BlocksSound, ArenaTypeOK
  <2> DEFINE new == [T |-> T, n |-> n, ptr |-> ptr]
  <2>4. blocks' = blocks \/ blocks' = blocks \cup {new}
    BY <1>4, Zenon DEF Block
  <2>5. ASSUME NEW b \in blocks
        PROVE  /\ b \in [T : Types, n : Sizes, ptr : Sizes]
               /\ b.ptr # 0 /\ b.ptr % b.T[2] = 0
               /\ m_begin <= b.ptr /\ b.ptr + b.n * b.T[1] <= m_curr
    BY <2>5, Zenon DEF BlocksSound, ArenaTypeOK
  <2>6. new \in [T : Types, n : Sizes, ptr : Sizes]
    BY <2>1, Zenon
  <2>7. ArenaTypeOK'
    BY <1>2, <2>3, <2>4, <2>5, <2>6, Zenon DEF ArenaTypeOK, Sizes
  <2>8. ASSUME NEW b \in blocks'
        PROVE  /\ b.ptr # 0 /\ b.ptr % b.T[2] = 0
               /\ m_begin' <= b.ptr /\ b.ptr + b.n * b.T[1] <= m_curr'
    <3>1. CASE b \in blocks
      <4>1. b.ptr + b.n * b.T[1] \in Int
        BY <2>5, <3>1 DEF Sizes
      <4>2. QED
        BY <1>2, <2>3, <2>5, <3>1, <4>1 DEF Sizes
    <3>2. CASE b = new
      BY <1>1, <1>2, <1>4, <2>1, <2>2, <3>2 DEF Sizes
    <3>3. QED
      BY <2>4, <2>8, <3>1, <3>2, Zenon
  <2>9. ASSUME NEW b \in blocks
        PROVE  Bytes(b) \cap Bytes(new) = {}
    <3>1. b.ptr \in Int /\ b.n * b.T[1] \in Int /\ b.ptr + b.n * b.T[1] <= m_curr
      BY <2>5, <2>9 DEF Sizes
    <3>2. QED
      BY <1>1, <1>2, <2>1, <3>1 DEF Bytes, Sizes
  <2>10. \A a, b \in blocks : a # b => Bytes(a) \cap Bytes(b) = {}
    BY Zenon DEF BlocksSound
  <2> HIDE DEF new
  <2>11. \A a, b \in blocks' : a # b => Bytes(a) \cap Bytes(b) = {}
    BY <2>4, <2>9, <2>10, Zenon
  <2>12. QED
    BY <2>7, <2>8, <2>11, ZenonT(40) DEF BlocksSound, Bytes
<1>5. QED
  BY <1>3, <1>4, ZenonT(40)

\* A request that does not exceed max() / sizeof(T) does not wrap.
LEMMA NoWrap ==
    ASSUME NEW T \in Types, NEW n \in Sizes, ~TooMany(n, T)
    PROVE  n * T[1] \in Sizes /\ Wrap(n * T[1]) = n * T[1]
<1> DEFINE d == T[1]
           k == (SizeLimit - 1) \div d
<1>1. d \in Nat \ {0} /\ n \in Nat
  BY DEF Sizes
<1>2. k \in Int /\ k * d <= SizeLimit - 1
  BY <1>1
<1>3. n <= k
  BY <1>1, <1>2 DEF TooMany
<1> HIDE DEF d, k
<1>4. (k - n) * d >= 0 /\ n * d \in Nat
  BY <1>1, <1>2, <1>3
<1>5. (k - n) * d = k * d - n * d
  BY <1>1, <1>2
<1>6. n * d \in Nat /\ n * d < SizeLimit
  BY <1>1, <1>2, <1>4, <1>5
<1>7. QED
  BY <1>6, WrapValues DEF d, Sizes

\* Every operation of the arena and of its allocators keeps the blocks sound.
LEMMA ArenaStep ==
    ASSUME BlocksSound, [ArenaNext]_arenaVars
    PROVE  BlocksSound'
<1>1. CASE UNCHANGED arenaVars
  BY <1>1, Zenon DEF BlocksSound, ArenaTypeOK, Bytes, arenaVars
<1>2. ASSUME NEW T \in Types, ArenaAllocate(T)
      PROVE  BlocksSound'
  <2>1. 1 \in Sizes /\ 1 * T[1] = T[1] /\ T[1] \in Sizes /\ trapped' \in BOOLEAN
    BY <1>2 DEF Sizes, ArenaAllocate, BlocksSound, ArenaTypeOK
  <2>2. QED
    BY <1>2, <2>1, ServeKeeps, Zenon DEF ArenaAllocate
<1>3. ASSUME NEW T \in Types, NEW n \in Requests, NEW a \in BOOLEAN, Allocate(a, T, n)
      PROVE  BlocksSound'
  <2>1. CASE a /\ ~TooMany(n, T)
    BY <1>3, <2>1, NoWrap, ServeKeeps, ZenonT(40) DEF Allocate
  <2>2. CASE ~(a /\ ~TooMany(n, T))
    BY <1>3, <2>2, Zenon DEF Allocate, BlocksSound, ArenaTypeOK, Bump, Block, Bytes
  <2>3. QED
    BY <2>1, <2>2, Zenon
<1>4. ASSUME NEW b \in blocks, Deallocate(b)
      PROVE  BlocksSound'
  BY <1>4, Zenon DEF Deallocate, BlocksSound, ArenaTypeOK, Bytes
<1>5. CASE ArenaReset
  BY <1>5 DEF ArenaReset, BlocksSound, ArenaTypeOK, Bytes, Sizes
<1>6. QED
  BY <1>1, <1>2, <1>3, <1>4, <1>5, ZenonT(40) DEF ArenaNext

(* BumpArena and BumpAllocator give out sound blocks: aligned, large enough   *)
(* for their n elements, inside the buffer and apart from each other, for     *)
(* every address space, buffer, type and number of elements.                  *)
THEOREM BlocksAreSound == ArenaSpec => []BlocksSound
<1>1. ASSUME ArenaInit PROVE BlocksSound
  <2>1. PICK b \in Buffers : m_begin = b[1] /\ m_curr = b[1] /\ m_end = b[1] + b[2]
    BY <1>1, ZenonT(40) DEF ArenaInit
  <2>2. blocks = {} /\ trapped \in BOOLEAN
    BY <1>1, ZenonT(40) DEF ArenaInit
  <2>3. b[1] \in Sizes /\ b[2] \in Sizes /\ b[1] + b[2] \in Sizes
    BY BuffersAssumption, Zenon
  <2>4. ArenaTypeOK
    BY <2>1, <2>2, <2>3 DEF ArenaTypeOK, Sizes
  <2>5. QED
    BY <2>2, <2>4, Zenon DEF BlocksSound
<1>2. QED
  BY <1>1, ArenaStep, PTL DEF ArenaSpec

--------------------------------------------------------------------------------
(* No room is wasted. *)

\* Different multiples of a are at least a apart.
LEMMA Apart ==
    ASSUME NEW a \in Nat \ {0}, NEW i \in Int, NEW j \in Int, i * a < j * a
    PROVE  i * a <= j * a - a
<1>1. (j - i) * a = j * a - i * a /\ (j - i) * a > 0
  OBVIOUS
<1>2. j - i >= 1
  <2> SUFFICES ASSUME j - i <= 0 PROVE FALSE
    OBVIOUS
  <2>1. (j - i) * a <= 0
    OBVIOUS
  <2> QED BY <2>1, <1>1
<1>3. (j - i - 1) * a >= 0 /\ (j - i - 1) * a = j * a - i * a - a
  BY <1>2
<1>4. QED
  BY <1>3

\* Multiples have a quotient.
LEMMA Quotient ==
    ASSUME NEW a \in Nat \ {0}, NEW x \in Nat, x % a = 0
    PROVE  \E i \in Int : x = i * a
<1>1. x \div a \in Int /\ x = (x \div a) * a + (x % a)
  OBVIOUS
<1>2. x = (x \div a) * a
  BY <1>1
<1>3. QED
  BY <1>1, <1>2, ZenonT(40)

\* The rounded address is the lowest aligned one from p on, if there is one in the address space.
LEMMA RoundedLeast ==
    ASSUME NEW p \in Sizes \ {0}, NEW a \in Sizes \ {0}, SizeLimit % a = 0,
           NEW y \in Sizes, p <= y, y % a = 0
    PROVE  RoundUp(p, a) # 0 /\ RoundUp(p, a) <= y
<1>1. a \in Nat \ {0} /\ y \in Nat /\ SizeLimit \in Nat /\ p \in Nat \ {0} /\ y < SizeLimit
  BY DEF Sizes
<1>2. PICK j \in Int : y = j * a
  BY <1>1, Quotient, ZenonT(40)
<1>3. PICK s \in Int : SizeLimit = s * a
  BY <1>1, Quotient, ZenonT(40)
<1>4. y <= SizeLimit - a
  <2>1. j * a < s * a
    BY <1>1, <1>2, <1>3, Zenon
  <2>2. j * a <= s * a - a
    BY <1>1, <2>1, Apart, ZenonT(40)
  <2>3. QED
    BY <1>2, <1>3, <2>2, Zenon
<1> DEFINE x == p - 1 + a
<1>5. x \in Nat /\ x < SizeLimit
  BY <1>1, <1>4
<1>6. RoundUp(p, a) = x - (x % a)
  BY <1>5, WrapValues, Zenon DEF RoundUp
<1> HIDE DEF x
<1>7. x % a \in 0 .. a - 1 /\ x - (x % a) \in Nat /\ (x - (x % a)) % a = 0
  BY <1>1, <1>5, Multiple, ZenonT(40)
<1>8. PICK i \in Int : x - (x % a) = i * a
  BY <1>1, <1>7, Quotient, ZenonT(40)
<1>9. i * a <= y
  <2> SUFFICES ASSUME j * a < i * a PROVE FALSE
    BY <1>1, <1>2, <1>7, <1>8
  <2>1. j * a <= i * a - a
    BY <1>1, Apart, ZenonT(40)
  <2>2. \A r \in 0 .. a - 1 : x - r - a < p
    BY <1>1 DEF x
  <2>3. i * a - a < p
    BY <1>1, <1>5, <1>7, <1>8, <2>2, ZenonT(40)
  <2> QED BY <1>1, <1>2, <1>7, <1>8, <2>1, <2>3
<1>10. x - (x % a) # 0
  <2>1. \A r \in 0 .. a - 1 : x - r # 0
    BY <1>1 DEF x
  <2>2. QED
    BY <1>7, <2>1, Zenon
<1>11. QED
  BY <1>6, <1>8, <1>9, <1>10, ZenonT(40)

\* A request that fits somewhere is served at the lowest address where it fits.
LEMMA ServedLowest ==
    ASSUME BlocksSound, NEW T \in Types, NEW size \in Sizes,
           NEW y \in Fits(size, T[2])
    PROVE  LET ptr == arena_allocate(size, T[2])
           IN  ptr \in Fits(size, T[2]) /\ ptr <= y
<1> DEFINE a == T[2]
           r == RoundUp(m_curr, a)
<1>1. a \in Sizes \ {0} /\ SizeLimit % a = 0
  OBVIOUS
<1>2. m_begin \in Sizes /\ m_end \in Sizes /\ m_curr \in Sizes /\ m_begin <= m_curr /\ m_curr <= m_end
  BY DEF BlocksSound, ArenaTypeOK, Sizes
<1>3. /\ y \in Sizes /\ m_curr <= y /\ y % a = 0 /\ y + size <= m_end
      /\ m_begin # 0 /\ m_curr \in Sizes \ {0}
  BY <1>2 DEF Fits, Sizes
<1> HIDE DEF a
<1>4. r # 0 /\ r <= y
  BY <1>1, <1>3, RoundedLeast, ZenonT(40)
<1>5. r \in Nat /\ r % a = 0 /\ m_curr <= r
  BY <1>1, <1>2, <1>4, RoundedUp, ZenonT(40)
<1>6. Wrap(r - m_curr) = r - m_curr
  <2>1. r - m_curr \in Nat /\ r - m_curr < SizeLimit
    BY <1>3, <1>4, <1>5 DEF Sizes
  <2>2. QED
    BY <2>1, WrapValues, ZenonT(40)
<1>7. arena_allocate(size, a) =
          IF m_end - m_curr < size \/ Wrap(r - m_curr) > m_end - m_curr - size THEN 0 ELSE r
  BY ZenonT(40) DEF arena_allocate, align, remaining
<1> HIDE DEF r
<1>8. arena_allocate(size, a) = r
  BY <1>2, <1>3, <1>4, <1>5, <1>6, <1>7 DEF Sizes
<1>9. r \in m_curr .. m_end /\ r + size <= m_end
  BY <1>2, <1>3, <1>4, <1>5 DEF Sizes
<1>10. QED
  BY <1>3, <1>4, <1>5, <1>8, <1>9, Zenon DEF Fits, a

(* BumpArena serves exactly what fits: a request is refused only if it fits   *)
(* nowhere in the rest of the buffer, and served at the lowest address at     *)
(* which it fits otherwise, also at the top of the address space, where the   *)
(* rounding wraps.                                                            *)
THEOREM ServesExactly == ArenaSpec => []ServedExactly
<1>1. ASSUME BlocksSound PROVE ServedExactly
  <2>1. SUFFICES ASSUME NEW T \in Types, NEW n \in Requests, n * T[1] < SizeLimit
                 PROVE  /\ arena_allocate(n * T[1], T[2]) =
                              IF Fits(n * T[1], T[2]) = {} THEN 0 ELSE Min(Fits(n * T[1], T[2]))
                        /\ full /\ n > 0 => Fits(n * T[1], T[2]) = {}
    BY ZenonT(40) DEF ServedExactly
  <2> DEFINE size == n * T[1]
             fits == Fits(size, T[2])
             ptr == arena_allocate(size, T[2])
  <2>2. size \in Sizes /\ T[2] \in Sizes \ {0} /\ (n > 0 => size > 0)
    BY <2>1 DEF Sizes
  <2>3. m_begin \in Sizes /\ m_end \in Sizes /\ m_curr \in Sizes /\ m_begin <= m_curr /\ m_curr <= m_end
        /\ (m_begin = 0 => m_curr = 0)
    BY <1>1 DEF BlocksSound, ArenaTypeOK, Sizes
  <2> HIDE DEF size
  <2>4. fits = {} => ptr = 0
    <3>1. SUFFICES ASSUME ptr # 0 PROVE ptr \in fits
      OBVIOUS
    <3>2. m_curr # 0 /\ ptr \in Sizes /\ ptr % T[2] = 0 /\ m_curr <= ptr /\ ptr + size <= m_end
      BY <2>2, <2>3, <3>1, Aligned DEF arena_allocate, remaining
    <3>3. QED
      BY <2>2, <2>3, <3>2 DEF Fits, Sizes
  <2>5. fits # {} => ptr = Min(fits)
    <3>1. SUFFICES ASSUME NEW z \in fits PROVE ptr = Min(fits)
      OBVIOUS
    <3>2. ptr \in fits /\ \A y \in fits : ptr <= y
      BY <1>1, <2>2, <3>1, ServedLowest, Zenon
    <3>3. \A y \in fits : y \in Int
      BY <2>3 DEF Fits, Sizes
    <3> HIDE DEF fits, ptr
    <3>4. Min(fits) \in fits /\ \A y \in fits : Min(fits) <= y
      BY <3>2, ZenonT(40) DEF Min
    <3>5. QED
      BY <3>2, <3>3, <3>4
  <2>6. full /\ n > 0 => fits = {}
    BY <2>2, <2>3 DEF full, Fits, Sizes
  <2>7. QED
    BY <2>4, <2>5, <2>6, Zenon DEF size
<1>2. QED
  BY <1>1, BlocksAreSound, PTL
================================================================================
