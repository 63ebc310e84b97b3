------------------------------- MODULE UniquePtr -------------------------------
(******************************************************************************)
(* fiah::UniquePtr<T, Deleter> (src/include/fiah/handle/UniquePtr.hh), used   *)
(* by one thread.  Some handles are members of managed objects, as the next   *)
(* of a list node is: they are constructed with their object and destroyed    *)
(* with it, which deletes what they own in turn.                              *)
(*                                                                            *)
(* A deleter has state, or not; if it has, a deleter that was moved from is   *)
(* as it was (a function pointer) or MovedFrom (an empty std::function), and  *)
(* reading the deleter of a destroyed handle ends the behaviour with fault.   *)
(*                                                                            *)
(* The clients obey the rules of the class: a raw pointer is given to one     *)
(* handle only, no object comes to own itself, and a handle is not used once  *)
(* its object is gone.                                                        *)
(******************************************************************************)
CONSTANTS
    Handles, Objects, Deleters,
    MemberOf,    \* the object that each member handle is part of
    Default,     \* a default-constructed deleter
    MovedFrom, Null, Absent

ASSUME MemberAssumption ==
    /\ DOMAIN MemberOf \subseteq Handles
    /\ \A h \in DOMAIN MemberOf : MemberOf[h] \in Objects
ASSUME DeleterAssumption == Default \in Deleters /\ MovedFrom \notin Deleters

\* The values of a handle that exists.
PtrValues == [ptr : Objects \cup {Null}, del : Deleters \cup {MovedFrom}]

ASSUME NullAssumption == Null \notin Objects /\ Absent \notin PtrValues

VARIABLES
    handle,    \* m_ptr and m_deleter of each handle; Absent where there is none
    stateful,  \* whether Deleter has state
    live,      \* the objects that exist
    raw,       \* those of them that the client holds by a raw pointer
    adopted,   \* the deleter with which each object was handed over
    deleted,   \* the objects that the last call deleted, each with its deleter
    fault

ptrVars == <<handle, stateful, live, raw, adopted, deleted, fault>>

Exists(h) == ~fault /\ handle[h] # Absent

\* The handles inside the objects of S.
Inside(S) == {h \in DOMAIN MemberOf : MemberOf[h] \in S}

\* The handles of hs that are inside the objects of S own objects of S only.
Closed(hs, S) == \A h \in Inside(S) : hs[h] # Absent => hs[h].ptr \in S \cup {Null}

\* What the handles of hs delete together with object o: o and what it owns in turn.
Doomed(hs, o) ==
    {x \in Objects : o # Null /\ \A S \in SUBSET Objects : o \in S /\ Closed(hs, S) => x \in S}

\* Handle h is part of what object o owns: giving it o would make a cycle.
Owns(o, h) == h \in Inside(Doomed(handle, o))

(* The end of a call that left the handles as hs and has to delete o, if o is *)
(* not Null, by deleter d.                                                    *)
Finish(hs, o, d) ==
    LET gone == Doomed(hs, o)
        members == Inside(gone)
    IN  /\ handle' = [h \in Handles |-> IF h \in members THEN Absent ELSE hs[h]]
        /\ live' = live \ gone
        /\ deleted' = {<<x, IF x = o THEN d ELSE hs[CHOOSE h \in members : hs[h].ptr = x].del>> :
                          x \in gone}
        /\ UNCHANGED stateful

PtrInit ==
    /\ handle = [h \in Handles |-> Absent]
    /\ stateful \in BOOLEAN
    /\ live = {} /\ raw = {} /\ deleted = {}
    /\ adopted = [o \in Objects |-> Default]
    /\ fault = FALSE

Empty == [ptr |-> Null, del |-> Default]

DeleterValues == IF stateful THEN Deleters ELSE {Default}

\* What moving from deleter d may leave.
AfterMove(d) == IF stateful THEN {d, MovedFrom} ELSE {d}

--------------------------------------------------------------------------------
\* A new expression of the client, which constructs the object's member handles.
New(o) ==
    /\ ~fault /\ o \notin live
    /\ live' = live \cup {o} /\ raw' = raw \cup {o}
    /\ handle' = [h \in Handles |-> IF h \in Inside({o}) THEN Empty ELSE handle[h]]
    /\ deleted' = {}
    /\ UNCHANGED <<stateful, adopted, fault>>

\* The default constructor and that from nullptr.
ConstructNull(h) ==
    /\ ~fault /\ handle[h] = Absent /\ h \notin DOMAIN MemberOf
    /\ Finish([handle EXCEPT ![h] = Empty], Null, Default)
    /\ UNCHANGED <<raw, adopted, fault>>

\* The constructors from a pointer, without or with a deleter; make_unique.
Construct(h, o, d) ==
    /\ ~fault /\ handle[h] = Absent /\ h \notin DOMAIN MemberOf
    /\ o \in raw
    /\ Finish([handle EXCEPT ![h] = [ptr |-> o, del |-> d]], Null, Default)
    /\ raw' = raw \ {o}
    /\ adopted' = [adopted EXCEPT ![o] = d]
    /\ UNCHANGED fault

\* The move constructor, and the converting one.
MoveConstruct(h, g) ==
    /\ Exists(g) /\ handle[h] = Absent /\ h \notin DOMAIN MemberOf
    /\ \E d \in AfterMove(handle[g].del) :
          Finish([handle EXCEPT ![h] = handle[g], ![g] = [ptr |-> Null, del |-> d]], Null, Default)
    /\ UNCHANGED <<raw, adopted, fault>>

\* Mutant: the deleter is assigned before the old object is deleted.
MoveAssignEager(h, g) ==
    /\ Exists(h) /\ Exists(g) /\ h # g
    /\ ~Owns(handle[g].ptr, h) /\ g \notin Inside(Doomed(handle, handle[h].ptr))
    /\ \E d \in AfterMove(handle[g].del) :
          Finish([handle EXCEPT ![h] = handle[g], ![g] = [ptr |-> Null, del |-> d]],
                 handle[h].ptr, handle[g].del)
    /\ UNCHANGED <<raw, adopted, fault>>

(* The move assignments: reset(other.release()), then the deleter.  Where     *)
(* other is part of the object that reset deletes, as in p = move(p->next),   *)
(* its deleter is read after it was destroyed; a stateless one has nothing    *)
(* to read.                                                                   *)
MoveAssign(h, g) ==
    LET old == handle[h].ptr
        released == [handle EXCEPT ![g].ptr = Null, ![h].ptr = handle[g].ptr]
        dangling == g \in Inside(Doomed(released, old))
    IN  /\ Exists(h) /\ Exists(g) /\ h # g
        /\ ~Owns(handle[g].ptr, h)
        /\ \E d \in AfterMove(handle[g].del) :
              Finish([released EXCEPT ![h].del = handle[g].del, ![g].del = d], old, handle[h].del)
        /\ fault' = (dangling /\ stateful)
        /\ UNCHANGED <<raw, adopted>>

\* Mutant: m_ptr is not cleared.
releaseKeeping(h) ==
    /\ Exists(h) /\ handle[h].ptr # Null
    /\ raw' = raw \cup {handle[h].ptr}
    /\ Finish(handle, Null, Default)
    /\ UNCHANGED <<adopted, fault>>

release(h) ==
    /\ Exists(h) /\ handle[h].ptr # Null
    /\ raw' = raw \cup {handle[h].ptr}
    /\ Finish([handle EXCEPT ![h].ptr = Null], Null, Default)
    /\ UNCHANGED <<adopted, fault>>

\* reset() and the assignment of nullptr.
reset(h) ==
    /\ Exists(h)
    /\ Finish([handle EXCEPT ![h].ptr = Null], handle[h].ptr, handle[h].del)
    /\ UNCHANGED <<raw, adopted, fault>>

\* reset(ptr): the deleter stays.
ResetTo(h, o) ==
    /\ Exists(h) /\ o \in raw /\ ~Owns(o, h)
    /\ Finish([handle EXCEPT ![h].ptr = o], handle[h].ptr, handle[h].del)
    /\ raw' = raw \ {o}
    /\ adopted' = [adopted EXCEPT ![o] = handle[h].del]
    /\ UNCHANGED fault

swap(h, g) ==
    /\ Exists(h) /\ Exists(g)
    /\ ~Owns(handle[g].ptr, h) /\ ~Owns(handle[h].ptr, g)
    /\ Finish([handle EXCEPT ![h] = handle[g], ![g] = handle[h]], Null, Default)
    /\ UNCHANGED <<raw, adopted, fault>>

\* ~UniquePtr of a handle that is not a member.
Destroy(h) ==
    /\ Exists(h) /\ h \notin DOMAIN MemberOf
    /\ Finish([handle EXCEPT ![h] = Absent], handle[h].ptr, handle[h].del)
    /\ UNCHANGED <<raw, adopted, fault>>

--------------------------------------------------------------------------------
PtrNext ==
    \/ \E o \in Objects : New(o)
    \/ \E h \in Handles :
          \/ ConstructNull(h) \/ release(h) \/ reset(h) \/ Destroy(h)
          \/ \E o \in Objects : ResetTo(h, o) \/ \E d \in DeleterValues : Construct(h, o, d)
          \/ \E g \in Handles : MoveConstruct(h, g) \/ MoveAssign(h, g) \/ swap(h, g)

PtrSpec == PtrInit /\ [][PtrNext]_ptrVars

--------------------------------------------------------------------------------
(* Unique ownership: every object that exists is owned by exactly one handle  *)
(* or by the client who released it, an object that was deleted by none; so   *)
(* none leaks and none is deleted twice, along chains of objects that own     *)
(* each other as well.  A member handle exists as long as its object.         *)
OneOwner ==
    /\ \A o \in Objects :
          LET owners == {h \in Handles : handle[h] # Absent /\ handle[h].ptr = o}
          IN  IF o \in live \ raw THEN \E h \in Handles : owners = {h}
              ELSE owners = {} /\ (o \in raw => o \in live)
    /\ \A h \in DOMAIN MemberOf : handle[h] # Absent <=> MemberOf[h] \in live

(* An object is deleted by the deleter that it was handed over with, however  *)
(* often it was moved or swapped from handle to handle since, and not by that *)
(* of an object which replaces it.                                            *)
OwnDeleter ==
    /\ \A x \in deleted : x[2] = adopted[x[1]]
    /\ \A h \in Handles : handle[h] # Absent /\ handle[h].ptr # Null =>
          fault \/ handle[h].del = adopted[handle[h].ptr]
================================================================================
