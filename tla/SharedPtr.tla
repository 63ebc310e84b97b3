------------------------------- MODULE SharedPtr -------------------------------
(******************************************************************************)
(* fiah::shared_ptr and its control_block                                     *)
(* (src/include/fiah/handle/SharedPtr.hh), used by several threads.           *)
(*                                                                            *)
(* A thread's call is a sequence of steps, one for each access to memory that *)
(* another thread may share: the fetch_sub of release, the deletion of the    *)
(* object and of the control block by the thread that took the count to zero, *)
(* the stores to the handle, and the fetch_add of add_ref.  The read-modify-  *)
(* write operations are acq_rel, which orders all of them.                    *)
(*                                                                            *)
(* The clients obey the rules of the class: calls that run at the same time   *)
(* may read one handle but not change it, a raw pointer is given to only one  *)
(* handle, and no handle is a member of a managed object.  Memory is reused:  *)
(* Blocks and Objects are the addresses at which operator new may place them, *)
(* and an allocation waits for a free one.                                    *)
(******************************************************************************)
EXTENDS Integers, FiniteSets

CONSTANTS Threads, Handles, Blocks, Objects, Null, Absent

ASSUME NullAssumption ==
    Null \notin Blocks \cup Objects /\ Absent \notin Blocks \cup Objects /\ Absent # Null
ASSUME HandlesAssumption ==
    IsFiniteSet(Handles) /\ Handles \cap (Objects \cup {Null, Absent}) = {}

VARIABLES
    p_obj, p_cb,         \* the members of each handle; Absent where there is no handle
    m_count, cb_obj,     \* the members of each control block
    block, object,       \* the addresses in use: "live" or "free"
    call                 \* each thread's call: its operation, operands and next step

handleVars == <<p_obj, p_cb>>
blockVars == <<m_count, cb_obj, block>>
vars == <<handleVars, blockVars, object, call>>

Idle == [op |-> "none", h |-> Absent, from |-> Absent, step |-> "idle"]

Init ==
    /\ p_obj = [h \in Handles |-> Absent]
    /\ p_cb = [h \in Handles |-> Absent]
    /\ m_count = [b \in Blocks |-> 0]
    /\ cb_obj = [b \in Blocks |-> Null]
    /\ block = [b \in Blocks |-> "free"]
    /\ object = [o \in Objects |-> "free"]
    /\ call = [t \in Threads |-> Idle]

--------------------------------------------------------------------------------
\* The handles that a call in progress writes, and those that it reads.
Writes(c) == {c.h} \cup (IF c.op \in {"move", "moveconstruct"} THEN {c.from} ELSE {})
Reads(c) == {c.h, c.from}

\* No call in progress uses a handle in a way that conflicts with c.
Permitted(t, c) ==
    \A u \in Threads \ {t} : call[u] # Idle =>
        /\ Writes(c) \cap Reads(call[u]) = {}
        /\ Writes(call[u]) \cap Reads(c) = {}

\* c starts: it first releases the block that its handle has, unless it constructs the handle.
Begin(t, op, h, from) ==
    LET c == [op |-> op, h |-> h, from |-> from,
              step |-> IF p_cb[h] \in Blocks THEN "release" ELSE "store"]
    IN  /\ call[t] = Idle
        /\ Permitted(t, c)
        /\ call' = [call EXCEPT ![t] = c]
        /\ UNCHANGED <<handleVars, blockVars>>

BeginPlain(t, op, h, from) == Begin(t, op, h, from) /\ UNCHANGED object

\* The operand is nullptr, or a new object of the client's.
BeginPointer(t, op, h) ==
    \/ BeginPlain(t, op, h, Null)
    \/ \E o \in Objects :
          object[o] = "free" /\ object' = [object EXCEPT ![o] = "live"] /\ Begin(t, op, h, o)

Construct(t, h) ==
    /\ p_cb[h] = Absent
    /\ \/ BeginPlain(t, "default", h, Absent)
       \/ BeginPointer(t, "adopt", h)
       \/ \E g \in Handles \ {h}, op \in {"copyconstruct", "moveconstruct"} :
             p_cb[g] # Absent /\ BeginPlain(t, op, h, g)

\* An assignment to itself changes nothing.
Assign(t, h) ==
    /\ p_cb[h] # Absent
    /\ \E g \in Handles \ {h}, op \in {"copy", "move"} :
          p_cb[g] # Absent /\ BeginPlain(t, op, h, g)

Reset(t, h) ==
    /\ p_cb[h] # Absent
    /\ \/ \E op \in {"reset", "destroy"} : BeginPlain(t, op, h, Absent)
       \/ BeginPointer(t, "resetto", h)

--------------------------------------------------------------------------------
At(t, step) == call[t].step = step
Goto(t, step) == call' = [call EXCEPT ![t].step = step]
Return(t) == call' = [call EXCEPT ![t] = Idle]

\* Mutant: the last but one reference ends the block.
releaseEarly(t) ==
    LET b == p_cb[call[t].h] IN
    /\ At(t, "release")
    /\ m_count' = [m_count EXCEPT ![b] = @ - 1]
    /\ Goto(t, IF m_count[b] <= 2 THEN "delete" ELSE "store")
    /\ UNCHANGED <<handleVars, cb_obj, block, object>>

\* control_block::release: the fetch_sub,
release(t) ==
    LET b == p_cb[call[t].h] IN
    /\ At(t, "release")
    /\ m_count' = [m_count EXCEPT ![b] = @ - 1]
    /\ Goto(t, IF m_count[b] = 1 THEN "delete" ELSE "store")
    /\ UNCHANGED <<handleVars, cb_obj, block, object>>

\* the deleter, where the block has an object,
releaseObject(t) ==
    LET b == p_cb[call[t].h] IN
    /\ At(t, "delete")
    /\ IF cb_obj[b] = Null
       THEN UNCHANGED <<cb_obj, object>>
       ELSE /\ object' = [object EXCEPT ![cb_obj[b]] = "free"]
            /\ cb_obj' = [cb_obj EXCEPT ![b] = Null]
    /\ Goto(t, "free")
    /\ UNCHANGED <<handleVars, m_count, block>>

\* and the end of the block itself.
releaseBlock(t) ==
    /\ At(t, "free")
    /\ block' = [block EXCEPT ![p_cb[call[t].h]] = "free"]
    /\ Goto(t, "store")
    /\ UNCHANGED <<handleVars, m_count, cb_obj, object>>

SetHandle(h, o, b) ==
    /\ p_obj' = [p_obj EXCEPT ![h] = o]
    /\ p_cb' = [p_cb EXCEPT ![h] = b]

\* The default constructor, reset(), ~shared_ptr(), and reset(nullptr, d).
StoreNull(t) ==
    LET c == call[t] IN
    /\ At(t, "store")
    /\ c.op \in {"default", "reset", "destroy"} \/ (c.op = "resetto" /\ c.from = Null)
    /\ LET v == IF c.op = "destroy" THEN Absent ELSE Null IN SetHandle(c.h, v, v)
    /\ Return(t)
    /\ UNCHANGED <<blockVars, object>>

\* A new control block for the pointer; the constructor makes one for nullptr too.
StorePointer(t) ==
    LET c == call[t] IN
    /\ At(t, "store")
    /\ c.op = "adopt" \/ (c.op = "resetto" /\ c.from # Null)
    /\ \E b \in Blocks :
          /\ block[b] = "free"
          /\ SetHandle(c.h, c.from, b)
          /\ m_count' = [m_count EXCEPT ![b] = 1]
          /\ cb_obj' = [cb_obj EXCEPT ![b] = c.from]
          /\ block' = [block EXCEPT ![b] = "live"]
    /\ Return(t)
    /\ UNCHANGED object

\* The copy constructor and the copy assignment.
StoreCopy(t) ==
    LET c == call[t] IN
    /\ At(t, "store") /\ c.op \in {"copyconstruct", "copy"}
    /\ SetHandle(c.h, p_obj[c.from], p_cb[c.from])
    /\ IF p_cb[c.from] = Null THEN Return(t) ELSE Goto(t, "addref")
    /\ UNCHANGED <<blockVars, object>>

\* Mutant: the source keeps its pointers.
StoreMoveCopy(t) ==
    LET c == call[t] IN
    /\ At(t, "store") /\ c.op \in {"moveconstruct", "move"}
    /\ SetHandle(c.h, p_obj[c.from], p_cb[c.from])
    /\ Return(t)
    /\ UNCHANGED <<blockVars, object>>

\* The move constructor and the move assignment.
StoreMove(t) ==
    LET c == call[t] IN
    /\ At(t, "store") /\ c.op \in {"moveconstruct", "move"}
    /\ p_obj' = [p_obj EXCEPT ![c.h] = p_obj[c.from], ![c.from] = Null]
    /\ p_cb' = [p_cb EXCEPT ![c.h] = p_cb[c.from], ![c.from] = Null]
    /\ Return(t)
    /\ UNCHANGED <<blockVars, object>>

add_ref(t) ==
    /\ At(t, "addref")
    /\ m_count' = [m_count EXCEPT ![p_cb[call[t].h]] = @ + 1]
    /\ Return(t)
    /\ UNCHANGED <<handleVars, cb_obj, block, object>>

--------------------------------------------------------------------------------
Step(t) ==
    \/ release(t) \/ releaseObject(t) \/ releaseBlock(t)
    \/ StoreNull(t) \/ StorePointer(t) \/ StoreCopy(t) \/ StoreMove(t) \/ add_ref(t)

Next ==
    \E t \in Threads :
        Step(t) \/ \E h \in Handles : Construct(t, h) \/ Assign(t, h) \/ Reset(t, h)

Spec == Init /\ [][Next]_vars

--------------------------------------------------------------------------------
Calls == [op : {"default", "adopt", "copyconstruct", "moveconstruct", "copy", "move",
                "reset", "resetto", "destroy"},
          h : Handles,
          from : Handles \cup Objects \cup {Null, Absent},
          step : {"release", "delete", "free", "store", "addref"}]

(* Every variable has a value of its type; m_count, a std::uint64_t, does not *)
(* wrap below zero.                                                           *)
TypeOK ==
    /\ p_obj \in [Handles -> Objects \cup {Null, Absent}]
    /\ p_cb \in [Handles -> Blocks \cup {Null, Absent}]
    /\ m_count \in [Blocks -> Nat]
    /\ cb_obj \in [Blocks -> Objects \cup {Null}]
    /\ block \in [Blocks -> {"free", "live"}]
    /\ object \in [Objects -> {"free", "live"}]
    /\ call \in [Threads -> Calls \cup {Idle}]

\* h points to its block without being counted: its call has released it or is to add it.
Uncounted(h) ==
    \E t \in Threads : call[t].h = h /\ call[t].step \in {"delete", "free", "store", "addref"}

Counted(b) == {h \in Handles : p_cb[h] = b /\ ~Uncounted(h)}

\* The threads that are to end block b.
Ending(b) == {t \in Threads : call[t].step \in {"delete", "free"} /\ p_cb[call[t].h] = b}

(* The count of a live block is the number of the handles that share it, at   *)
(* every step of every interleaved copy, move and reset; the block is ended,  *)
(* by one thread, if and only if the count is zero.  So no block leaks.       *)
CountExact ==
    /\ TypeOK
    /\ \A b \in Blocks :
          /\ block[b] = "live" => m_count[b] = Cardinality(Counted(b))
          /\ Cardinality(Ending(b)) = IF block[b] = "live" /\ m_count[b] = 0 THEN 1 ELSE 0

(* No use after free: the block that a call is about to count up, count down  *)
(* or end is live, and so is the object of every handle that a client may     *)
(* dereference.  And no leak: a live object has exactly one owner, the block  *)
(* that will delete it or the call that was given its pointer, so that it is  *)
(* deleted once.                                                              *)
NothingFreed ==
    /\ \A t \in Threads :
          call[t].step \in {"release", "addref", "delete", "free"} =>
             block[p_cb[call[t].h]] = "live"
    /\ \A h \in Handles :
          p_obj[h] \in Objects /\ ~Uncounted(h) =>
             object[p_obj[h]] = "live" /\ cb_obj[p_cb[h]] = p_obj[h]
    /\ \A o \in Objects :
          LET owners == {b \in Blocks : block[b] = "live" /\ cb_obj[b] = o}
              givers == {t \in Threads : call[t].from = o}
          IN  Cardinality(owners) + Cardinality(givers) = IF object[o] = "live" THEN 1 ELSE 0
================================================================================
