------------------------------ MODULE MCSequential ------------------------------
(******************************************************************************)
(* The components that one thread uses on its own, side by side for TLC: the  *)
(* order book, UniquePtr, the arena with its allocators, the configuration    *)
(* and the copying routines.  They share no state, so a behaviour of a        *)
(* program with several of them is an interleaving of behaviours of each, and *)
(* used says which one a behaviour is of; the others stay at rest.            *)
(******************************************************************************)
EXTENDS Orderbook, UniquePtr, BumpArena, TomlParser, MemoryRoutines, TLC

VARIABLE used

components == {"book", "ptr", "arena", "config", "copy"}

Init ==
    /\ used \in components
    /\ BookInit /\ PtrInit /\ ArenaInit /\ ConfigInit /\ MemInit
    /\ used # "ptr" => ~stateful
    /\ used # "arena" => m_begin = 0
    /\ used # "copy" => mem[1] = 0

Book == used = "book" /\ BookNext /\ UNCHANGED <<used, ptrVars, arenaVars, configVars, memVars>>
Ptr == used = "ptr" /\ PtrNext /\ UNCHANGED <<used, bookVars, arenaVars, configVars, memVars>>
Arena == used = "arena" /\ ArenaNext /\ UNCHANGED <<used, bookVars, ptrVars, configVars, memVars>>
Configuration == used = "config" /\ ConfigNext /\ UNCHANGED <<used, bookVars, ptrVars, arenaVars, memVars>>
Copy == used = "copy" /\ MemNext /\ UNCHANGED <<used, bookVars, ptrVars, arenaVars, configVars>>

Next == Book \/ Ptr \/ Arena \/ Configuration \/ Copy

Spec == Init /\ [][Next]_<<used, bookVars, ptrVars, arenaVars, configVars, memVars>>

--------------------------------------------------------------------------------
(* Two list nodes o1 and o2, whose next handles are n1 and n2. *)

CONSTANTS h1, h2, n1, n2, o1, o2

MCHandles == {h1, h2, n1, n2}
MCObjects == {o1, o2}
MCMemberOf == n1 :> o1 @@ n2 :> o2

(* No buffer, one whose start has to be aligned, and one that ends at the top *)
(* of the address space.                                                      *)
MCBuffers == {<<0, 6>>, <<3, 6>>, <<9, 6>>}
MCTypes == {<<1, 1>>, <<2, 2>>, <<4, 4>>}

Header(section) ==
    [blank |-> FALSE, bracket |-> section, eq |-> FALSE, key |-> "", val |-> Nothing]
Entry(key, text, quotes, hash) ==
    [blank |-> FALSE, bracket |-> Nothing, eq |-> TRUE, key |-> key,
     val |-> [text |-> text, quotes |-> quotes, hash |-> hash]]

(* Ports bare, quoted with a comment behind, beyond 16 bits, with a '#'       *)
(* inside the quotes and that are no number; an entry with a '[' in its       *)
(* comment; a line that is none of these; a comment.                          *)
MCLines ==
    {Header("network"), Header("log"),
     Entry("port", "80", 0, "none"), Entry("port", "81", 1, "behind"),
     Entry("port", "65616", 0, "none"), Entry("port", "82", 1, "inside"),
     Entry("port", "http", 0, "none"),
     [Entry("port", "80", 0, "behind") EXCEPT !.bracket = "log"],
     [Header(Nothing) EXCEPT !.key = "junk"], [Header(Nothing) EXCEPT !.blank = TRUE]}

(* Files of up to three of these lines, and those of four that have only      *)
(* ports in range among their entries.                                        *)
MCFiles ==
    BoundedSeq(MCLines, 3) \cup
    [1 .. 4 -> {l \in MCLines : l.val = Nothing \/ l.val.text \in {"80", "81"}}]

MCNumber == "80" :> 80 @@ "81" :> 81 @@ "82" :> 82 @@ "8" :> 8 @@ "65616" :> 65616 @@ "http" :> Nothing
MCPrefix == "82" :> "8"
================================================================================
