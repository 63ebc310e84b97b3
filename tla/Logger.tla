-------------------------------- MODULE Logger ---------------------------------
(******************************************************************************)
(* fiah::Logger<Tag> (src/include/fiah/utils/Logger.hh) for one Tag, and the  *)
(* functions of SimpleLogger.hh that use it.  A line is the name it is        *)
(* printed under and what was logged; time, level and layout are left out.    *)
(******************************************************************************)
EXTENDS Sequences

CONSTANTS
    Callers,  \* the threads that log
    Messages, \* what they log
    Starter,  \* the one that calls init(name)
    Name,     \* its argument
    Generic,  \* the default argument of get_instance
    Nobody    \* no thread, and no name

ASSUME NameAssumption == Nobody \notin Callers \cup {Name, Generic} /\ Starter \in Callers

VARIABLES
    instance,    \* the name in the static Logger, Nobody before it is constructed
    builder,     \* the thread that is constructing it
    m_log_mutex, \* its owner
    l,           \* the step of each thread's call
    line,        \* the line that a thread has put together
    cout,        \* the lines on std::cout
    first        \* the first thread that asked for the instance

loggerVars == <<instance, builder, m_log_mutex, l, line, cout, first>>

LoggerInit ==
    /\ instance = Nobody
    /\ builder = Nobody
    /\ m_log_mutex = Nobody
    /\ l = [t \in Callers |-> "idle"]
    /\ line = [t \in Callers |-> <<>>]
    /\ cout = <<>>
    /\ first = Nobody

Step(t, from, to) == l[t] = from /\ l' = [l EXCEPT ![t] = to]

--------------------------------------------------------------------------------
(* The static local of get_instance: the first caller constructs it, others   *)
(* that come meanwhile wait, and the name of a later call is dropped.         *)

\* Mutant: the instance is not static, every call makes its own.
get_instanceAfresh(t, from, to) ==
    /\ builder = Nobody
    /\ builder' = t
    /\ first' = IF first = Nobody THEN t ELSE first
    /\ Step(t, from, "construct")
    /\ UNCHANGED <<instance, m_log_mutex, line, cout>>

get_instance(t, from, to) ==
    /\ builder = Nobody
    /\ \/ /\ instance = Nobody
          /\ builder' = t
          /\ first' = t
          /\ Step(t, from, "construct")
       \/ /\ instance # Nobody
          /\ Step(t, from, to)
          /\ UNCHANGED <<builder, first>>
    /\ UNCHANGED <<instance, m_log_mutex, line, cout>>

\* The name that a thread's call of get_instance passes.
NameOf(t) == IF t = Starter THEN Name ELSE Generic

Construct(t) ==
    /\ Step(t, "construct", IF t = Starter THEN "done" ELSE "format")
    /\ instance' = NameOf(t)
    /\ builder' = Nobody
    /\ UNCHANGED <<m_log_mutex, line, cout, first>>

\* fiah::init(name).
CallInit == get_instance(Starter, "idle", "done")

--------------------------------------------------------------------------------
(* info, error, debug and warn: impl_logger(), then _log. *)

CallLog(t) == get_instance(t, "idle", "format")

Format(t, what) ==
    /\ Step(t, "format", "lock")
    /\ line' = [line EXCEPT ![t] = <<instance, what>>]
    /\ UNCHANGED <<instance, builder, m_log_mutex, cout, first>>

LogLock(t) ==
    /\ Step(t, "lock", "write")
    /\ m_log_mutex = Nobody
    /\ m_log_mutex' = t
    /\ UNCHANGED <<instance, builder, line, cout, first>>

\* The write, the flush and the unlock.
LogWrite(t) ==
    /\ Step(t, "write", "idle")
    /\ cout' = Append(cout, line[t])
    /\ line' = [line EXCEPT ![t] = <<>>]
    /\ m_log_mutex' = Nobody
    /\ UNCHANGED <<instance, builder, first>>

LoggerNext ==
    \/ CallInit
    \/ \E t \in Callers : Construct(t) \/ LogLock(t) \/ LogWrite(t)
    \/ \E t \in Callers, what \in Messages : Format(t, what)
    \/ \E t \in Callers \ {Starter} : CallLog(t)

LoggerSpec == LoggerInit /\ [][LoggerNext]_loggerVars

--------------------------------------------------------------------------------
LoggerTypeOK ==
    /\ instance \in {Name, Generic, Nobody}
    /\ builder \in Callers \cup {Nobody} /\ first \in Callers \cup {Nobody}
    /\ l \in [Callers -> {"idle", "construct", "format", "lock", "write", "done"}]
    /\ line \in [Callers -> ({Name, Generic} \X Messages) \cup {<<>>}]
    /\ cout \in Seq({Name, Generic} \X Messages)

(* One name per Tag: every line is printed under the name that the first call *)
(* of get_instance passed, so init(name) takes effect if and only if nothing  *)
(* was logged before (SimpleLogger.hh:21-23 and 30-32), however the calls     *)
(* overlap.                                                                   *)
OneName ==
    /\ LoggerTypeOK
    /\ instance # Nobody => instance = NameOf(first)
    /\ \A i \in DOMAIN cout : cout[i][1] = NameOf(first)
================================================================================
