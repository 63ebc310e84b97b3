-------------------------------- MODULE Sockets --------------------------------
(******************************************************************************)
(* The network classes (src/include/fiah/io): Socket, the owner of a file     *)
(* descriptor, and TcpServer, TcpClient, UdpServer and UdpClient, which have  *)
(* one each and open it with a sequence of system calls.  Every object is     *)
(* used by a thread of its own, and every system call is a step, so that the  *)
(* calls of different threads interleave; Socket's operator= closes the old   *)
(* descriptor in one step and stores the new one in the next.                 *)
(*                                                                            *)
(* The kernel is modelled as far as these calls see it: descriptors are       *)
(* numbers, and a new one is the smallest that is free, so a closed number    *)
(* soon names somebody else's socket.  All servers of a protocol have the     *)
(* same address.  Any call may fail for reasons of the kernel's own.          *)
(******************************************************************************)
EXTENDS Integers

CONSTANTS
    TcpServers, TcpClients, UdpServers, UdpClients,
    Connections,   \* the Socket variables that receive the result of accept_client
    NumFds         \* the kernel's limit on open descriptors

ASSUME NumFdsAssumption == NumFds \in Nat \ {0}

Fds == 1 .. NumFds
Closed == -1

Tcp == TcpServers \cup TcpClients
Udp == UdpServers \cup UdpClients
Users == Tcp \cup Udp
Owners == Users \cup Connections

Classes == {TcpServers, TcpClients, UdpServers, UdpClients}

\* An object is of one class.
ASSUME ClassesAssumption ==
    /\ Users \cap Connections = {}
    /\ TcpServers \cap TcpClients = {} /\ UdpServers \cap UdpClients = {} /\ Tcp \cap Udp = {}

VARIABLES
    file,        \* the state of each descriptor in the kernel
    m_sock,      \* the descriptor of each owner's Socket, or -1
    pc, fd,      \* each user's next step and the local variable with its new descriptor
    into,        \* the Socket that each user's call is to assign fd to, or to move from
    started,     \* m_started of UdpServer; _running of Tcp is never read
    ret,         \* "ok" if the user's last start, connect_to_server or constructor succeeded,
                 \* "moved" if the object was moved from since
    aborted      \* whether a UdpClient without a socket ended the process

vars == <<file, m_sock, pc, fd, into, started, ret, aborted>>

Init ==
    /\ file = [f \in Fds |-> "free"]
    /\ m_sock = [o \in Owners |-> Closed]
    /\ pc = [u \in Users |-> "idle"]
    /\ fd = [u \in Users |-> Closed]
    /\ into = [u \in Users |-> u]
    /\ started = [u \in UdpServers |-> FALSE]
    /\ ret = [u \in Users |-> "none"]
    /\ aborted = FALSE

Goto(u, from, to) == pc[u] = from /\ pc' = [pc EXCEPT ![u] = to]

\* The call of u returns.
Return(u, from, result) == Goto(u, from, "idle") /\ ret' = [ret EXCEPT ![u] = result]

--------------------------------------------------------------------------------
(* The kernel. *)

FreeFds == {f \in Fds : file[f] = "free"}

\* The descriptor table after close(f), which fails on a number that is not open.
close(f) == IF f \in Fds THEN [file EXCEPT ![f] = "free"] ELSE file

\* A new descriptor in the local variable of u, to be assigned to owner o.
OpenFd(u, o, state) ==
    /\ \E f \in FreeFds :
          /\ \A g \in FreeFds : f <= g
          /\ file' = [file EXCEPT ![f] = state]
          /\ fd' = [fd EXCEPT ![u] = f]
    /\ into' = [into EXCEPT ![u] = o]

Listening == {f \in Fds : file[f] = "listening"}

\* Whether the protocol's address is taken.
Taken(u) == \E f \in Fds : file[f] \in IF u \in Tcp THEN {"tcp_bound", "listening"} ELSE {"udp_bound"}

--------------------------------------------------------------------------------
(* Socket. *)

\* Mutant: the old descriptor is forgotten.
AssignCloseNone(u) ==
    /\ Goto(u, "close", "set")
    /\ UNCHANGED <<file, m_sock, fd, into, started, ret, aborted>>

\* operator=: the old descriptor is closed,
AssignClose(u) ==
    /\ Goto(u, "close", "set")
    /\ file' = close(m_sock[into[u]])
    /\ UNCHANGED <<m_sock, fd, into, started, ret, aborted>>

\* What a call of u does once its new descriptor is in place.
AfterSet(u) ==
    \/ into[u] \in Connections /\ Goto(u, "set", "idle") /\ UNCHANGED ret
    \/ /\ into[u] = u
       /\ \/ u \in TcpServers \cup UdpServers /\ Goto(u, "set", "bind") /\ UNCHANGED ret
          \/ u \in TcpClients /\ Goto(u, "set", "pton") /\ UNCHANGED ret
          \/ u \in UdpClients /\ Return(u, "set", "ok")

\* Mutant: the old descriptor is closed again.
AssignSetTwice(u) ==
    /\ AfterSet(u)
    /\ file' = close(m_sock[into[u]])
    /\ m_sock' = [m_sock EXCEPT ![into[u]] = fd[u]]
    /\ fd' = [fd EXCEPT ![u] = Closed]
    /\ into' = [into EXCEPT ![u] = u]
    /\ UNCHANGED <<started, aborted>>

\* and the new one stored.
AssignSet(u) ==
    /\ AfterSet(u)
    /\ m_sock' = [m_sock EXCEPT ![into[u]] = fd[u]]
    /\ fd' = [fd EXCEPT ![u] = Closed]
    /\ into' = [into EXCEPT ![u] = u]
    /\ UNCHANGED <<file, started, aborted>>

(* ~Socket, with the object around it; a new object takes its name.  A        *)
(* connection's Socket is not destroyed while accept_client assigns to it.    *)
Destroy(o) ==
    /\ o \in Users => pc[o] = "idle"
    /\ \A u \in Users : into[u] = o => pc[u] = "idle"
    /\ file' = close(m_sock[o])
    /\ m_sock' = [m_sock EXCEPT ![o] = Closed]
    /\ started' = [u \in UdpServers |-> started[u] /\ u # o]
    /\ ret' = [u \in Users |-> IF u = o THEN "none" ELSE ret[u]]
    /\ UNCHANGED <<pc, fd, into, aborted>>

Class(u) == CHOOSE class \in Classes : u \in class

(* u = std::move(v), by a thread that has both objects, once the old          *)
(* descriptor is closed; the move constructor is the case where there is none.*)
MoveClose(u, v) ==
    /\ u # v /\ v \in Class(u)
    /\ pc[u] = "idle" /\ pc[v] = "idle"
    /\ pc' = [pc EXCEPT ![u] = "move", ![v] = "source"]
    /\ file' = close(m_sock[u])
    /\ into' = [into EXCEPT ![u] = v]
    /\ ret' = [ret EXCEPT ![u] = "none"]
    /\ UNCHANGED <<m_sock, fd, started, aborted>>

\* The default moves copy m_started, and leave it as it is in the source.
MoveSet(u) ==
    LET v == into[u] IN
    /\ pc[u] = "move"
    /\ pc' = [pc EXCEPT ![u] = "idle", ![v] = "idle"]
    /\ m_sock' = [m_sock EXCEPT ![u] = m_sock[v], ![v] = Closed]
    /\ started' = IF u \in UdpServers THEN [started EXCEPT ![u] = started[v]] ELSE started
    /\ ret' = [ret EXCEPT ![u] = ret[v], ![v] = "moved"]
    /\ into' = [into EXCEPT ![u] = u]
    /\ UNCHANGED <<file, fd, aborted>>

--------------------------------------------------------------------------------
(* create_socket, with which every class begins. *)

(* A started UdpServer returns at once; a UdpClient creates its socket in its *)
(* constructor, and the process ends if it cannot.  An object that was moved  *)
(* from is only assigned to or destroyed.                                     *)
CreateSocket(u) ==
    /\ pc[u] = "idle" /\ ret[u] # "moved"
    /\ ~(u \in UdpServers /\ started[u])
    /\ u \in UdpClients => m_sock[u] = Closed
    /\ \/ /\ OpenFd(u, u, IF u \in Tcp THEN "tcp" ELSE "udp")
          /\ Goto(u, "idle", "close")
          /\ UNCHANGED <<m_sock, started, ret, aborted>>
       \/ /\ Return(u, "idle", "none")
          /\ aborted' = (u \in UdpClients)
          /\ UNCHANGED <<file, m_sock, fd, into, started>>

\* bind in the start of either server, the end of UdpServer's.
Bind(u) ==
    /\ pc[u] = "bind"
    /\ \/ /\ ~Taken(u)
          /\ file' = [file EXCEPT ![m_sock[u]] = IF u \in Tcp THEN "tcp_bound" ELSE "udp_bound"]
          /\ IF u \in Tcp
             THEN Goto(u, "bind", "listen") /\ UNCHANGED <<ret, started>>
             ELSE Return(u, "bind", "ok") /\ started' = [started EXCEPT ![u] = TRUE]
       \/ Return(u, "bind", "none") /\ UNCHANGED <<file, started>>
    /\ UNCHANGED <<m_sock, fd, into, aborted>>

\* listen, the end of TcpServer::start.
Listen(s) ==
    /\ \/ /\ Return(s, "listen", "ok")
          /\ file' = [file EXCEPT ![m_sock[s]] = "listening"]
       \/ Return(s, "listen", "none") /\ UNCHANGED file
    /\ UNCHANGED <<m_sock, fd, into, started, aborted>>

(* accept_client, whose result is moved into a Socket variable of the caller; *)
(* a failure changes nothing.                                                 *)
Accept(s, k) ==
    /\ \A u \in Users : pc[u] # "idle" => into[u] # k
    /\ m_sock[s] \in Listening
    /\ OpenFd(s, k, "connected")
    /\ Goto(s, "idle", "close")
    /\ UNCHANGED <<m_sock, started, ret, aborted>>

\* inet_pton and connect in connect_to_server; a failure leaves the socket open.
Connect(c) ==
    /\ \/ /\ Return(c, "pton", "ok")
          /\ file' = [file EXCEPT ![m_sock[c]] = "connected"]
       \/ Return(c, "pton", "none") /\ UNCHANGED file
    /\ UNCHANGED <<m_sock, fd, into, started, aborted>>

\* bind_local, with the servers' port; a failure changes nothing.
BindLocal(d) ==
    /\ pc[d] = "idle"
    /\ m_sock[d] # Closed /\ file[m_sock[d]] = "udp" /\ ~Taken(d)
    /\ file' = [file EXCEPT ![m_sock[d]] = "udp_bound"]
    /\ UNCHANGED <<m_sock, pc, fd, into, started, ret, aborted>>

--------------------------------------------------------------------------------
Next ==
    /\ ~aborted
    /\ \/ \E u \in Users : CreateSocket(u) \/ AssignClose(u) \/ AssignSet(u) \/ MoveSet(u)
       \/ \E u, v \in Users : MoveClose(u, v)
       \/ \E u \in TcpServers \cup UdpServers : Bind(u)
       \/ \E s \in TcpServers : Listen(s) \/ \E k \in Connections : Accept(s, k)
       \/ \E c \in TcpClients : Connect(c)
       \/ \E d \in UdpClients : BindLocal(d)
       \/ \E o \in Owners : Destroy(o)

Spec == Init /\ [][Next]_vars

--------------------------------------------------------------------------------
(* Every variable has a value of its type, and a call has a descriptor in     *)
(* hand exactly while it assigns one.                                         *)
TypeOK ==
    /\ file \in [Fds -> {"free", "tcp", "tcp_bound", "listening", "connected", "udp", "udp_bound"}]
    /\ m_sock \in [Owners -> Fds \cup {Closed}]
    /\ pc \in [Users -> {"idle", "close", "set", "bind", "listen", "pton", "move", "source"}]
    /\ fd \in [Users -> Fds \cup {Closed}]
    /\ \A u \in Users : fd[u] \in Fds <=> pc[u] \in {"close", "set"}
    /\ into \in [Users -> Owners]
    /\ started \in [UdpServers -> BOOLEAN]
    /\ ret \in [Users -> {"none", "ok", "moved"}]
    /\ aborted \in BOOLEAN

\* The owners whose old descriptor is closed and whose new one is not stored yet.
Between == {into[u] : u \in {u \in Users : pc[u] = "set"}} \cup {u \in Users : pc[u] = "move"}

\* Who has descriptor f: the Sockets, and the calls that opened one and did not store it yet.
Holders(f) ==
    ({"socket"} \X {o \in Owners \ Between : m_sock[o] = f}) \cup ({"call"} \X {u \in Users : fd[u] = f})

(* Every open descriptor is that of exactly one Socket, or of the call that   *)
(* just opened it, and no Socket has a descriptor that is closed: none leaks, *)
(* also when a start or a connect fails and is tried again, and none is       *)
(* closed twice.                                                              *)
FdsOwned ==
    /\ TypeOK
    /\ \A f \in Fds : IF file[f] = "free" THEN Holders(f) = {} ELSE \E h \in Holders(f) : Holders(f) = {h}

\* The state in which the user's successful call left its socket.
Expected(u) ==
    CASE u \in TcpServers -> {"listening"}
      [] u \in TcpClients -> {"connected"}
      [] u \in UdpServers -> {"udp_bound"}
      [] u \in UdpClients -> {"udp", "udp_bound"}

(* What start, connect_to_server and UdpClient's constructor set up stays:    *)
(* until the object's next such call no close of another thread, which may    *)
(* have had the same descriptor number before, reaches its socket; and        *)
(* m_started, which turns a second start into a success, is as good as that.  *)
SocketsKept ==
    \A u \in Users :
        /\ (pc[u] = "idle" \/ into[u] # u) /\ ret[u] = "ok"
           => m_sock[u] # Closed /\ file[m_sock[u]] \in Expected(u)
        /\ u \in UdpServers /\ started[u] /\ pc[u] # "move" => ret[u] \in {"ok", "moved"}
================================================================================
