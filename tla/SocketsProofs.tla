----------------------------- MODULE SocketsProofs -----------------------------
(******************************************************************************)
(* Every open descriptor has one owner, and what a call set up stays set up,  *)
(* for any number of servers, clients, connections and descriptors.           *)
(******************************************************************************)
EXTENDS Sockets, TLAPS

USE NumFdsAssumption, ClassesAssumption, SMTT(40)

(* Where a call assigns to or moves from; no two calls use one object, but for *)
(* the source of a move, which waits.                                         *)
CallsApart ==
    /\ \A u \in Users :
          /\ pc[u] \in {"close", "set"} => into[u] = u \/ (u \in TcpServers /\ into[u] \in Connections)
          /\ pc[u] \notin {"close", "set", "move"} => into[u] = u
          /\ pc[u] = "move" => /\ into[u] \in Users \ {u} /\ pc[into[u]] = "source"
                               /\ \A class \in Classes : u \in class <=> into[u] \in class
          /\ pc[u] \in {"bind", "listen", "pton"} => m_sock[u] \in Fds
    /\ \A u, v \in Users : into[u] = into[v] /\ pc[u] # "source" /\ pc[v] # "source" => u = v

\* Owner o has a descriptor, and is not between the close and the store of an assignment.
Has(o) == o \notin Between /\ m_sock[o] \in Fds

\* Open descriptors have one owner.
OneOwner ==
    /\ \A o \in Owners : Has(o) => file[m_sock[o]] # "free"
    /\ \A u \in Users : fd[u] \in Fds => file[fd[u]] # "free"
    /\ \A o, p \in Owners : Has(o) /\ Has(p) /\ m_sock[o] = m_sock[p] => o = p
    /\ \A u, v \in Users : fd[u] \in Fds /\ fd[u] = fd[v] => u = v
    /\ \A o \in Owners, u \in Users : Has(o) => m_sock[o] # fd[u]
    /\ \A f \in Fds : file[f] # "free" =>
          (\E o \in Owners : Has(o) /\ m_sock[o] = f) \/ (\E u \in Users : fd[u] = f)

\* The last call of u succeeded and no new one has touched its Socket.
Good(u) == ret[u] = "ok" /\ (pc[u] \in {"idle", "source"} \/ into[u] # u)

\* What a successful call set up is there, also while the object is moved from.
SetUp ==
    /\ \A u \in Users :
          /\ Good(u) => m_sock[u] \in Fds /\ file[m_sock[u]] \in Expected(u)
          /\ pc[u] = "move" => ret[u] = "none"
    /\ \A u \in UdpServers :
          /\ started[u] /\ pc[u] # "move" => ret[u] \in {"ok", "moved"}
          /\ pc[u] \in {"close", "set", "bind"} => ~started[u]
    /\ \A u \in UdpClients : fd[u] \in Fds => file[fd[u]] = "udp"

IndInv == TypeOK /\ CallsApart /\ OneOwner /\ SetUp

--------------------------------------------------------------------------------
(* Descriptors. *)

\* The objects that are between a close and a store.
LEMMA WhoIsBetween ==
    ASSUME TypeOK, CallsApart
    PROVE  /\ \A o \in Owners : o \in Between <=>
                 (\E u \in Users : pc[u] = "set" /\ into[u] = o) \/ (o \in Users /\ pc[o] = "move")
           /\ \A u \in Users : pc[u] \notin {"set", "move"} => u \notin Between
<1>1. \A o \in Owners : o \in Between <=>
          (\E u \in Users : pc[u] = "set" /\ into[u] = o) \/ (o \in Users /\ pc[o] = "move")
  BY Zenon DEF Between
<1>2. ASSUME NEW u \in Users, NEW w \in Users, pc[w] = "set", into[w] = u
      PROVE  w = u
  BY <1>2, Zenon DEF CallsApart, Owners
<1> QED BY <1>1, <1>2, Zenon DEF Owners

\* A new descriptor goes to a call that has none.
LEMMA Opens ==
    ASSUME OneOwner, NEW u \in Users, fd[u] \notin Fds, NEW f \in Fds, file[f] = "free",
           file'[f] # "free", \A g \in Fds : g # f => file'[g] = file[g],
           fd'[u] = f, \A v \in Users : v # u => fd'[v] = fd[v],
           m_sock' = m_sock, Between' = Between
    PROVE  OneOwner'
<1>1. \A o \in Owners : (Has(o)' <=> Has(o)) /\ (Has(o) => m_sock[o] \in Fds)
  BY Zenon DEF Has
<1>2. \A o \in Owners : Has(o) => m_sock[o] # f
  BY <1>1 DEF OneOwner
<1>3. \A v \in Users : fd[v] # f
  BY DEF OneOwner
<1> QED BY <1>1, <1>2, <1>3 DEF OneOwner

\* A close takes the descriptor of one owner, who does not have it afterwards.
LEMMA Closes ==
    ASSUME OneOwner, TypeOK, NEW o \in Owners, o \notin Between, file' = close(m_sock[o]), fd' = fd,
           \A p \in Owners : Has(p)' <=> Has(p) /\ p # o,
           \A p \in Owners : p # o => m_sock'[p] = m_sock[p]
    PROVE  OneOwner'
<1>0. DOMAIN file = Fds
  BY Zenon DEF TypeOK
<1>1. \A f \in Fds : file'[f] = IF f = m_sock[o] THEN "free" ELSE file[f]
  BY <1>0, Zenon DEF close
<1>2. \A p \in Owners : Has(p) => m_sock[p] \in Fds
  BY Zenon DEF Has
<1>3. m_sock[o] \in Fds => Has(o)
  BY Zenon DEF Has
<1>4. \A p \in Owners : Has(p)' => Has(p) /\ p # o /\ m_sock'[p] = m_sock[p] /\ m_sock[p] # m_sock[o]
  BY <1>2, <1>3, Zenon DEF OneOwner
<1>5. \A u \in Users : fd[u] \in Fds => fd[u] # m_sock[o]
  BY <1>3, Zenon DEF OneOwner
<1> QED BY <1>1, <1>2, <1>3, <1>4, <1>5 DEF OneOwner

\* A step that opens and closes nothing and passes nothing on.
LEMMA Relabels ==
    ASSUME OneOwner, UNCHANGED <<m_sock, fd, Between>>,
           \A f \in Fds : file'[f] = "free" <=> file[f] = "free"
    PROVE  OneOwner'
<1>1. \A o \in Owners : (Has(o)' <=> Has(o)) /\ (Has(o) => m_sock[o] \in Fds)
  BY Zenon DEF Has
<1> QED BY <1>1, Zenon DEF OneOwner

\* What was set up is the object's own.
LEMMA GoodHas ==
    ASSUME IndInv, NEW u \in Users, Good(u)
    PROVE  u \in Owners /\ u \notin Between /\ Has(u)
<1>1. TypeOK /\ CallsApart /\ SetUp
  BY Zenon DEF IndInv
<1>2. pc[u] # "move" /\ m_sock[u] \in Fds
  BY <1>1, Zenon DEF SetUp, Good
<1>3. ~(\E w \in Users : pc[w] = "set" /\ into[w] = u)
  BY <1>1, ZenonT(40) DEF CallsApart, Good, Owners
<1>4. u \in Owners /\ u \notin Between
  BY <1>1, <1>2, <1>3, WhoIsBetween, Zenon DEF Owners
<1> QED BY <1>2, <1>4, Zenon DEF Has

--------------------------------------------------------------------------------
(* One lemma per kind of step. *)

\* A call opens a descriptor, to be assigned to its own object or to a connection that is free.
LEMMA OpenStep ==
    ASSUME IndInv, NEW u \in Users, NEW o \in Owners,
           NEW state \in {"tcp", "udp", "connected"}, u \in UdpClients => state = "udp",
           o = u \/ (u \in TcpServers /\ o \in Connections /\ \A w \in Users : pc[w] # "idle" => into[w] # o),
           OpenFd(u, o, state), Goto(u, "idle", "close"), u \in UdpServers => ~started[u],
           UNCHANGED <<m_sock, started, ret, aborted>>
    PROVE  IndInv'
<1>0. TypeOK /\ CallsApart /\ OneOwner /\ SetUp
  BY Zenon DEF IndInv
<1>1. PICK f \in Fds : /\ file[f] = "free" /\ file' = [file EXCEPT ![f] = state]
                       /\ fd' = [fd EXCEPT ![u] = f] /\ into' = [into EXCEPT ![u] = o]
  BY Zenon DEF OpenFd, FreeFds
<1>2. pc[u] = "idle" /\ pc' = [pc EXCEPT ![u] = "close"] /\ into[u] = u
  BY <1>0, Zenon DEF Goto, CallsApart
<1>3. TypeOK'
  BY <1>0, <1>1, <1>2, Zenon DEF TypeOK
<1>4. /\ \A w \in Users : w # u => pc'[w] = pc[w] /\ into'[w] = into[w] /\ fd'[w] = fd[w]
      /\ pc'[u] = "close" /\ into'[u] = o /\ fd'[u] = f
      /\ \A g \in Fds : file'[g] = IF g = f THEN state ELSE file[g]
  BY <1>0, <1>1, <1>2, Zenon DEF TypeOK
<1>5. \A w \in Users : w # u /\ pc[w] # "source" => into[w] # o
  BY <1>0, <1>2 DEF CallsApart, Owners
<1>6. CallsApart'
  BY <1>0, <1>2, <1>4, <1>5 DEF CallsApart
<1>7. Between' = Between
  BY <1>2, <1>4 DEF Between
<1>8. OneOwner'
  <2>1. fd[u] \notin Fds
    BY <1>0, <1>2, Zenon DEF TypeOK
  <2> QED BY <1>0, <1>1, <1>4, <1>7, <2>1, Opens
<1>9. \A w \in Users : Good(w)' => Good(w) /\ m_sock[w] \in Fds /\ m_sock[w] # f
  <2>1. \A w \in Users : Good(w)' => Good(w)
    BY <1>2, <1>4, Zenon DEF Good
  <2>2. \A w \in Users : Good(w) => w \in Owners /\ Has(w)
    BY GoodHas, Zenon
  <2> QED BY <1>0, <1>1, <2>1, <2>2, Zenon DEF OneOwner, Has
<1>10. SetUp'
  <2>1. \A w \in Users : Good(w)' => m_sock'[w] \in Fds /\ file'[m_sock'[w]] \in Expected(w)
    BY <1>0, <1>4, <1>9, Zenon DEF SetUp
  <2>2. \A w \in Users : pc'[w] = "move" => ret'[w] = "none"
    BY <1>0, <1>4, Zenon DEF SetUp
  <2>3. \A w \in UdpServers : /\ started'[w] /\ pc'[w] # "move" => ret'[w] \in {"ok", "moved"}
                              /\ pc'[w] \in {"close", "set", "bind"} => ~started'[w]
    BY <1>0, <1>2, <1>4 DEF SetUp, Users, Udp
  <2>4. \A w \in UdpClients : fd'[w] \in Fds => file'[fd'[w]] = "udp"
    BY <1>0, <1>1, <1>4 DEF SetUp, OneOwner, Users, Udp
  <2> QED BY <2>1, <2>2, <2>3, <2>4, Zenon DEF SetUp
<1> QED BY <1>3, <1>6, <1>8, <1>10, Zenon DEF IndInv

Labels == {"free", "tcp", "tcp_bound", "listening", "connected", "udp", "udp_bound"}

(* The call of u goes on to step to or returns r, and changes the state of    *)
(* its own descriptor at most.                                                *)
Labelled(u, to, r) ==
    /\ pc[u] \in {"idle", "bind", "listen", "pton"} /\ pc' = [pc EXCEPT ![u] = to]
    /\ ret' = [ret EXCEPT ![u] = r]
    /\ m_sock' = m_sock /\ fd' = fd /\ into' = into /\ aborted' \in BOOLEAN
    /\ file' \in [Fds -> Labels]
    /\ \A f \in Fds : file'[f] = file[f] \/ (f = m_sock[u] /\ file'[f] # "free")
    /\ to = "listen" => m_sock[u] \in Fds
    /\ to = "idle" /\ r = "ok" => m_sock[u] \in Fds /\ file'[m_sock[u]] \in Expected(u)
    /\ started' \in [UdpServers -> BOOLEAN]
    /\ \A w \in UdpServers : started'[w] => (w # u /\ started[w]) \/ (w = u /\ r \in {"ok", "moved"})

\* Such a step keeps the invariant.
LEMMA LabelStep ==
    ASSUME IndInv, NEW u \in Users, NEW to \in {"idle", "listen"}, NEW r \in {"none", "ok", "moved"},
           Labelled(u, to, r)
    PROVE  IndInv'
<1> USE DEF Labelled
<1>0. TypeOK /\ CallsApart /\ OneOwner /\ SetUp
  BY Zenon DEF IndInv
<1>1. /\ \A w \in Users : w # u => pc'[w] = pc[w] /\ ret'[w] = ret[w]
      /\ pc'[u] = to /\ ret'[u] = r /\ into[u] = u /\ fd[u] \notin Fds
  BY <1>0 DEF TypeOK, CallsApart
<1>2. u \in Owners /\ u \notin Between /\ (m_sock[u] \in Fds => Has(u))
  BY <1>0, WhoIsBetween, Zenon DEF Owners, Has
<1>3. /\ file' \in [Fds -> Labels]
      /\ \A f \in Fds : f # m_sock[u] => file'[f] = file[f]
      /\ \A f \in Fds : file'[f] = "free" <=> file[f] = "free"
  BY <1>0, <1>2 DEF TypeOK, OneOwner, Labels
<1>4. TypeOK'
  BY <1>0, <1>1, <1>3, Zenon DEF TypeOK, Labels
<1>5. CallsApart'
  BY <1>0, <1>1 DEF CallsApart
<1>6. Between' = Between
  BY <1>1 DEF Between
<1>7. OneOwner'
  BY <1>0, <1>3, <1>6, Relabels, Zenon
<1>8. SetUp'
  <2>1. \A w \in Users : w # u /\ Good(w)' => Good(w) /\ m_sock[w] # m_sock[u]
    <3>1. \A w \in Users : w # u /\ Good(w)' => Good(w)
      BY <1>1, Zenon DEF Good
    <3>2. \A w \in Users : Good(w) => w \in Owners /\ Has(w)
      BY GoodHas, Zenon
    <3> QED BY <1>0, <1>2, <3>1, <3>2, Zenon DEF OneOwner, Has
  <2>2. \A w \in Users : Good(w)' => m_sock'[w] \in Fds /\ file'[m_sock'[w]] \in Expected(w)
    BY <1>0, <1>1, <1>3, <2>1 DEF SetUp, Good
  <2>3. \A w \in Users : pc'[w] = "move" => ret'[w] = "none"
    BY <1>0, <1>1, Zenon DEF SetUp
  <2>4. \A w \in UdpServers : /\ started'[w] /\ pc'[w] # "move" => ret'[w] \in {"ok", "moved"}
                              /\ pc'[w] \in {"close", "set", "bind"} => ~started'[w]
    BY <1>0, <1>1, ZenonT(40) DEF SetUp, Users, Udp
  <2>5. \A w \in UdpClients : fd[w] \in Fds => fd[w] # m_sock[u]
    BY <1>0, <1>2, Zenon DEF OneOwner, Users, Udp
  <2>6. \A w \in UdpClients : fd'[w] \in Fds => file'[fd'[w]] = "udp"
    BY <1>0, <1>3, <2>5 DEF SetUp
  <2> QED BY <2>2, <2>3, <2>4, <2>6, Zenon DEF SetUp
<1> QED BY <1>4, <1>5, <1>7, <1>8, Zenon DEF IndInv

\* A close reaches nobody else's descriptor.
LEMMA CloseApart ==
    ASSUME IndInv, NEW o \in Owners, o \notin Between, file' = close(m_sock[o])
    PROVE  /\ file' \in [Fds -> Labels]
           /\ \A w \in Users : Good(w) /\ w # o =>
                 m_sock[w] \in Fds /\ file'[m_sock[w]] = file[m_sock[w]]
           /\ \A w \in Users : fd[w] \in Fds => file'[fd[w]] = file[fd[w]]
<1>0. TypeOK /\ OneOwner
  BY Zenon DEF IndInv
<1>1. /\ file' \in [Fds -> Labels]
      /\ \A f \in Fds : f # m_sock[o] => file'[f] = file[f]
  BY <1>0, Zenon DEF TypeOK, close, Labels
<1>2. m_sock[o] \in Fds => Has(o)
  BY Zenon DEF Has
<1>3. \A w \in Users : Good(w) => w \in Owners /\ Has(w) /\ m_sock[w] \in Fds
  BY GoodHas, Zenon DEF Has
<1> QED BY <1>0, <1>1, <1>2, <1>3 DEF OneOwner

\* Socket::operator= closes the old descriptor.
LEMMA AssignCloseStep ==
    ASSUME IndInv, NEW u \in Users, AssignClose(u)
    PROVE  IndInv'
<1>0. TypeOK /\ CallsApart /\ OneOwner /\ SetUp
  BY Zenon DEF IndInv
<1>1. /\ pc[u] = "close" /\ pc' = [pc EXCEPT ![u] = "set"]
      /\ UNCHANGED <<m_sock, fd, into, started, ret, aborted>>
  BY Zenon DEF AssignClose, Goto
<1>2. PICK o \in Owners : into[u] = o /\ file' = close(m_sock[o])
  BY <1>0, Zenon DEF AssignClose, TypeOK
<1>3. \A w \in Users : w # u => pc'[w] = pc[w] /\ pc'[u] = "set"
  BY <1>0, <1>1, Zenon DEF TypeOK
<1>4. o \notin Between
  BY <1>0, <1>1, <1>2, WhoIsBetween DEF CallsApart
<1>5. \A p \in Owners : p \in Between' <=> p \in Between \/ p = o
  BY <1>0, <1>1, <1>2, ZenonT(40) DEF Between, TypeOK
<1>6. OneOwner'
  <2>1. \A p \in Owners : Has(p)' <=> Has(p) /\ p # o
    BY <1>1, <1>5, Zenon DEF Has
  <2> QED BY <1>0, <1>1, <1>2, <1>4, <2>1, Closes, Zenon
<1>7. /\ file' \in [Fds -> Labels]
      /\ \A w \in Users : Good(w) /\ w # o => m_sock[w] \in Fds /\ file'[m_sock[w]] = file[m_sock[w]]
      /\ \A w \in Users : fd[w] \in Fds => file'[fd[w]] = file[fd[w]]
  BY <1>2, <1>4, CloseApart, Zenon
<1>8. TypeOK'
  BY <1>0, <1>1, <1>7 DEF TypeOK, Labels
<1>9. CallsApart'
  BY <1>0, <1>1 DEF CallsApart, TypeOK
<1>10. \A w \in Users : Good(w)' => Good(w) /\ w # o
  BY <1>0, <1>1, <1>2 DEF Good, CallsApart, TypeOK
<1>11. SetUp'
  BY <1>0, <1>1, <1>7, <1>10 DEF SetUp, TypeOK, Users, Udp
<1> QED BY <1>6, <1>8, <1>9, <1>11, Zenon DEF IndInv

\* Objects of one class are in the same classes.
LEMMA SameClass ==
    ASSUME NEW u \in Users, NEW v \in Class(u)
    PROVE  v \in Users /\ \A class \in Classes : u \in class <=> v \in class
<1>1. \E class \in Classes : u \in class
  BY Zenon DEF Classes, Users, Tcp, Udp
<1>2. Class(u) \in Classes /\ u \in Class(u)
  BY <1>1, Zenon DEF Class
<1> HIDE DEF Class
<1> QED BY <1>2, Zenon DEF Classes, Users, Tcp, Udp

\* And what is set up in one is what is expected of the other.
LEMMA SameExpected ==
    ASSUME NEW u \in Users, NEW v \in Users, \A class \in Classes : u \in class <=> v \in class
    PROVE  Expected(u) = Expected(v)
<1>1. /\ u \in TcpServers <=> v \in TcpServers
      /\ u \in TcpClients <=> v \in TcpClients
      /\ u \in UdpServers <=> v \in UdpServers
      /\ u \in UdpClients <=> v \in UdpClients
  BY Zenon DEF Classes
<1>2. u \in TcpServers \/ u \in TcpClients \/ u \in UdpServers \/ u \in UdpClients
  BY Zenon DEF Users, Tcp, Udp
<1> QED BY <1>1, <1>2, Zenon DEF Expected, Tcp, Udp

\* The move assignment of an object closes the old descriptor.
LEMMA MoveCloseStep ==
    ASSUME IndInv, NEW u \in Users, NEW v \in Users, MoveClose(u, v)
    PROVE  IndInv'
<1>0. TypeOK /\ CallsApart /\ OneOwner /\ SetUp
  BY Zenon DEF IndInv
<1>1. /\ u # v /\ v \in Class(u) /\ pc[u] = "idle" /\ pc[v] = "idle"
      /\ pc' = [pc EXCEPT ![u] = "move", ![v] = "source"]
      /\ file' = close(m_sock[u]) /\ into' = [into EXCEPT ![u] = v] /\ ret' = [ret EXCEPT ![u] = "none"]
      /\ UNCHANGED <<m_sock, fd, started, aborted>>
  BY Zenon DEF MoveClose
<1>2. /\ u # v /\ pc[u] = "idle" /\ pc[v] = "idle"
      /\ m_sock' = m_sock /\ fd' = fd /\ started' = started
      /\ pc'[u] = "move" /\ pc'[v] = "source" /\ into'[u] = v /\ ret'[u] = "none"
      /\ into[u] = u /\ into[v] = v /\ u \in Owners /\ v \in Owners
      /\ \A w \in Users : w # u => into'[w] = into[w] /\ ret'[w] = ret[w]
      /\ \A w \in Users : w # u /\ w # v => pc'[w] = pc[w]
  BY <1>0, <1>1 DEF TypeOK, CallsApart, Owners
<1>3. u \notin Between
  BY <1>0, <1>1, WhoIsBetween, Zenon
<1>4. \A p \in Owners : p \in Between' <=> p \in Between \/ p = u
  <2>1. \A w \in Users : (pc'[w] = "set" <=> pc[w] = "set") /\ (pc[w] = "set" => into'[w] = into[w])
    BY <1>2, Zenon
  <2>2. \A w \in Users : pc'[w] = "move" <=> pc[w] = "move" \/ w = u
    BY <1>2, Zenon
  <2> QED BY <2>1, <2>2, Zenon DEF Between
<1>5. OneOwner'
  <2>1. \A p \in Owners : Has(p)' <=> Has(p) /\ p # u
    BY <1>1, <1>4, Zenon DEF Has
  <2> QED BY <1>0, <1>1, <1>2, <1>3, <2>1, Closes, Zenon
<1>6. /\ file' \in [Fds -> Labels]
      /\ \A w \in Users : Good(w) /\ w # u => m_sock[w] \in Fds /\ file'[m_sock[w]] = file[m_sock[w]]
      /\ \A w \in Users : fd[w] \in Fds => file'[fd[w]] = file[fd[w]]
  BY <1>1, <1>2, <1>3, CloseApart, Zenon
<1>7. TypeOK'
  BY <1>0, <1>1, <1>2, <1>6 DEF TypeOK, Labels
<1>8. CallsApart'
  <2>1. \A class \in Classes : u \in class <=> v \in class
    BY <1>1, SameClass, Zenon
  <2>2. \A w \in Users : w # u /\ pc[w] # "source" => into[w] # u
    BY <1>0, <1>1, <1>2 DEF CallsApart
  <2>3. \A w \in Users : w # v /\ pc[w] # "source" => into[w] # v
    BY <1>0, <1>1, <1>2 DEF CallsApart
  <2>4. ASSUME NEW w \in Users, w # u, w # v
        PROVE  /\ pc'[w] = pc[w] /\ into'[w] = into[w]
               /\ pc[w] = "move" => into[w] \in Users /\ pc[into[w]] = "source" /\ into[w] # u /\ into[w] # v
    BY <1>0, <1>2, <2>4, Zenon DEF CallsApart
  <2>5. \A w \in Users :
          /\ pc'[w] \in {"close", "set"} => into'[w] = w \/ (w \in TcpServers /\ into'[w] \in Connections)
          /\ pc'[w] \notin {"close", "set", "move"} => into'[w] = w
          /\ pc'[w] \in {"bind", "listen", "pton"} => m_sock'[w] \in Fds
    BY <1>0, <1>2, <2>4 DEF CallsApart
  <2>6. \A w \in Users :
          pc'[w] = "move" => /\ into'[w] \in Users \ {w} /\ pc'[into'[w]] = "source"
                             /\ \A class \in Classes : w \in class <=> into'[w] \in class
    BY <1>0, <1>2, <2>1, <2>4 DEF CallsApart
  <2>7. \A w, x \in Users : into'[w] = into'[x] /\ pc'[w] # "source" /\ pc'[x] # "source" => w = x
    BY <1>0, <1>2, <2>3, <2>4 DEF CallsApart
  <2> QED BY <2>5, <2>6, <2>7, Zenon DEF CallsApart
<1>9. \A w \in Users : Good(w)' => Good(w) /\ w # u
  BY <1>1, <1>2, Zenon DEF Good
<1>10. SetUp'
  <2>1. \A w \in Users : /\ Good(w)' => m_sock'[w] \in Fds /\ file'[m_sock'[w]] \in Expected(w)
                         /\ pc'[w] = "move" => ret'[w] = "none"
    BY <1>0, <1>2, <1>6, <1>9 DEF SetUp
  <2>2. \A w \in UdpServers : /\ started'[w] /\ pc'[w] # "move" => ret'[w] \in {"ok", "moved"}
                              /\ pc'[w] \in {"close", "set", "bind"} => ~started'[w]
    BY <1>0, <1>2 DEF SetUp, Users, Udp
  <2>3. \A w \in UdpClients : fd'[w] \in Fds => file'[fd'[w]] = "udp"
    BY <1>0, <1>1, <1>6, Zenon DEF SetUp, Users, Udp
  <2> QED BY <2>1, <2>2, <2>3, Zenon DEF SetUp
<1> QED BY <1>5, <1>7, <1>8, <1>10, Zenon DEF IndInv

\* The destructor of an object closes its descriptor.
LEMMA DestroyStep ==
    ASSUME IndInv, NEW o \in Owners, Destroy(o)
    PROVE  IndInv'
<1>0. TypeOK /\ CallsApart /\ OneOwner /\ SetUp
  BY Zenon DEF IndInv
<1>1. /\ o \in Users => pc[o] = "idle"
      /\ \A u \in Users : into[u] = o => pc[u] = "idle"
      /\ file' = close(m_sock[o]) /\ m_sock' = [m_sock EXCEPT ![o] = Closed]
      /\ started' = [u \in UdpServers |-> started[u] /\ u # o]
      /\ ret' = [u \in Users |-> IF u = o THEN "none" ELSE ret[u]]
      /\ UNCHANGED <<pc, fd, into, aborted>>
  BY Zenon DEF Destroy
<1>2. m_sock'[o] = Closed /\ \A p \in Owners : p # o => m_sock'[p] = m_sock[p]
  BY <1>0, <1>1, Zenon DEF TypeOK
<1>3. o \notin Between /\ Between' = Between /\ Closed \notin Fds
  BY <1>0, <1>1, WhoIsBetween DEF Between, Closed, Fds
<1>4. OneOwner'
  <2>1. \A p \in Owners : Has(p)' <=> Has(p) /\ p # o
    BY <1>2, <1>3, Zenon DEF Has
  <2> QED BY <1>0, <1>1, <1>2, <1>3, <2>1, Closes, Zenon
<1>5. /\ file' \in [Fds -> Labels]
      /\ \A w \in Users : Good(w) /\ w # o => m_sock[w] \in Fds /\ file'[m_sock[w]] = file[m_sock[w]]
      /\ \A w \in Users : fd[w] \in Fds => file'[fd[w]] = file[fd[w]]
  BY <1>1, <1>3, CloseApart, Zenon
<1>6. TypeOK'
  <2>1. started' \in [UdpServers -> BOOLEAN]
    BY <1>1, Zenon
  <2> QED BY <1>0, <1>1, <1>5, <2>1, Zenon DEF TypeOK, Labels
<1>7. CallsApart'
  BY <1>0, <1>1, <1>2 DEF CallsApart, Owners
<1>8. \A w \in Users : Good(w)' => Good(w) /\ w # o
  BY <1>1, Zenon DEF Good
<1>9. SetUp'
  <2>1. \A w \in UdpServers : started'[w] <=> started[w] /\ w # o
    BY <1>1, Zenon
  <2> QED BY <1>0, <1>1, <1>2, <1>5, <1>8, <2>1 DEF SetUp, Users, Udp, Owners
<1> QED BY <1>4, <1>6, <1>7, <1>9, Zenon DEF IndInv

\* Socket::operator= stores the new descriptor.
LEMMA AssignSetStep ==
    ASSUME IndInv, NEW u \in Users, AssignSet(u)
    PROVE  IndInv'
<1>0. TypeOK /\ CallsApart /\ OneOwner /\ SetUp
  BY Zenon DEF IndInv
<1>1. PICK o \in Owners, f \in Fds \cup {Closed} : into[u] = o /\ fd[u] = f
  BY <1>0, Zenon DEF TypeOK
<1>2. PICK to \in {"idle", "bind", "pton"}, r \in {"none", "ok", "moved"} :
          /\ pc[u] = "set" /\ pc' = [pc EXCEPT ![u] = to] /\ ret' = [ret EXCEPT ![u] = r]
          /\ r = ret[u] \/ (u \in UdpClients /\ o \notin Connections /\ r = "ok")
          /\ to = "idle" => o \in Connections \/ u \in UdpClients
          /\ o \in Connections => to = "idle"
  <2>1. /\ ret[u] \in {"none", "ok", "moved"} /\ ret = [ret EXCEPT ![u] = ret[u]]
        /\ u \notin Connections
    BY <1>0, Zenon DEF TypeOK
  <2> QED BY <1>1, <2>1, Zenon DEF AssignSet, AfterSet, Goto, Return
<1>3. /\ m_sock' = [m_sock EXCEPT ![o] = f] /\ fd' = [fd EXCEPT ![u] = Closed]
      /\ into' = [into EXCEPT ![u] = u] /\ UNCHANGED <<file, started, aborted>>
  BY <1>1, Zenon DEF AssignSet
<1>4. /\ f \in Fds /\ (o = u \/ (u \in TcpServers /\ o \in Connections)) /\ Closed \notin Fds
      /\ file[f] # "free"
  BY <1>0, <1>1, <1>2 DEF TypeOK, CallsApart, OneOwner, Closed, Fds
<1>5. /\ pc'[u] = to /\ ret'[u] = r /\ m_sock'[o] = f /\ fd'[u] = Closed /\ into'[u] = u
      /\ file' = file /\ started' = started /\ \A w \in Users : w # u => w # o
      /\ \A w \in Users : w # u => pc'[w] = pc[w] /\ ret'[w] = ret[w] /\ fd'[w] = fd[w] /\ into'[w] = into[w]
      /\ \A p \in Owners : p # o => m_sock'[p] = m_sock[p]
  BY <1>0, <1>2, <1>3, <1>4, Zenon DEF TypeOK
<1>6. TypeOK'
  BY <1>0, <1>2, <1>3, <1>4, <1>5, ZenonT(40) DEF TypeOK, Owners
<1>7. CallsApart'
  <2>1. \A w \in Users : w # u /\ pc[w] # "source" => into[w] # u
    BY <1>0, <1>1, <1>2 DEF CallsApart, Owners
  <2>2. m_sock'[u] \in Fds \/ to = "idle"
    BY <1>2, <1>4, <1>5, Zenon DEF CallsApart
  <2>3. \A w \in Users : w # u => m_sock'[w] = m_sock[w]
    BY <1>5, Zenon DEF Owners
  <2> HIDE DEF Classes
  <2> QED BY <1>0, <1>2, <1>5, <2>1, <2>2, <2>3 DEF CallsApart
<1>8. \A p \in Owners : p \in Between' <=> p \in Between /\ p # o
  <2>1. \A w \in Users : (pc'[w] = "set" <=> pc[w] = "set" /\ w # u) /\ (pc'[w] = "move" <=> pc[w] = "move")
    BY <1>2, <1>5, Zenon
  <2>2. \A w \in Users : pc[w] = "set" /\ w # u => into[w] # o
    BY <1>0, <1>1, <1>2, Zenon DEF CallsApart
  <2>3. o \in Users => pc[o] # "move"
    BY <1>2, <1>4, Zenon
  <2> QED BY <1>1, <1>5, <2>1, <2>2, <2>3 DEF Between
<1>9. OneOwner'
  <2>1. \A p \in Owners : /\ Has(p)' <=> Has(p) \/ p = o
                          /\ Has(p) => p # o /\ m_sock'[p] = m_sock[p] /\ m_sock[p] \in Fds
    <3>1. o \in Between
      BY <1>1, <1>2, Zenon DEF Between
    <3> QED BY <1>4, <1>5, <1>8, <3>1, Zenon DEF Has
  <2>2. \A p \in Owners : Has(p) => m_sock[p] # f
    BY <1>0, <1>1, Zenon DEF OneOwner
  <2>3. \A w \in Users : w # u => fd[w] # f
    BY <1>0, <1>1, <1>4, Zenon DEF OneOwner
  <2> QED BY <1>0, <1>1, <1>4, <1>5, <2>1, <2>2, <2>3 DEF OneOwner
<1>10. SetUp'
  <2>1. \A w \in Users : w # u => (Good(w)' <=> Good(w)) /\ m_sock'[w] = m_sock[w]
    BY <1>5, Zenon DEF Good, Owners
  <2>2. Good(u)' => m_sock'[u] \in Fds /\ file'[m_sock'[u]] \in Expected(u)
    <3>1. CASE o # u
      BY <1>0, <1>1, <1>2, <1>4, <1>5, <3>1, ZenonT(40) DEF Good, SetUp, Owners, Users, Tcp, Udp
    <3>2. CASE o = u
      <4>1. Good(u)' => u \in UdpClients
        BY <1>2, <1>5, <3>2, Zenon DEF Good
      <4>2. u \in UdpClients => file'[m_sock'[u]] = "udp"
        BY <1>0, <1>1, <1>4, <1>5, <3>2 DEF SetUp
      <4> QED BY <1>4, <1>5, <3>2, <4>1, <4>2, Zenon DEF Expected, Users, Tcp, Udp
    <3> QED BY <3>1, <3>2, Zenon
  <2>3. \A w \in Users : /\ Good(w)' => m_sock'[w] \in Fds /\ file'[m_sock'[w]] \in Expected(w)
                         /\ pc'[w] = "move" => ret'[w] = "none"
    BY <1>0, <1>2, <1>5, <2>1, <2>2, ZenonT(40) DEF SetUp
  <2>4. \A w \in UdpServers : /\ started'[w] /\ pc'[w] # "move" => ret'[w] \in {"ok", "moved"}
                              /\ pc'[w] \in {"close", "set", "bind"} => ~started'[w]
    BY <1>0, <1>2, <1>5 DEF SetUp, Users, Udp
  <2>5. \A w \in UdpClients : fd'[w] \in Fds => file'[fd'[w]] = "udp"
    BY <1>0, <1>4, <1>5 DEF SetUp, Users, Udp
  <2> QED BY <2>3, <2>4, <2>5, Zenon DEF SetUp
<1> QED BY <1>6, <1>7, <1>9, <1>10, Zenon DEF IndInv

\* A move takes the source's descriptor, with what was set up there.
LEMMA MoveSetStep ==
    ASSUME IndInv, NEW u \in Users, MoveSet(u)
    PROVE  IndInv'
<1>0. TypeOK /\ CallsApart /\ OneOwner /\ SetUp
  BY Zenon DEF IndInv
<1>1. PICK v \in Users : /\ v = into[u] /\ v # u /\ pc[v] = "source" /\ pc[u] = "move" /\ into[v] = v
                         /\ \A class \in Classes : u \in class <=> v \in class
  BY <1>0, Zenon DEF CallsApart, MoveSet
<1>2. /\ pc' = [pc EXCEPT ![u] = "idle", ![v] = "idle"]
      /\ m_sock' = [m_sock EXCEPT ![u] = m_sock[v], ![v] = Closed]
      /\ started' = IF u \in UdpServers THEN [started EXCEPT ![u] = started[v]] ELSE started
      /\ ret' = [ret EXCEPT ![u] = ret[v], ![v] = "moved"]
      /\ into' = [into EXCEPT ![u] = u]
      /\ UNCHANGED <<file, fd, aborted>>
  BY <1>1, Zenon DEF MoveSet
<1>3. /\ pc'[u] = "idle" /\ pc'[v] = "idle" /\ into'[u] = u /\ ret'[u] = ret[v] /\ ret'[v] = "moved"
      /\ m_sock'[u] = m_sock[v] /\ m_sock'[v] = Closed /\ Closed \notin Fds /\ u \in Owners /\ v \in Owners
      /\ file' = file /\ fd' = fd
      /\ \A w \in Users : w # u => into'[w] = into[w]
      /\ \A w \in Users : w # u /\ w # v => pc'[w] = pc[w] /\ ret'[w] = ret[w]
      /\ \A p \in Owners : p # u /\ p # v => m_sock'[p] = m_sock[p]
  BY <1>0, <1>1, <1>2 DEF TypeOK, Owners, Closed, Fds
<1>4. u \in UdpServers <=> v \in UdpServers
  BY <1>1, Zenon DEF Classes
<1>5. /\ \A w \in UdpServers : w # u => started'[w] = started[w]
      /\ u \in UdpServers => started'[u] = started[v]
      /\ started' \in [UdpServers -> BOOLEAN]
  <2>1. started \in [UdpServers -> BOOLEAN]
    BY <1>0, Zenon DEF TypeOK
  <2>2. CASE u \in UdpServers
    <3>1. started' = [started EXCEPT ![u] = started[v]]
      BY <1>2, <2>2, Zenon
    <3> QED BY <1>4, <2>1, <2>2, <3>1, Zenon
  <2>3. CASE u \notin UdpServers
    BY <1>2, <2>1, <2>3, Zenon
  <2> QED BY <2>2, <2>3, Zenon
<1>6. TypeOK'
  <2>1. /\ pc' \in [Users -> {"idle", "close", "set", "bind", "listen", "pton", "move", "source"}]
        /\ m_sock' \in [Owners -> Fds \cup {Closed}] /\ into' \in [Users -> Owners]
        /\ ret' \in [Users -> {"none", "ok", "moved"}]
    BY <1>0, <1>1, <1>2, <1>3 DEF TypeOK
  <2>2. \A w \in Users : fd'[w] \in Fds <=> pc'[w] \in {"close", "set"}
    BY <1>0, <1>1, <1>3, Zenon DEF TypeOK
  <2> QED BY <1>0, <1>2, <1>5, <2>1, <2>2, Zenon DEF TypeOK
<1>7. CallsApart'
  <2>1. ASSUME NEW w \in Users, w # u, w # v
        PROVE  /\ pc'[w] = pc[w] /\ into'[w] = into[w] /\ m_sock'[w] = m_sock[w]
               /\ pc[w] = "move" => into[w] \in Users /\ pc[into[w]] = "source" /\ into[w] # u /\ into[w] # v
               /\ pc[w] # "source" => into[w] # u /\ into[w] # v
    BY <1>0, <1>1, <1>3, <2>1 DEF CallsApart, Owners
  <2>2. \A w \in Users :
          /\ pc'[w] \in {"close", "set"} => into'[w] = w \/ (w \in TcpServers /\ into'[w] \in Connections)
          /\ pc'[w] \notin {"close", "set", "move"} => into'[w] = w
          /\ pc'[w] \in {"bind", "listen", "pton"} => m_sock'[w] \in Fds
    BY <1>0, <1>1, <1>3, <2>1 DEF CallsApart
  <2>3. \A w \in Users :
          pc'[w] = "move" => /\ into'[w] \in Users \ {w} /\ pc'[into'[w]] = "source"
                             /\ \A class \in Classes : w \in class <=> into'[w] \in class
    BY <1>0, <1>1, <1>3, <2>1 DEF CallsApart
  <2>4. \A w, x \in Users : into'[w] = into'[x] /\ pc'[w] # "source" /\ pc'[x] # "source" => w = x
    BY <1>0, <1>1, <1>3, <2>1 DEF CallsApart
  <2> QED BY <2>2, <2>3, <2>4, Zenon DEF CallsApart
<1>8. \A p \in Owners : p \in Between' <=> p \in Between /\ p # u
  <2>1. \A w \in Users : (pc'[w] = "set" <=> pc[w] = "set") /\ (pc'[w] = "move" <=> pc[w] = "move" /\ w # u)
    BY <1>1, <1>3, Zenon
  <2>2. \A w \in Users : pc[w] = "set" => into'[w] = into[w] /\ into[w] # u
    BY <1>0, <1>1, <1>3 DEF CallsApart, Owners
  <2> QED BY <2>1, <2>2 DEF Between
<1>9. OneOwner'
  <2>1. v \notin Between /\ u \in Between
    BY <1>0, <1>1, WhoIsBetween, <1>3, Zenon
  <2>2. /\ \A p \in Owners : p # u /\ p # v => (Has(p)' <=> Has(p))
        /\ Has(u)' <=> Has(v)
        /\ ~Has(v)' /\ ~Has(u)
    BY <1>1, <1>3, <1>8, <2>1, Zenon DEF Has
  <2> QED BY <1>0, <1>1, <1>3, <2>2 DEF OneOwner
<1>10. SetUp'
  <2>1. \A w \in Users : w # u /\ w # v => (Good(w)' <=> Good(w)) /\ m_sock'[w] = m_sock[w]
    BY <1>3, Zenon DEF Good, Owners
  <2>2. ~Good(v)' /\ (Good(u)' => Good(v))
    BY <1>1, <1>3, Zenon DEF Good
  <2>3. Expected(u) = Expected(v)
    BY <1>1, SameExpected, Zenon
  <2>4. \A w \in Users : /\ Good(w)' => m_sock'[w] \in Fds /\ file'[m_sock'[w]] \in Expected(w)
                         /\ pc'[w] = "move" => ret'[w] = "none"
    <3>1. \A w \in Users : /\ Good(w) => m_sock[w] \in Fds /\ file[m_sock[w]] \in Expected(w)
                           /\ pc[w] = "move" => ret[w] = "none"
      BY <1>0, Zenon DEF SetUp
    <3> QED BY <1>1, <1>3, <2>1, <2>2, <2>3, <3>1, ZenonT(40)
  <2>5. \A w \in UdpServers : /\ started'[w] /\ pc'[w] # "move" => ret'[w] \in {"ok", "moved"}
                              /\ pc'[w] \in {"close", "set", "bind"} => ~started'[w]
    BY <1>0, <1>1, <1>3, <1>4, <1>5 DEF SetUp, Users, Udp
  <2>6. \A w \in UdpClients : fd'[w] \in Fds => file'[fd'[w]] = "udp"
    BY <1>0, <1>3, Zenon DEF SetUp
  <2> QED BY <2>4, <2>5, <2>6, Zenon DEF SetUp
<1> QED BY <1>6, <1>7, <1>9, <1>10, Zenon DEF IndInv

\* create_socket opens a descriptor or fails.
LEMMA CreateSocketStep ==
    ASSUME IndInv, NEW u \in Users, CreateSocket(u)
    PROVE  IndInv'
<1>0. TypeOK /\ file \in [Fds -> Labels]
  BY Zenon DEF IndInv, TypeOK, Labels
<1>1. pc[u] = "idle" /\ ~(u \in UdpServers /\ started[u]) /\ u \in Owners
  BY Zenon DEF CreateSocket, Owners
<1>2. CASE /\ OpenFd(u, u, IF u \in Tcp THEN "tcp" ELSE "udp") /\ Goto(u, "idle", "close")
           /\ UNCHANGED <<m_sock, started, ret, aborted>>
  <2>1. PICK state \in {"tcp", "udp"} : OpenFd(u, u, state) /\ (u \in UdpClients => state = "udp")
    <3>1. CASE u \in Tcp
      BY <1>2, <3>1, Zenon DEF Udp
    <3>2. CASE u \notin Tcp
      BY <1>2, <3>2, Zenon
    <3> QED BY <3>1, <3>2, Zenon
  <2> QED BY <1>1, <1>2, <2>1, OpenStep, Zenon
<1>3. CASE /\ Return(u, "idle", "none") /\ aborted' = (u \in UdpClients)
           /\ UNCHANGED <<file, m_sock, fd, into, started>>
  <2>1. pc' = [pc EXCEPT ![u] = "idle"] /\ ret' = [ret EXCEPT ![u] = "none"]
    BY <1>3, Zenon DEF Return, Goto
  <2>2. aborted' \in BOOLEAN
    BY <1>3
  <2>3. started' \in [UdpServers -> BOOLEAN] /\ \A w \in UdpServers : started'[w] => w # u /\ started[w]
    BY <1>0, <1>1, <1>3, Zenon DEF TypeOK
  <2>9. Labelled(u, "idle", "none")
    BY <1>0, <1>1, <1>3, <2>1, <2>2, <2>3, Zenon DEF Labelled
  <2> QED BY <1>1, <2>9, LabelStep, Zenon
<1> QED BY <1>2, <1>3, Zenon DEF CreateSocket

\* accept_client opens a descriptor for a connection.
LEMMA AcceptStep ==
    ASSUME IndInv, NEW s \in TcpServers, NEW k \in Connections, Accept(s, k)
    PROVE  IndInv'
<1>1. s \in Users /\ s \notin UdpClients /\ s \notin UdpServers /\ k \in Owners
  BY Zenon DEF Users, Tcp, Udp, Owners
<1>2. /\ \A u \in Users : pc[u] # "idle" => into[u] # k
      /\ OpenFd(s, k, "connected") /\ Goto(s, "idle", "close") /\ UNCHANGED <<m_sock, started, ret, aborted>>
  BY Zenon DEF Accept
<1> QED BY <1>1, <1>2, OpenStep, Zenon

\* What the state of a call says of its object.
LEMMA CallFacts ==
    ASSUME IndInv, NEW u \in Users
    PROVE  /\ ret[u] \in {"none", "ok", "moved"} /\ file \in [Fds -> Labels]
           /\ started \in [UdpServers -> BOOLEAN] /\ aborted \in BOOLEAN
           /\ m_sock[u] \in Fds \/ m_sock[u] = Closed
           /\ pc[u] \in {"bind", "listen", "pton"} => m_sock[u] \in Fds
           /\ u \in UdpServers /\ pc[u] = "bind" => ~started[u]
           /\ ret = [ret EXCEPT ![u] = ret[u]] /\ pc = [pc EXCEPT ![u] = pc[u]]
<1>1. TypeOK /\ CallsApart /\ SetUp
  BY Zenon DEF IndInv
<1> QED BY <1>1 DEF TypeOK, CallsApart, SetUp, Owners, Labels

\* A call that sets up a socket fails.
LEMMA FailStep ==
    ASSUME IndInv, NEW u \in Users, NEW from \in {"bind", "listen", "pton"}, Return(u, from, "none"),
           u \in UdpServers => from = "bind", file' = file, m_sock' = m_sock, fd' = fd, into' = into,
           started' = started, aborted' = aborted
    PROVE  IndInv'
<1>1. pc[u] = from /\ pc' = [pc EXCEPT ![u] = "idle"] /\ ret' = [ret EXCEPT ![u] = "none"]
  BY Zenon DEF Return, Goto
<1>2. Labelled(u, "idle", "none")
  BY <1>1, CallFacts, Zenon DEF Labelled
<1> QED BY <1>2, LabelStep, Zenon

\* Such a call succeeds.
LEMMA DoneStep ==
    ASSUME IndInv, NEW u \in Users, NEW from \in {"bind", "listen", "pton"}, Return(u, from, "ok"),
           NEW x \in Labels \ {"free"}, x \in Expected(u), file' = [file EXCEPT ![m_sock[u]] = x],
           m_sock' = m_sock, fd' = fd, into' = into, aborted' = aborted,
           started' \in [UdpServers -> BOOLEAN], \A w \in UdpServers : started'[w] => w = u \/ started[w]
    PROVE  IndInv'
<1>1. pc[u] = from /\ pc' = [pc EXCEPT ![u] = "idle"] /\ ret' = [ret EXCEPT ![u] = "ok"]
  BY Zenon DEF Return, Goto
<1>2. m_sock[u] \in Fds /\ file'[m_sock[u]] = x
  BY <1>1, CallFacts, Zenon
<1>3. Labelled(u, "idle", "ok")
  BY <1>1, <1>2, CallFacts, Zenon DEF Labelled
<1> QED BY <1>3, LabelStep, Zenon

\* bind, the end of UdpServer's start.
LEMMA BindStep ==
    ASSUME IndInv, NEW u \in TcpServers \cup UdpServers, Bind(u)
    PROVE  IndInv'
<1>1. u \in Users /\ pc[u] = "bind" /\ m_sock' = m_sock /\ fd' = fd /\ into' = into /\ aborted' = aborted
  BY Zenon DEF Bind, Users, Tcp, Udp
<1>2. CASE Return(u, "bind", "none") /\ file' = file /\ started' = started
  BY <1>1, <1>2, FailStep, Zenon
<1>3. CASE /\ u \in Tcp /\ file' = [file EXCEPT ![m_sock[u]] = "tcp_bound"]
           /\ Goto(u, "bind", "listen") /\ ret' = ret /\ started' = started
  <2>1. pc' = [pc EXCEPT ![u] = "listen"] /\ u \notin UdpServers
    BY <1>3, Zenon DEF Goto, Udp
  <2>2. ret' = [ret EXCEPT ![u] = ret[u]] /\ ret[u] \in {"none", "ok", "moved"} /\ m_sock[u] \in Fds
    BY <1>1, <1>3, CallFacts, Zenon
  <2>3. /\ file' \in [Fds -> Labels] /\ started' = started
        /\ \A f \in Fds : file'[f] = file[f] \/ (f = m_sock[u] /\ file'[f] # "free")
    BY <1>1, <1>3, <2>2, CallFacts, Zenon DEF Labels
  <2>4. Labelled(u, "listen", ret[u])
    BY <1>1, <2>1, <2>2, <2>3, CallFacts, Zenon DEF Labelled
  <2> QED BY <1>1, <2>2, <2>4, LabelStep, Zenon
<1>4. CASE /\ u \notin Tcp /\ file' = [file EXCEPT ![m_sock[u]] = "udp_bound"]
           /\ Return(u, "bind", "ok") /\ started' = [started EXCEPT ![u] = TRUE]
  <2>1. "udp_bound" \in Expected(u) /\ "udp_bound" \in Labels \ {"free"}
    BY <1>4, Zenon DEF Expected, Tcp, Udp, Labels
  <2>2. started' \in [UdpServers -> BOOLEAN] /\ \A w \in UdpServers : started'[w] => w = u \/ started[w]
    BY <1>1, <1>4, CallFacts, Zenon
  <2> QED BY <1>1, <1>4, <2>1, <2>2, DoneStep, Zenon
<1> QED BY <1>2, <1>3, <1>4, Zenon DEF Bind

\* listen, the end of TcpServer's start.
LEMMA ListenStep ==
    ASSUME IndInv, NEW u \in TcpServers, Listen(u)
    PROVE  IndInv'
<1>1. u \in Users /\ u \notin UdpServers /\ "listening" \in Expected(u) /\ "listening" \in Labels \ {"free"}
  BY Zenon DEF Expected, Users, Tcp, Udp, Labels
<1>2. m_sock' = m_sock /\ fd' = fd /\ into' = into /\ started' = started /\ aborted' = aborted
  BY Zenon DEF Listen
<1>3. started' \in [UdpServers -> BOOLEAN]
  BY <1>1, <1>2, CallFacts, Zenon
<1> QED BY <1>1, <1>2, <1>3, FailStep, DoneStep, Zenon DEF Listen

\* connect, the end of connect_to_server.
LEMMA ConnectStep ==
    ASSUME IndInv, NEW u \in TcpClients, Connect(u)
    PROVE  IndInv'
<1>1. u \in Users /\ u \notin UdpServers /\ "connected" \in Expected(u) /\ "connected" \in Labels \ {"free"}
  BY Zenon DEF Expected, Users, Tcp, Udp, Labels
<1>2. m_sock' = m_sock /\ fd' = fd /\ into' = into /\ started' = started /\ aborted' = aborted
  BY Zenon DEF Connect
<1>3. started' \in [UdpServers -> BOOLEAN]
  BY <1>1, <1>2, CallFacts, Zenon
<1> QED BY <1>1, <1>2, <1>3, FailStep, DoneStep, Zenon DEF Connect

\* bind_local.
LEMMA BindLocalStep ==
    ASSUME IndInv, NEW u \in UdpClients, BindLocal(u)
    PROVE  IndInv'
<1>1. u \in Users /\ u \notin UdpServers
  BY Zenon DEF Users, Tcp, Udp
<1>2. /\ pc[u] = "idle" /\ m_sock[u] # Closed /\ file' = [file EXCEPT ![m_sock[u]] = "udp_bound"]
      /\ m_sock' = m_sock /\ fd' = fd /\ into' = into /\ aborted' = aborted /\ started' = started
  BY Zenon DEF BindLocal
<1>3. pc' = [pc EXCEPT ![u] = "idle"] /\ ret' = [ret EXCEPT ![u] = ret[u]] /\ ret[u] \in {"none", "ok", "moved"}
  BY <1>1, CallFacts, Zenon DEF BindLocal
<1>4. m_sock[u] \in Fds /\ file \in [Fds -> Labels] /\ file'[m_sock[u]] = "udp_bound"
  BY <1>1, <1>2, CallFacts, Zenon
<1>5. "udp_bound" \in Expected(u)
  BY Zenon DEF Expected, Tcp, Udp
<1>6. /\ file' \in [Fds -> Labels]
      /\ \A f \in Fds : file'[f] = file[f] \/ (f = m_sock[u] /\ file'[f] # "free")
  BY <1>2, <1>4, Zenon DEF Labels
<1>7. Labelled(u, "idle", ret[u])
  BY <1>1, <1>2, <1>3, <1>4, <1>5, <1>6, CallFacts DEF Labelled
<1> QED BY <1>1, <1>3, <1>7, LabelStep, Zenon

--------------------------------------------------------------------------------
(* The invariant and what it says of the run's properties. *)

\* Nothing is open in the beginning.
LEMMA InitInv == Init => IndInv
<1> SUFFICES ASSUME Init PROVE IndInv
  OBVIOUS
<1> USE DEF Init
<1>1. Closed \notin Fds
  BY DEF Closed, Fds
<1>2. TypeOK
  <2>1. started \in [UdpServers -> BOOLEAN] /\ aborted \in BOOLEAN
    BY Zenon
  <2>2. \A u \in Users : u \in Owners
    BY Zenon DEF Owners
  <2> QED BY <1>1, <2>1, <2>2, Zenon DEF TypeOK
<1>3. CallsApart
  BY Zenon DEF CallsApart
<1>4. OneOwner
  BY <1>1, Zenon DEF OneOwner, Has
<1>5. SetUp
  BY <1>1, Zenon DEF SetUp, Good, Users, Udp
<1> QED BY <1>2, <1>3, <1>4, <1>5, Zenon DEF IndInv

\* Every step keeps the invariant.
LEMMA StepInv == IndInv /\ [Next]_vars => IndInv'
<1> SUFFICES ASSUME IndInv, [Next]_vars PROVE IndInv'
  OBVIOUS
<1>1. CASE UNCHANGED vars
  <2>1. /\ file' = file /\ m_sock' = m_sock /\ pc' = pc /\ fd' = fd /\ into' = into
        /\ started' = started /\ ret' = ret /\ aborted' = aborted
    BY <1>1, Zenon DEF vars
  <2>2. TypeOK' <=> TypeOK
    BY <2>1, Zenon DEF TypeOK
  <2>3. CallsApart' <=> CallsApart
    BY <2>1, Zenon DEF CallsApart
  <2>4. OneOwner' <=> OneOwner
    BY <2>1 DEF OneOwner, Has, Between
  <2>5. SetUp' <=> SetUp
    BY <2>1, Zenon DEF SetUp, Good
  <2> QED BY <2>2, <2>3, <2>4, <2>5, Zenon DEF IndInv
<1>2. CASE \E u \in Users : CreateSocket(u) \/ AssignClose(u) \/ AssignSet(u) \/ MoveSet(u)
  BY <1>2, CreateSocketStep, AssignCloseStep, AssignSetStep, MoveSetStep, Zenon
<1>3. CASE \E u, v \in Users : MoveClose(u, v)
  BY <1>3, MoveCloseStep, Zenon
<1>4. CASE \E u \in TcpServers \cup UdpServers : Bind(u)
  BY <1>4, BindStep, Zenon
<1>5. CASE \E s \in TcpServers : Listen(s) \/ \E k \in Connections : Accept(s, k)
  BY <1>5, ListenStep, AcceptStep, Zenon
<1>6. CASE (\E c \in TcpClients : Connect(c)) \/ (\E d \in UdpClients : BindLocal(d))
  BY <1>6, ConnectStep, BindLocalStep, Zenon
<1>7. CASE \E o \in Owners : Destroy(o)
  BY <1>7, DestroyStep, Zenon
<1> QED BY <1>1, <1>2, <1>3, <1>4, <1>5, <1>6, <1>7, Zenon DEF Next

\* One owner means one holder.
LEMMA OwnedOnce == IndInv => FdsOwned
<1> SUFFICES ASSUME IndInv, NEW f \in Fds
             PROVE  IF file[f] = "free" THEN Holders(f) = {} ELSE \E h \in Holders(f) : Holders(f) = {h}
  BY Zenon DEF IndInv, FdsOwned
<1>0. OneOwner
  BY Zenon DEF IndInv
<1> DEFINE S == {o \in Owners : Has(o) /\ m_sock[o] = f}
           C == {u \in Users : fd[u] = f}
<1>1. Holders(f) = ({"socket"} \X S) \cup ({"call"} \X C)
  BY Zenon DEF Holders, Has
<1>2. CASE file[f] = "free"
  <2>1. S = {} /\ C = {}
    BY <1>0, <1>2 DEF OneOwner
  <2> QED BY <1>1, <1>2, <2>1, Zenon
<1>3. CASE file[f] # "free" /\ \E o \in Owners : Has(o) /\ m_sock[o] = f
  <2>1. PICK o \in Owners : Has(o) /\ m_sock[o] = f
    BY <1>3, Zenon
  <2>2. S = {o} /\ C = {}
    BY <1>0, <2>1, ZenonT(40) DEF OneOwner
  <2>3. Holders(f) = {<<"socket", o>>}
    BY <1>1, <2>2
  <2> QED BY <1>3, <2>3, Zenon
<1>4. CASE file[f] # "free" /\ \E u \in Users : fd[u] = f
  <2>1. PICK u \in Users : fd[u] = f
    BY <1>4, Zenon
  <2>2. C = {u} /\ S = {}
    BY <1>0, <2>1 DEF OneOwner
  <2>3. Holders(f) = {<<"call", u>>}
    BY <1>1, <2>2
  <2> QED BY <1>4, <2>3, Zenon
<1> QED BY <1>0, <1>2, <1>3, <1>4, Zenon DEF OneOwner

\* A socket that was set up is open and in its state.
LEMMA KeptSetUp == IndInv => SocketsKept
<1> SUFFICES ASSUME IndInv, NEW u \in Users
             PROVE  /\ (pc[u] = "idle" \/ into[u] # u) /\ ret[u] = "ok"
                       => m_sock[u] # Closed /\ file[m_sock[u]] \in Expected(u)
                    /\ u \in UdpServers /\ started[u] /\ pc[u] # "move" => ret[u] \in {"ok", "moved"}
  BY Zenon DEF SocketsKept
<1>1. SetUp /\ Closed \notin Fds
  BY DEF IndInv, Closed, Fds
<1> QED BY <1>1, Zenon DEF SetUp, Good

(* No descriptor leaks and none is closed twice, for every number of objects, *)
(* connections and descriptors: whatever the interleaving of the system       *)
(* calls, an open descriptor has exactly one owner.                           *)
THEOREM DescriptorsOwned == Spec => []FdsOwned
<1>1. Spec => []IndInv
  BY InitInv, StepInv, PTL DEF Spec
<1> QED BY <1>1, OwnedOnce, PTL

(* What start, connect_to_server and UdpClient's constructor set up stays     *)
(* until the object's next call: a close by another thread never reaches it.  *)
THEOREM SetUpIsKept == Spec => []SocketsKept
<1>1. Spec => []IndInv
  BY InitInv, StepInv, PTL DEF Spec
<1> QED BY <1>1, KeptSetUp, PTL
================================================================================
