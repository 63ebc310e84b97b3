SPECIFICATION Spec
CONSTANTS
    TcpServers = {s}
    TcpClients = {c}
    UdpServers = {u, v}
    UdpClients = {d}
    Connections = {k}
    NumFds = 3
INVARIANTS FdsOwned SocketsKept
CHECK_DEADLOCK FALSE
