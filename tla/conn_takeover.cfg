SPECIFICATION Spec
CONSTANTS
    Conn = {c1, c2}
    Client = {k1}
    NoConn = NoConn
    NoClient = NoClient
    MaxConns = 2
    MaxInbox = 1
    Allowed = {}
INVARIANT Reachable
