SPECIFICATION Spec
CONSTANTS
    Conn = {c1, c2, c3}
    Client = {k1, k2}
    NoConn = NoConn
    NoClient = NoClient
    MaxConns = 2
    MaxInbox = 1
    Allowed = {"noKeepAlive"}
SYMMETRY Symmetry
INVARIANTS TypeOK PermitsMatch NoDeadEntry ReachableAlone CrashNeedsBadStart
PROPERTY EntryLostByOwnEnd
