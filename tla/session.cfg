SPECIFICATION Spec
CONSTANTS
    Conn = {n1, n2, n3}
    Client = {k1}
    NoClient = none
    Nil = nil
    Topic = {t1, t2}
    Contended = {}
    MaxErrors = 1
    MaxRestarts = 1
    MaxPackets = 3
SYMMETRY Symmetry
INVARIANTS TypeOK KeptIsStored KeptIsRouted OneSession CacheIsCurrent
PROPERTY DisconnectCleans DivergenceHasCause
