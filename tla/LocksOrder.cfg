\* Every operation on every connection.
CONSTANTS
    Txns = {t1, t2, t3}
    Accounts = {a, b}
    Tasks = {k}
    Rooms = {r}
SPECIFICATION Spec
INVARIANTS OnlyKnownCircles
SYMMETRY Peers
