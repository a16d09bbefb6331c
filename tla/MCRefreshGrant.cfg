\* The instance of MCSessions.cfg.
CONSTANTS
    p1 = p1
    p2 = p2
    g1 = g1
    g2 = g2
    Account <- MCAccount
    Users = {u1}
    Passwords = {p1, p2}
    Grants = {g1, g2}
    Callers = {c1, c2}
    None = None
    FirstAccounts <- MCFirstAccounts
    MaxCalls = 3
    MaxPairs = 3
    MaxEdits = 2
    MaxRestarts = 1
SYMMETRY Symmetric
CONSTRAINT FewEvents
SPECIFICATION Spec
INVARIANT RefreshServes
CHECK_DEADLOCK FALSE
