SPECIFICATION SpecApart
CONSTANTS
    h1 = h1 h2 = h2
    p1 = p1 p2 = p2
    t1 = t1
    Handlers = {h1, h2}
    Passwords = {p1, p2}
    Tokens = {t1}
    Nothing = Nothing
    MaxAttempts = 1
    Window = 1
    ResetLife = 1
    SessionLife = 1
    MaxTime = 1
    MaxDrops = 1
SYMMETRY Symmetric
INVARIANTS GuessesBounded IssueJustified ResetJustified
