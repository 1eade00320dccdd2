\* Two processes on one profile, one window.
SPECIFICATION Spec
CONSTANTS
    None = None
    p1 = p1
    p2 = p2
    w1 = w1
    w2 = w2
    n1 = n1
    Proc <- MCProc
    Window <- MCWindowAlone
    Name <- MCName
    MaxLogins = 2
INVARIANTS
    TokenFollowsTheUser
    LastRequestIsShown
PROPERTIES
    LoginEnds
