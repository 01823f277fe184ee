\* Two clients, one of them an admin, the other also a service; two accounts; more time
\* than a token lives.
SPECIFICATION Spec
CONSTANTS
    c1 = c1
    c2 = c2
    u1 = u1
    u2 = u2
    la = la
    lA = lA
    lb = lb
    blank = blank
    pw1 = pw1
    pw2 = pw2
    Blank = Blank
    None = None
    Normal <- SpellingOf
    Clients = {c1, c2}
    Admins = {c2}
    Services = {c1}
    Users = {u1, u2}
    Credentials <- SomeCredentials
    OtherTokens <- TokensFromElsewhere
    RenewalInterval = 1
    TTL = 2
    MaxLatency = 1
    MaxClock = 3
    MaxFaults = 1
SYMMETRY Symmetry
INVARIANTS
    SessionEnds OnlyFaultsFail DataToOwner
PROPERTIES
    ActiveStaysIn
CHECK_DEADLOCK FALSE
