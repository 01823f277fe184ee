CONSTANTS
    t1 = t1
    t2 = t2
    g1 = g1
    g2 = g2
    g3 = g3
    g4 = g4
    m1 = m1
    m2 = m2
    m3 = m3
    s1 = s1
    s2 = s2
    Topics = {t1, t2}
    Types = {g1, g2, g3, g4}
    TypeName <- TypeNames
    Messages = {m1, m2, m3}
    TypeOf <- TypeOfMessages
    Registrations <- AllRegistrations
    Handlers <- HandledTypes
    Subscriptions <- AllSubscriptions
    CallMessages <- AllCalls
    Callers = {c1}
    MaxTime = 1
    MaxFaults = 1
SPECIFICATION FairSpec
INVARIANTS CompleteOrNothing ConsumedOnce
PROPERTIES SentIsHandled
CHECK_DEADLOCK FALSE
