CONSTANTS
    u1 = u1
    u2 = u2
    d1 = d1
    d2 = d2
    p1 = p1
    h1 = h1
    h2 = h2
    Users = {u1, u2}
    Deleters = {d1, d2}
    Updaters = {p1}
    Handlers = {h1, h2}
    MaxFailedRuns = 1
    Nobody = Nobody
SPECIFICATION FairDeletionSpec
INVARIANTS OneEventPerDeletion ProfileGoesWithUser EffectOnce
PROPERTIES EventsAreHandled
CHECK_DEADLOCK FALSE
