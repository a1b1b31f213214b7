SPECIFICATION Spec
CONSTANTS
    a = a
    b = b
    c = c
    d = d
    s1 = s1
    s2 = s2
    Hosts = {h1, h2}
    Sessions = {s1, s2}
    Calls = {a, b, c, d}
    SessionOf <- MCSessionOf
    Input <- MCInput
    WithId = {a, c}
    NoCall = NoCall
    Casts <- MCCasts
CHECK_DEADLOCK FALSE
INVARIANTS CountersAccounted IntentIsItsOwn StoreServes
PROPERTIES EveryIntentCloses
