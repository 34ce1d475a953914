SPECIFICATION FairSpec
CONSTANTS
    e1 = e1
    e2 = e2
    f1 = f1
    Events = {e1, e2}
    Flushers = {f1}
    Mortal = {e1}
    Nobody = Nobody
    MaxTime = 0
PROPERTY EventuallyAnswered
