\* Hours around a switch in a zone east of UTC, one and two hours ahead.
SPECIFICATION Spec
CONSTANTS
    Offsets = {1, 2}
    ClockSkew = 0
    Start = 0
    MaxTime = 6
INVARIANT DefaultIsNotInTheFuture
