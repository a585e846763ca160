\* Three calls in flight over two problems, in both orders: waits and circles.
SPECIFICATION FairSpec
CONSTANTS
    Sessions = {s1, s2, s3}
    Problems = {p1, p2}
    MaxProblems = 2
    Texts = {"a", "b", "p", "q", "A", "B", " ", ""}
    Identifiers = {"a", "b", "p", "q"}
    Blank = " "
    Unfilled = ""
    MaxDuration = 100
INVARIANTS
    TypeOK
    AnswerPartitions
    ItemsHaveProblems
    SameOrderNeverDeadlocks
PROPERTIES
    RegisteredOnce
    ServiceSpec
    EveryCallEnds
