SPECIFICATION FairSpec
CONSTANTS
    Sessions = {s1, s2}
    LastStage = 3
    Unfailing = {1}
    StreamThreads = {"control"}
    StartedIn <- MCStartedIn
    Senders = {x1}
    Nobody = Nobody
CHECK_DEADLOCK FALSE
PROPERTY StopFinishes
PROPERTY QueueDrains
PROPERTY TerminationEndsSession
PROPERTY LifeFairSpec
