SPECIFICATION Spec
CONSTANTS
    Sessions = {s1, s2}
    LastStage = 3
    Unfailing = {1}
    StreamThreads = {"control", "input"}
    StartedIn <- MCStartedIn
    Senders = {x1}
    Nobody = Nobody
CHECK_DEADLOCK FALSE
INVARIANT TerminationFindsItsSession
