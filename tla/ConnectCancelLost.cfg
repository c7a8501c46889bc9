SPECIFICATION FairSpec
CONSTANT MaxConnects = 1
CHECK_DEADLOCK FALSE
PROPERTY CancelEndsAttempt
