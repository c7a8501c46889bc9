SPECIFICATION LiveFairSpec
CHECK_DEADLOCK FALSE
PROPERTIES AskedIsDone TroublePasses
