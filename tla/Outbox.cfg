SPECIFICATION FairSpec
CONSTANTS
    Notice = {n1, c1}
    Campaign = {c1}
    Worker = {w1, w2}
    MaxAttempts = 2
    MaxCrashes = 1
    Overrun = FALSE
    None = None
INVARIANTS MailsAreBounded StatesTellTheTruth OutboxReconciles
PROPERTIES FinalMeansFinal 
CHECK_DEADLOCK FALSE
