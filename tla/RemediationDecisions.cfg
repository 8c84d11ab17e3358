SPECIFICATION Spec
CONSTANTS
    AutomaticRules = {auto}
    ManualOnlyRules = {manual}
    NoResource = NoResource
    NoException = NoException
    NoCode = NoCode
    NoVerdict = NoVerdict
    Requests = {q1}
    Rules = {auto, manual}
    Resource = resource
    Outcomes <- MCOutcomes
    Commits = {c1, c2}
    MaxTime = 1
    MaxAssessments = 2
    MaxExceptions = 2
    NoRecord = NoRecord
INVARIANTS RequestsTypeOK NoRetroactiveSuppression SyncedCommitPassed PatchedCommitFailed
CHECK_DEADLOCK FALSE
