CONSTANTS
    NULL = NULL
    learner = learner
    reviewer = reviewer
    Requests = {r1, r2}
    Subjects = {learner, reviewer}
    ReviewerSubs = {reviewer}
    Served <- MCServed
    MaxConns = 1
    DevAuth = FALSE
SPECIFICATION FairSpec
\* The process ends.
CHECK_DEADLOCK FALSE
INVARIANTS TypeOK RepliesTruthful Guarded
PROPERTIES ExitWaits Answered Exits
