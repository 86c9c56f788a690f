\* Two requests with different bodies contend for one row: the default
\* deployment, with an operator who recovers timed-out claims.
CONSTANTS
    Keys = {k1}
    Fingerprints = {f1, f2}
    Requests = {r1, r2}
    Batch = 1
    TimeoutBelowClaim = TRUE
    OperatorRecovers = TRUE
SPECIFICATION FairSpec
INVARIANTS TypeOK AtMostOnce RecordTruthful ClaimOwned
PROPERTIES AnswersTruthful IndeterminateIsFinal ClaimResolves
