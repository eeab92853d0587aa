\* Two hosts that may share a token, two enrollments that may carry the same name, and
\* credentials for three starts, under fairness.
CONSTANTS
    Hosts = {h1, h2}
    Enrollments = {e1, e2}
    Credentials = {c1, c2, c3}
    Names = {n1, n2}
    NoEnrollment = NoEnrollment
    NoCredential = NoCredential
    NoName = NoName
    NoIdentity = NoIdentity
SPECIFICATION FairSpec
INVARIANTS OneAgentPerEnrollment IdentitiesAuthenticate RetryIsAccepted
PROPERTIES DeadTokensStayDead ImplementsPairing DecisionsAreLearnt CommittedClaimIsLearnt
