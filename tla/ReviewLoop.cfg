SPECIFICATION FairSpec
CONSTANTS
    sha1 = sha1
    sha2 = sha2
    sha3 = sha3
    None = None
    Shas <- TwoShas
    Base = sha1
    WaitingClasses = {"POLICY_RESOLVABLE", "CI_DEPENDENT", "REVIEW_DEPENDENT", "OWNER_DECISION_REQUIRED"}
    FailureClasses = {"CANDIDATE_DEFECT", "RECOVERABLE", "OWNER_REQUIRED"}
    Circumstances = {"none", "in_flight", "drift", "profile", "unproven_actor", "no_pr"}
    MaxTrouble = 2
    KeepBlocked = FALSE
INVARIANTS
    TypeOK
    ReviewOnlyAfterPass
    ParentPendingIsReviewed
PROPERTIES
    ParentOrParked
