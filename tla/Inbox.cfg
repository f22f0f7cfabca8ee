SPECIFICATION FairReviewSpec
CONSTANTS
    Desks = {d1, d2}
    ClaimData <- Inferred
    MaxProposals = 2
    MaxRequests = 4
    MayFail = {d2}
INVARIANTS
    ReviewTypeOK
    PendingHasNoClaim
    AuditedApprovalHasClaim
PROPERTIES
    DecisionsComplete
    ImplementsMemoryInbox
CHECK_DEADLOCK FALSE
