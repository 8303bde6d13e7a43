SPECIFICATION Spec
CONSTANTS
    c1 = c1
    r1 = r1
    r2 = r2
    s1 = s1
    s2 = s2
    s3 = s3
    n1 = n1
    n2 = n2
    n3 = n3
    k1 = k1
    NoCard = NoCard
    Call = {c1}
    Reviewer = {r1, r2}
    Shop <- MCShop
    Note <- MCNote
    RankItem = {k1}
    Owner <- MCOwner
    Requests <- MCRequests
    Outputs <- MCOutputs
    Results <- MCResults
    MaxWrites = 1
    MaxClaims = 1
    MaxFaults = 3
SYMMETRY Reviewers
INVARIANTS
    TypeOK
    SealedIsTrue
    AnswerIsTrue
    CardsAreBacked
    TheReviewStands
CHECK_DEADLOCK FALSE
