SPECIFICATION FairSpec
CONSTANTS
    Callers = {p1, p2}
    Classes = {c1}
    Names = {own, user}
    ClassOf <- MCClassOf
    OwnName <- MCOwnName
    Managed = {own, user}
    MaxCount = 2
    Prices = {35, 41}
    Raised = {35}
    DefaultBid = 10
    IdForms = {"pending"}
    Targets = {1, 2}
    None = None
    c1 = c1
    own = own
    user = user
INVARIANTS
    TypeOK
PROPERTIES
    KeepsCount
    CallReturns
