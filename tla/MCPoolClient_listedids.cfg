SPECIFICATION FairSpec
CONSTANTS
    Callers = {p1}
    Classes = {c1}
    Names = {own, user}
    ClassOf <- MCClassOf
    OwnName <- MCOwnName
    Managed = {own}
    MaxCount = 2
    Prices = {12}
    Raised = {}
    DefaultBid = 10
    IdForms = {"listed"}
    Targets = {1}
    None = None
    c1 = c1
    own = own
    user = user
PROPERTIES
    KeepsCount
