SPECIFICATION MCSpec
CONSTANTS
    Pods = {p1, p2, p3}
    Types <- MCTypes
    Needs <- SmallNeeds
    Caps <- SmallCaps
    Costs <- SomeCosts
    Overheads <- AnyOverhead
    PodSpecs <- MCSpecs
    PriceLists <- MCLists
    Asks <- MCAsks
    Raised <- MCRaised
INVARIANTS
    TypeOK
    EveryPodOnce
    NoOversubscription
    PacksIfPossible
    OnlySingleOverGPUs
    PhasesFit
    LimitsKept
    PlanMatches
    CountsAgree
PROPERTIES
    LoopsEnd
    Answers
CHECK_DEADLOCK FALSE
