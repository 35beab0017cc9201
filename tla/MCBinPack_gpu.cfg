SPECIFICATION Spec
CONSTANTS
    Pods = {p1}
    Types = {t1}
    Needs <- GPUNeeds
    Caps <- GPUCaps
    Costs <- SomeCosts
    Overheads <- NoOverhead
INVARIANTS
    GPUsRespected
CHECK_DEADLOCK FALSE
