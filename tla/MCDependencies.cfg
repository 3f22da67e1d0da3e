SPECIFICATION Spec
CONSTANTS
    Requests = {r1, r2}
    Order <- MCOrder
    Factories <- MCFactories
    Model = "tier2_model"
    Warmup = TRUE
INVARIANT
    OneSessionStore
CHECK_DEADLOCK FALSE
