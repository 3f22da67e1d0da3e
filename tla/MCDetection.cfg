SPECIFICATION Spec
CONSTANTS
    Length = 4
    Tier1Detectors = {1, 2}
    Tier2Detectors = {3}
    SurrogateLength <- MCSurrogateLength
    MaxSpans = 2
    FailModes = {"open", "closed"}
    None = None
CHECK_DEADLOCK FALSE
INVARIANTS
    NoOverlap
    OnlyOutranked
    Tier1Undisturbed
    ReplacedAtOnce
