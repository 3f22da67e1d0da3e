SPECIFICATION Spec
CONSTANTS
    Requests = {r}
    Ids = {i}
    Names <- MCNames
    Numbers <- MCNumbers
    Addresses <- MCAddresses
    Pool <- MCPool
    Format <- MCFormat
    Encrypt <- MCEncrypt
    Bodies <- MCBodies
    Sayings = {"rahul", "n2"}
    UpstreamStatuses = {200, 429}
    MaxSessions = 1
    FailModes = {"open", "closed"}
    None = None
CHECK_DEADLOCK FALSE
INVARIANTS
    UpstreamErrorsPropagate
