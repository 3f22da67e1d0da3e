SPECIFICATION Spec
CONSTANTS
    Requests = {q, r}
    Ids = {i, j}
    Names <- MCNames
    Numbers <- MCNumbers
    Addresses <- MCAddresses
    Pool <- MCPool
    Format <- MCFormat
    Encrypt <- MCEncrypt
    Bodies <- MCBodies
    Sayings = {"rahul", "n2"}
    UpstreamStatuses = {200}
    MaxSessions = 1
    FailModes = {"open", "closed"}
    None = None
CHECK_DEADLOCK FALSE
INVARIANTS
    FullySanitizedOrNotForwarded
    AnswerRestored
    OwnValuesOnly
    NamesConsistent
PROPERTIES
    ReplaysLeftAlone
    Answered
