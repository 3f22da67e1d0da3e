SPECIFICATION Spec
CONSTANTS
    Ids = {i1, i2, i3}
    Threads = {t1, t2}
    Objects = {o1, o2, o3, o4, o5}
    MaxSessions = 2
    Ttl = 1
    MaxTime = 2
    Modes = {"threads", "event_loop"}
    None = None
SYMMETRY StoreSymmetry
INVARIANTS
    WithinCapacity
    RightConversation
    NoSplitBrain
PROPERTIES
    LeastRecentlyUsedEvicted
    LiveNeverReplaced
    ReturnedIsFresh
    AtomicOnEventLoop
