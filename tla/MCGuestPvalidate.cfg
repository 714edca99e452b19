SPECIFICATION MCSpec
CONSTANTS
    c1 = c1
    c2 = c2
    p1 = p1
    p2 = p2
    a1 = a1
    Cpus = {c1, c2}
    Bsp = c1
    Pages = {p1, p2}
    Caas = {a1}
    FwVmsa = FwVmsa
    None = None
    MaxEntries = 1
    MaxRequests = 3
    Vectors = {49, 50, 81}
    HostLevel = {50}
    Ids = {0, 1, 16}
    Self = 0
    MaxPosts = 3
    HostAnswers = {"ok", "invalid_len", "busy", "other"}
    Parts = {"vcpu"}
CHECK_DEADLOCK FALSE
INVARIANT PvalidateExcludesVmsa
