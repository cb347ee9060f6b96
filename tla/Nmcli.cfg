CONSTANTS
    t1 = t1
    t2 = t2
    a = a
    wired = wired
    colon = colon
    left = left
    right = right
    d1 = d1
    d2 = d2
    v = v
    escaped = escaped
    None = None
    Zero = Zero
    Threads = {t1, t2}
    Uuids = {"u1", "u2", "u3", "u4"}
    Devices = {d1, d2}
    Values = {a, wired, colon, left, right, v, Zero}
    MaxCalls = 2
    MaxPlugs = 2
    Names <- MCNames
    Split <- Cut
    Shown <- Escapes
    Requests <- NmcliRequests
    Existing <- Before
SYMMETRY Interchangeable
SPECIFICATION Spec
PROPERTIES
    Listed
    DoneAsAsked
CHECK_DEADLOCK FALSE
