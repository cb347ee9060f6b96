CONSTANTS
    t1 = t1
    t2 = t2
    d = d
    db = db
    f = f
    l = l
    prv = prv
    pub = pub
    e = e
    extra = extra
    inv = inv
    play = play
    lplay = lplay
    a = a
    b = b
    k1 = k1
    k2 = k2
    k3 = k3
    wide = wide
    v1 = v1
    v2 = v2
    None = None
    Dir = Dir
    Root = Root
    Threads = {t1, t2}
    Paths = {d, db, f, l, prv, pub, e, extra, inv, play, lplay}
    Local = {l, lplay}
    Inodes = {1, 2, 3, 4, 5, 6, 7, 8}
    Contents = {a, b, k1, k2, k3}
    Texts = {a, b, wide}
    Chunks = 2
    Parent <- InDir
    Base <- Names4
    Latin1 <- Ascii
    Utf8 <- Encodes
    Initially <- AtFirst
    Held <- Contains
    Requests <- FileRequests
    Prv = prv
    Pub = pub
    Keys = {k1, k2, k3}
    Runner = t1
    ExecDir = e
    InventoryFlag = InventoryFlag
    RunArgs <- ArgLists
    OsRelease = f
    SystemRelease = f
    Facts = {v1, v2}
    Plans <- WorkPlans
SPECIFICATION WorkSpec
INVARIANTS
    ArgumentsDelivered
    ExecDirRemoved
    RetrySafe
    OsInfoWhole
PROPERTIES
    Delivered
    RunnableIsWhole
    KeyMatches
CHECK_DEADLOCK FALSE
