CONSTANTS
    o1 = o1
    o2 = o2
    c1 = c1
    c2 = c2
    disk = disk
    share = share
    mnt = mnt
    tmp1 = tmp1
    tmp2 = tmp2
    None = None
    Objects = {o1, o2}
    Sources = {disk, share}
    Targets = {mnt}
    TmpDirs = {tmp1, tmp2}
    Source <- TwoSources
    Given <- OneTemporary
    MaxCalls = 2
    Clients = {c1, c2}
    Default = mnt
    Plans <- StoragePlans
SPECIFICATION StorageSpec
INVARIANTS
    MountedIsTrue
    TempDirsRemoved
PROPERTIES
    SourcesKept
CHECK_DEADLOCK FALSE
