CONSTANTS
    root1 = root1
    root2 = root2
    tester = tester
    None = None
    Threads = {t1, t2}
    Adders = {t1}
    Users = {root1, root2, tester}
    Name <- Names
    RootName = "root"
    KeyUsers = {tester}
    Lists = {cmd}
    Explicit = {None, root2}
    MaxWords = 1
SPECIFICATION Spec
INVARIANTS
    SudoHonoured
    UsersUnique
    PasswordsKept
PROPERTY
    NoNameLost
CHECK_DEADLOCK FALSE
