CONSTANTS
    a1 = a1
    a2 = a2
    web = web
    None = None
    Hosts = {h1, h2, h3}
    Readers = {r1}
    Addresses <- PlainAddresses
    Names <- AllNames
    Fqdn <- PlainFqdn
SPECIFICATION Spec
INVARIANTS
    UniqueAddress
    LatestWins
    QuietLookupFinds
PROPERTIES
    EveryHostRegistered
CHECK_DEADLOCK FALSE
